--------------------------- MODULE VersionHistory ---------------------------
(***************************************************************************)
(* One shot as people and the engine change it: forms and inline editors  *)
(* of several tabs, approvals, deletion, the redraw of a run, the redraw  *)
(* or restore of a character it shows, "back to the previous version",    *)
(* and the version history (artifactversion) they all write.              *)
(*                                                                         *)
(* Writers do not lock: each write states the revision it read            *)
(* (version_id_col in the Gateway, casWrite in the engine), a save also   *)
(* states the revision its card showed (expected_revision).               *)
(*                                                                         *)
(* A row is known by its revision: rows[r] is what revision r holds, the   *)
(* last one is the stored row. A tab shows one revision, and which one is  *)
(* left open: events come late, in another order from two channels, and    *)
(* again after a reconnect, and the cache takes them as they come. All     *)
(* text fields are one text, keyframe, clip and sound are one picture. A   *)
(* tab has one request under way; its lock while it knows of an active run *)
(* is left out.                                                            *)
(***************************************************************************)
EXTENDS Naturals, Sequences

CONSTANTS
    Tabs,
    Texts,
    Complete,      \* the texts with which a shot can be approved
    NoText,        \* no text approved or typed
    MaxChanges     \* edits, clicks and redraws that are begun

ASSUME NoTextAssumption == NoText \notin Texts
ASSUME CompleteAssumption == Complete \subseteq Texts
ASSUME BoundAssumption == MaxChanges \in Nat

VARIABLES
    rows,       \* rows[r]: the shot at revision r
    live,       \* the shot is not deleted
    versions,   \* its versions, by number
    card,       \* card[t]: the revision tab t shows, Gone if it shows none
    draft,      \* draft[t]: the edit that is being typed
    request,    \* request[t]: the write under way
    drawing,    \* the revision the run froze, Gone when no redraw runs
    begun       \* changes begun so far

vars == <<rows, live, versions, card, draft, request, drawing, begun>>

Gone == 0
Row == [text : Texts, picture : Nat, approved : Texts \cup {NoText},
        by : {"plan", "save", "approve", "swap", "draw", "recast"}]
Version == [text : Texts, picture : Nat]

NoDraft == [editor |-> "none", text |-> NoText, base |-> NoText]
Draft == [editor : {"none", "form", "inline"}, text : Texts \cup {NoText}, base : Texts \cup {NoText}]

Kinds == {"none", "save", "approve", "swap", "recast", "delete"}
NoRequest == [kind |-> "none", draft |-> NoDraft, expected |-> 0, target |-> 0,
              read |-> 0, at |-> "sent"]
Request == [kind : Kinds, draft : Draft, expected : Nat, target : Nat, read : Nat,
            at : {"sent", "read", "written"}]

TypeOK ==
    /\ rows \in Seq(Row) /\ Len(rows) > 0
    /\ live \in BOOLEAN
    /\ versions \in Seq(Version)
    /\ card \in [Tabs -> 0..Len(rows)]
    /\ draft \in [Tabs -> Draft]
    /\ request \in [Tabs -> Request]
    /\ drawing \in 0..Len(rows)
    /\ begun \in 0..MaxChanges

Current == Len(rows)
Stored == rows[Current]
Shown(t) == rows[card[t]]
Content(row) == [text |-> row.text, picture |-> row.picture]

Init ==
    /\ \E x \in Texts :
          rows = <<[text |-> x, picture |-> 0, approved |-> NoText, by |-> "plan"]>>
    /\ live = TRUE
    /\ versions = <<>>
    /\ card = [t \in Tabs |-> 1]
    /\ draft = [t \in Tabs |-> NoDraft]
    /\ request = [t \in Tabs |-> NoRequest]
    /\ drawing = Gone
    /\ begun = 0

Begin == begun < MaxChanges /\ begun' = begun + 1

-----------------------------------------------------------------------------
(* A tab *)

\* Typing into the form of the inspector, or into the card itself: the draft
\* starts from the text the card shows.
Type(t, editor, x) ==
    /\ card[t] # Gone /\ draft[t] = NoDraft /\ Begin
    /\ x # Shown(t).text
    /\ draft' = [draft EXCEPT ![t] = [editor |-> editor, text |-> x, base |-> Shown(t).text]]
    /\ UNCHANGED <<rows, live, versions, card, request, drawing>>

\* Esc in the card; or the draft says what the card now shows anyway.
Drop(t) ==
    /\ draft[t] # NoDraft
    /\ draft[t].editor = "inline" \/ (card[t] # Gone /\ draft[t].text = Shown(t).text)
    /\ request[t].kind # "save"
    /\ draft' = [draft EXCEPT ![t] = NoDraft]
    /\ UNCHANGED <<rows, live, versions, card, request, drawing, begun>>

Send(t, r) ==
    /\ request[t] = NoRequest /\ card[t] # Gone
    /\ request' = [request EXCEPT ![t] = r]
    /\ UNCHANGED <<rows, live, versions, card, draft, drawing>>

\* Both editors state the revision the card shows when the save is sent.
Save(t) ==
    /\ draft[t] # NoDraft /\ draft[t].text # Shown(t).text
    /\ Send(t, [NoRequest EXCEPT !.kind = "save", !.draft = draft[t], !.expected = card[t]])
    /\ UNCHANGED begun

Approve(t) ==
    /\ card[t] # Gone /\ Shown(t).approved # Shown(t).text /\ Begin
    /\ Send(t, [NoRequest EXCEPT !.kind = "approve"])

\* "Back to the previous version": of the listed versions, the one before the
\* newest. With fewer than two there is nothing to go back to.
PreviousVersion(vs) == Len(vs) - 1

Swap(t) ==
    /\ PreviousVersion(versions) > 0 /\ Begin
    /\ Send(t, [NoRequest EXCEPT !.kind = "swap", !.target = PreviousVersion(versions)])

\* The same click on the card of a character the shot shows.
SwapCharacter(t) == Begin /\ Send(t, [NoRequest EXCEPT !.kind = "recast"])

Delete(t) == Begin /\ Send(t, [NoRequest EXCEPT !.kind = "delete"])

\* An event, an answer or a refetched list is put into the cache, whatever
\* revision it carries. The form is reset when the text it shows changes, both
\* editors go with the card.
Reset(t, r) ==
    IF \/ r = Gone
       \/ draft[t].editor = "form" /\ card[t] # Gone /\ rows[r].text # Shown(t).text
    THEN NoDraft
    ELSE draft[t]

Show(t, r) ==
    /\ r \in 1..Current \cup (IF live THEN {} ELSE {Gone})
    /\ card' = [card EXCEPT ![t] = r]
    /\ draft' = [draft EXCEPT ![t] = Reset(t, r)]
    /\ UNCHANGED <<rows, live, versions, request, drawing, begun>>

-----------------------------------------------------------------------------
(* The Gateway's handlers *)

Refuse(t) ==
    /\ request' = [request EXCEPT ![t] = NoRequest]
    /\ UNCHANGED <<rows, live, versions, card, draft, drawing, begun>>

\* Mutant: the revision the card showed is not looked at
ExpectedIgnored(r) == TRUE

\* assert_expected_revision, on the row just loaded
ExpectedHolds(r) == r.kind = "save" => r.expected = Current

\* _validate_shot_approval_ready: description, duration, camera and cast are there.
ApprovalReady(r) == r.kind = "approve" => Stored.text \in Complete

\* get_or_404 and the checks before the first write
Accepted(r) == live /\ ExpectedHolds(r) /\ ApprovalReady(r)
Read(t) ==
    /\ request[t].kind # "none" /\ request[t].at = "sent"
    /\ Accepted(request[t])
    /\ request' = [request EXCEPT ![t].read = Current, ![t].at = "read"]
    /\ UNCHANGED <<rows, live, versions, card, draft, drawing, begun>>

RefuseRead(t) ==
    /\ request[t].kind # "none" /\ request[t].at = "sent"
    /\ ~Accepted(request[t])
    /\ Refuse(t)

\* UPDATE ... WHERE revision = the one that was loaded
NotStale(read) == live /\ read = Current

\* Mutant: the snapshot takes the place of the row
\* The fields of ROLLBACK_FIELDS; what was approved stays.
Applied(row, snapshot) ==
    [row EXCEPT !.text = snapshot.text, !.picture = snapshot.picture, !.by = "swap"]

\* What the handler writes to the row it loaded
NewRow(r) ==
    LET row == rows[r.read] IN
    CASE r.kind = "save" -> [row EXCEPT !.text = r.draft.text, !.by = "save"]
      [] r.kind = "approve" -> [row EXCEPT !.approved = row.text, !.by = "approve"]
      [] r.kind = "swap" -> Applied(row, versions[r.target])
      [] OTHER -> [row EXCEPT !.picture = 0, !.by = "recast"]

\* The versions it adds: rollback records the shot after it applied the old
\* version, the restore of a character records each of its shots before it
\* clears the picture.
Recorded(r) ==
    CASE r.kind = "swap" -> Append(versions, Content(NewRow(r)))
      [] r.kind = "recast" -> Append(versions, Content(rows[r.read]))
      [] OTHER -> versions

\* A rollback that changes nothing updates nothing, so that nothing is compared.
Unchanged(r) == r.kind \in {"swap", "recast"} /\ Content(NewRow(r)) = Content(rows[r.read])

Write(t) ==
    /\ request[t].at = "read" /\ request[t].kind # "delete"
    /\ IF Unchanged(request[t])
       THEN UNCHANGED rows
       ELSE NotStale(request[t].read) /\ rows' = Append(rows, NewRow(request[t]))
    /\ versions' = Recorded(request[t])
    /\ request' = [request EXCEPT ![t].at = "written", ![t].read = Len(rows')]
    /\ UNCHANGED <<live, card, draft, drawing, begun>>

WriteDelete(t) ==
    /\ request[t].at = "read" /\ request[t].kind = "delete"
    /\ NotStale(request[t].read)
    /\ live' = FALSE
    /\ request' = [request EXCEPT ![t].at = "written", ![t].read = Gone]
    /\ UNCHANGED <<rows, versions, card, draft, drawing, begun>>

\* StaleDataError: 409, or 500 for a rollback; nothing was written.
RefuseWrite(t) ==
    /\ request[t].at = "read" /\ ~NotStale(request[t].read)
    /\ request[t].kind # "delete" => ~Unchanged(request[t])
    /\ Refuse(t)

\* The row is broadcast, then returned. A tab puts the row it is returned into
\* its cache, a rollback returns none. A save that went through closes the
\* inline editor; the form is reset like by any row that shows another text.
Returned(t) == request[t].kind \in {"save", "approve", "delete"}

Answer(t) ==
    /\ request[t].at = "written"
    /\ request' = [request EXCEPT ![t] = NoRequest]
    /\ IF Returned(t)
       THEN /\ card' = [card EXCEPT ![t] = request[t].read]
            /\ draft' = [draft EXCEPT ![t] =
                   IF request[t].kind = "save" /\ draft[t].editor = "inline"
                   THEN NoDraft ELSE Reset(t, request[t].read)]
       ELSE UNCHANGED <<card, draft>>
    /\ UNCHANGED <<rows, live, versions, drawing, begun>>

-----------------------------------------------------------------------------
(* The engine *)

\* A stage freezes its input when it starts
Freeze ==
    /\ live /\ drawing = Gone /\ Begin
    /\ drawing' = Current
    /\ UNCHANGED <<rows, live, versions, card, draft, request>>

\* Mutant: the redraw does not compare
FrozenOrNot == live

\* casWrite against the frozen revision
FrozenHolds == live /\ drawing = Current

\* createVersion, with the next number
CreateVersion(row) == Append(versions, Content(row))

\* One transaction: the frozen row as a version, the picture that was drawn
\* from it, its event.
Draw ==
    /\ drawing # Gone /\ FrozenHolds
    /\ versions' = CreateVersion(rows[drawing])
    /\ rows' = Append(rows, [Stored EXCEPT !.picture = Current + 1, !.by = "draw"])
    /\ drawing' = Gone
    /\ UNCHANGED <<live, card, draft, request, begun>>

\* ConcurrentModificationError, or the run ends before it draws
GiveUp ==
    /\ drawing # Gone
    /\ drawing' = Gone
    /\ UNCHANGED <<rows, live, versions, card, draft, request, begun>>

\* A redrawn character takes the pictures of its shots down, as they are then.
Recast ==
    /\ live /\ Stored.picture # 0 /\ Begin
    /\ versions' = CreateVersion(Stored)
    /\ rows' = Append(rows, [Stored EXCEPT !.picture = 0, !.by = "recast"])
    /\ UNCHANGED <<live, card, draft, request, drawing>>

-----------------------------------------------------------------------------
TabStep(t) ==
    \/ \E editor \in {"form", "inline"}, x \in Texts : Type(t, editor, x)
    \/ Drop(t) \/ Save(t) \/ Approve(t) \/ Swap(t) \/ SwapCharacter(t) \/ Delete(t)
    \/ \E r \in 0..Current : Show(t, r)

Handle(t) ==
    \/ Read(t) \/ RefuseRead(t)
    \/ Write(t) \/ WriteDelete(t) \/ RefuseWrite(t)
    \/ Answer(t)

Next ==
    \/ \E t \in Tabs : TabStep(t) \/ Handle(t)
    \/ Freeze \/ Draw \/ GiveUp \/ Recast

Spec == Init /\ [][Next]_vars

-----------------------------------------------------------------------------
(* Properties *)

Saves(t, editor) ==
    /\ request[t].kind = "save" /\ request[t].draft.editor = editor
    /\ request[t].at = "read" /\ request'[t].at = "written"

\* A save of the inspector's form replaces the text its author was looking at,
\* never one that another tab, a rollback or a run wrote meanwhile: the
\* expected_revision, the reset of the form and the compare-and-set of the
\* mapper together.
FormReplacesWhatItShowed ==
    [][\A t \in Tabs : Saves(t, "form") => Stored.text = request[t].draft.base]_vars

\* What a run draws over is in the history: the frozen row that becomes a
\* version is the row that is replaced, and a shot that loses its picture to a
\* new character is recorded as it was.
DrawnOverIsKept ==
    \A r \in 1..(Len(rows) - 1) :
        rows[r + 1].by \in {"draw", "recast"} =>
            \E n \in 1..Len(versions) : versions[n] = Content(rows[r])

\* "再点一次可切回": a click on 换回上一版 leaves what it replaced where the next
\* click finds it.
SwapBackReturns ==
    [][\A t \in Tabs :
          (/\ request[t].kind = "swap" /\ request[t].at = "read"
           /\ Len(rows') > Len(rows))
          => versions'[PreviousVersion(versions')] = Content(Stored)]_vars

=============================================================================
