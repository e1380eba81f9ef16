------------------------ MODULE VersionHistoryProofs ------------------------
(***************************************************************************)
(* Proofs about VersionHistory, for every number of tabs, texts and        *)
(* changes. Rows are only ever appended, so what a card, a draft or a      *)
(* request says of a revision stays true; the invariant keeps what each of *)
(* them says, and the comparison of revisions at the write turns it into a *)
(* fact about the stored row.                                              *)
(***************************************************************************)
EXTENDS VersionHistory, TLAPS

\* A draft holds a text and belongs to a card; a form's draft was begun from
\* the text that its card shows now.
DraftsFit ==
    \A t \in Tabs :
        /\ draft[t] # NoDraft => draft[t].text \in Texts /\ card[t] # Gone
        /\ draft[t].editor = "form" => card[t] # Gone /\ draft[t].base = rows[card[t]].text

\* A request speaks of revisions and versions that exist; a form's save was
\* begun from the text of the revision it expects, and has read that revision.
RequestFits(r) ==
    /\ r.at # "sent" => r.kind # "none"
    /\ r.kind = "swap" => r.target \in 1..Len(versions)
    /\ r.at = "read" => r.read \in 1..Len(rows)
    /\ r.at = "written" => r.read \in 0..Len(rows)
    /\ r.kind = "save" =>
          /\ r.draft.text \in Texts /\ r.expected \in 1..Len(rows)
          /\ r.at = "read" => r.read = r.expected
          /\ r.draft.editor = "form" => r.draft.base = rows[r.expected].text

RequestsFit == \A t \in Tabs : RequestFits(request[t])

IInv == TypeOK /\ DraftsFit /\ RequestsFit /\ DrawnOverIsKept

-----------------------------------------------------------------------------
(* What one step can do to the rows and the versions *)

Grown == rows' = rows \/ \E x \in Row : rows' = Append(rows, x)
Recording == versions' = versions \/ \E v \in Version : versions' = Append(versions, v)

\* Rows that exist keep their revision and what they hold.
LEMMA RowsStay ==
    ASSUME rows \in Seq(Row), Grown
    PROVE  /\ rows' \in Seq(Row)
           /\ Len(rows') >= Len(rows)
           /\ \A r \in 1..Len(rows) : rows'[r] = rows[r]
BY DEF Grown

\* So do versions.
LEMMA VersionsStay ==
    ASSUME versions \in Seq(Version), Recording
    PROVE  /\ versions' \in Seq(Version)
           /\ Len(versions') >= Len(versions)
           /\ \A n \in 1..Len(versions) : versions'[n] = versions[n]
BY DEF Recording

\* What was said of the rows and versions stays true while they grow.
LEMMA StillFits ==
    ASSUME TypeOK, Grown, Recording, NEW r \in Request, RequestFits(r)
    PROVE  /\ r.at # "sent" => r.kind # "none"
           /\ r.kind = "swap" => r.target \in 1..Len(versions')
           /\ r.at = "read" => r.read \in 1..Len(rows')
           /\ r.at = "written" => r.read \in 0..Len(rows')
           /\ r.kind = "save" =>
                 /\ r.draft.text \in Texts /\ r.expected \in 1..Len(rows')
                 /\ r.at = "read" => r.read = r.expected
                 /\ r.draft.editor = "form" => r.draft.base = rows'[r.expected].text
<1>1. /\ Len(rows') >= Len(rows) /\ Len(rows) \in Nat /\ Len(rows') \in Nat
      /\ \A n \in 1..Len(rows) : rows'[n] = rows[n]
  BY RowsStay DEF TypeOK
<1>2. /\ Len(versions') >= Len(versions) /\ Len(versions) \in Nat /\ Len(versions') \in Nat
  BY VersionsStay DEF TypeOK
<1>3. r.target \in Nat /\ r.read \in Nat /\ r.expected \in Nat
  BY DEF Request
<1> QED BY <1>1, <1>2, <1>3 DEF RequestFits

\* The content of a row is a version.
LEMMA ContentType == \A row \in Row : Content(row) \in Version
BY DEF Content, Row, Version

\* What a handler writes to the row it read is a row.
LEMMA NewRowType ==
    ASSUME TypeOK, NEW r \in Request, RequestFits(r), r.at = "read", r.kind # "delete"
    PROVE  NewRow(r) \in Row /\ rows[r.read] \in Row
<1>1. rows[r.read] \in Row
  BY DEF TypeOK, RequestFits
<1>2. CASE r.kind = "save"
  BY <1>1, <1>2 DEF NewRow, RequestFits, Row
<1>3. CASE r.kind = "approve"
  BY <1>1, <1>3 DEF NewRow, Row
<1>4. CASE r.kind = "swap"
  <2>1. versions[r.target] \in Version
    BY <1>4 DEF TypeOK, RequestFits
  <2>2. Applied(rows[r.read], versions[r.target]) \in Row
    BY <1>1, <2>1 DEF Applied, Row, Version
  <2> QED BY <1>4, <2>2, <1>1 DEF NewRow
<1>5. CASE r.kind = "recast"
  BY <1>1, <1>5 DEF NewRow, Row
<1>6. r.kind \in {"save", "approve", "swap", "recast"}
  BY DEF Request, Kinds, RequestFits
<1> QED BY <1>1, <1>2, <1>3, <1>4, <1>5, <1>6

-----------------------------------------------------------------------------
(* What a step leaves of each part of the invariant *)

\* Drafts and cards that are left alone still fit.
LEMMA DraftsLeft ==
    ASSUME TypeOK, DraftsFit, Grown, UNCHANGED <<card, draft>>
    PROVE  DraftsFit' /\ card' \in [Tabs -> 0..Len(rows')] /\ draft' \in [Tabs -> Draft]
<1>1. /\ Len(rows') >= Len(rows) /\ Len(rows) \in Nat /\ Len(rows') \in Nat
      /\ \A n \in 1..Len(rows) : rows'[n] = rows[n]
  BY RowsStay DEF TypeOK
<1>2. card \in [Tabs -> 0..Len(rows)] /\ draft \in [Tabs -> Draft]
  BY DEF TypeOK
<1>3. card' \in [Tabs -> 0..Len(rows')] /\ draft' \in [Tabs -> Draft]
  BY <1>1, <1>2
<1>4. DraftsFit'
  BY <1>1, <1>2 DEF DraftsFit, Gone
<1> QED BY <1>3, <1>4

\* Only the request of one tab changes, and it fits.
LEMMA RequestsLeft ==
    ASSUME TypeOK, RequestsFit, Grown, Recording, NEW t \in Tabs, NEW r \in Request,
           request' = [request EXCEPT ![t] = r], RequestFits(r)'
    PROVE  RequestsFit' /\ request' \in [Tabs -> Request]
<1>1. request \in [Tabs -> Request]
  BY DEF TypeOK
<1>2. ASSUME NEW u \in Tabs PROVE RequestFits(request[u])'
  <2>1. CASE u = t
    BY <1>1, <2>1
  <2>2. CASE u # t
    <3>1. request'[u] = request[u] /\ request[u] \in Request /\ RequestFits(request[u])
      BY <1>1, <2>2 DEF RequestsFit
    <3> QED BY <3>1, StillFits DEF RequestFits
  <2> QED BY <2>1, <2>2
<1>3. RequestsFit'
  BY <1>2 DEF RequestsFit
<1> QED BY <1>1, <1>3

\* All requests are left alone.
LEMMA RequestsUntouched ==
    ASSUME TypeOK, RequestsFit, Grown, Recording, UNCHANGED request
    PROVE  RequestsFit' /\ request' \in [Tabs -> Request]
<1>1. request \in [Tabs -> Request]
  BY DEF TypeOK
<1>2. ASSUME NEW u \in Tabs PROVE RequestFits(request[u])'
  <2>1. request'[u] = request[u] /\ request[u] \in Request /\ RequestFits(request[u])
    BY <1>1 DEF RequestsFit
  <2> QED BY <2>1, StillFits DEF RequestFits
<1> QED BY <1>1, <1>2 DEF RequestsFit

\* A row that is drawn over is recorded by the same step.
LEMMA HistoryKept ==
    ASSUME TypeOK, DrawnOverIsKept, Grown, Recording,
           \A x \in Row : rows' = Append(rows, x) /\ x.by \in {"draw", "recast"} =>
               \E n \in 1..Len(versions') : versions'[n] = Content(rows[Len(rows)])
    PROVE  DrawnOverIsKept'
<1>1. /\ Len(rows') >= Len(rows) /\ Len(rows) \in Nat \ {0} /\ Len(rows') \in Nat
      /\ \A n \in 1..Len(rows) : rows'[n] = rows[n]
  BY RowsStay DEF TypeOK
<1>2. /\ Len(versions') >= Len(versions) /\ Len(versions) \in Nat /\ Len(versions') \in Nat
      /\ \A n \in 1..Len(versions) : versions'[n] = versions[n]
  BY VersionsStay DEF TypeOK
<1>3. ASSUME NEW r \in 1..(Len(rows') - 1), rows'[r + 1].by \in {"draw", "recast"}
      PROVE  \E n \in 1..Len(versions') : versions'[n] = Content(rows'[r])
  <2>1. CASE r < Len(rows)
    <3>1. r \in 1..(Len(rows) - 1) /\ rows'[r + 1] = rows[r + 1] /\ rows'[r] = rows[r]
      BY <1>1, <2>1
    <3>2. PICK n \in 1..Len(versions) : versions[n] = Content(rows[r])
      BY <1>3, <3>1 DEF DrawnOverIsKept
    <3> QED BY <1>2, <3>1, <3>2
  <2>2. CASE r >= Len(rows)
    <3>1. PICK x \in Row : rows' = Append(rows, x)
      BY <1>1, <2>2 DEF Grown
    <3>2. Len(rows') = Len(rows) + 1 /\ rows'[Len(rows) + 1] = x
      BY <3>1 DEF TypeOK
    <3>3. r = Len(rows) /\ x.by \in {"draw", "recast"} /\ rows'[r] = rows[r]
      BY <1>1, <1>3, <2>2, <3>2
    <3> QED BY <3>1, <3>3
  <2> QED BY <1>1, <2>1, <2>2
<1> QED BY <1>3 DEF DrawnOverIsKept

-----------------------------------------------------------------------------
(* The invariant *)

LEMMA NothingAsked == NoRequest \in Request /\ NoDraft \in Draft
BY DEF NoRequest, NoDraft, Request, Draft, Kinds

LEMMA NothingAskedFits == ASSUME TypeOK PROVE RequestFits(NoRequest)
BY DEF RequestFits, NoRequest

LEMMA InitIInv == Init => IInv
<1> SUFFICES ASSUME Init PROVE IInv
  OBVIOUS
<1>1. PICK x \in Texts :
        rows = <<[text |-> x, picture |-> 0, approved |-> NoText, by |-> "plan"]>>
  BY DEF Init
<1>2. [text |-> x, picture |-> 0, approved |-> NoText, by |-> "plan"] \in Row
  BY DEF Row
<1>3. rows \in Seq(Row) /\ Len(rows) = 1
  BY <1>1, <1>2
<1>4. versions \in Seq(Version)
  BY DEF Init
<1>5. TypeOK
  BY <1>3, <1>4, NothingAsked, BoundAssumption DEF Init, TypeOK, Gone
<1>6. DraftsFit
  BY NothingAsked DEF Init, DraftsFit, NoDraft
<1>7. RequestsFit
  BY <1>5, NothingAskedFits DEF Init, RequestsFit
<1>8. DrawnOverIsKept
  BY <1>3 DEF DrawnOverIsKept
<1> QED BY <1>5, <1>6, <1>7, <1>8 DEF IInv

\* The steps that only change what a tab shows or is typing.
LEMMA TabShows ==
    ASSUME IInv, NEW t \in Tabs,
           UNCHANGED <<rows, live, versions, request, drawing>>,
           begun' \in 0..MaxChanges,
           card' \in [Tabs -> 0..Len(rows)], draft' \in [Tabs -> Draft],
           DraftsFit'
    PROVE  IInv'
<1>1. Grown /\ Recording
  BY DEF Grown, Recording
<1>2. RequestsFit'
  BY <1>1, RequestsUntouched DEF IInv
<1>3. TypeOK'
  BY DEF IInv, TypeOK
<1>4. DrawnOverIsKept'
  BY DEF IInv, DrawnOverIsKept
<1> QED BY <1>2, <1>3, <1>4 DEF IInv

\* The steps that only move a request, of a tab that shows what it did.
LEMMA RequestMoves ==
    ASSUME IInv, NEW t \in Tabs, NEW r \in Request,
           request' = [request EXCEPT ![t] = r], RequestFits(r),
           UNCHANGED <<rows, versions, card, draft, drawing>>,
           live' \in BOOLEAN, begun' \in 0..MaxChanges
    PROVE  IInv'
<1>1. Grown /\ Recording
  BY DEF Grown, Recording
<1>2. RequestFits(r)'
  BY DEF RequestFits
<1>3. RequestsFit' /\ request' \in [Tabs -> Request]
  BY <1>1, <1>2, RequestsLeft DEF IInv
<1>4. DraftsFit'
  BY DEF IInv, DraftsFit
<1>5. TypeOK'
  BY <1>3 DEF IInv, TypeOK
<1>6. DrawnOverIsKept'
  BY DEF IInv, DrawnOverIsKept
<1> QED BY <1>3, <1>4, <1>5, <1>6 DEF IInv

LEMMA BeginType == ASSUME TypeOK, Begin PROVE begun' \in 0..MaxChanges
BY BoundAssumption DEF TypeOK, Begin

\* A request filled in is a request.
LEMMA RequestFilled ==
    ASSUME NEW q \in Request, NEW d \in Draft, NEW n \in Nat
    PROVE  /\ [q EXCEPT !.kind = "save", !.draft = d, !.expected = n] \in Request
           /\ [q EXCEPT !.kind = "swap", !.target = n] \in Request
BY DEF Request, Kinds

\* What is appended is found at the end.
LEMMA LastOfAppend ==
    ASSUME NEW S, NEW s \in Seq(S), NEW x \in S
    PROVE  Append(s, x)[Len(s) + 1] = x
OBVIOUS

\* A click of a tab: the request is put together from what it shows.
LEMMA SendMoves ==
    ASSUME IInv, NEW t \in Tabs, NEW r \in Request, Send(t, r), RequestFits(r),
           begun' \in 0..MaxChanges
    PROVE  IInv'
BY RequestMoves DEF Send, IInv, TypeOK

LEMMA TabStepIInv == ASSUME IInv, NEW t \in Tabs, TabStep(t) PROVE IInv'
<1>1. /\ Len(rows) \in Nat /\ card \in [Tabs -> 0..Len(rows)]
      /\ draft \in [Tabs -> Draft] /\ begun \in 0..MaxChanges
      /\ \A n \in 1..Len(rows) : rows[n] \in Row
  BY DEF IInv, TypeOK
<1>2. ASSUME NEW editor \in {"form", "inline"}, NEW x \in Texts, Type(t, editor, x)
      PROVE  IInv'
  <2> DEFINE d == [editor |-> editor, text |-> x, base |-> Shown(t).text]
  <2>1. card[t] \in 1..Len(rows)
    BY <1>1, <1>2 DEF Type, Gone
  <2>2. d \in Draft
    BY <1>1, <2>1 DEF Shown, Row, Draft
  <2>3. draft' = [draft EXCEPT ![t] = d]
    BY <1>2 DEF Type
  <2>4. draft' \in [Tabs -> Draft]
    BY <1>1, <2>2, <2>3
  <2>5. DraftsFit'
    BY <1>1, <1>2, <2>1, <2>3 DEF IInv, DraftsFit, Type, Shown, Gone
  <2>6. begun' \in 0..MaxChanges
    BY <1>2, BeginType DEF IInv, Type
  <2> QED BY <1>1, <1>2, <2>4, <2>5, <2>6, TabShows DEF Type
<1>3. CASE Drop(t)
  <2>1. draft' \in [Tabs -> Draft]
    BY <1>1, <1>3, NothingAsked DEF Drop
  <2>2. DraftsFit'
    BY <1>1, <1>3 DEF IInv, DraftsFit, Drop, NoDraft
  <2> QED BY <1>1, <1>3, <2>1, <2>2, TabShows DEF Drop
<1>4. CASE Save(t)
  <2> DEFINE r == [NoRequest EXCEPT !.kind = "save", !.draft = draft[t], !.expected = card[t]]
  <2>1. card[t] \in 1..Len(rows) /\ draft[t].text \in Texts /\ draft[t] \in Draft
    BY <1>1, <1>4 DEF IInv, DraftsFit, Save, Gone
  <2>2. draft[t].editor = "form" => draft[t].base = rows[card[t]].text
    BY DEF IInv, DraftsFit
  <2>3. /\ r.kind = "save" /\ r.draft = draft[t] /\ r.expected = card[t] /\ r.at = "sent"
        /\ r.target = 0 /\ r.read = 0
    BY DEF NoRequest
  <2>4. r \in Request
    <3>1. card[t] \in Nat
      BY <1>1, <2>1
    <3> QED BY <2>1, <3>1, NothingAsked, RequestFilled, Zenon
  <2>5. RequestFits(r)
    BY <2>1, <2>2, <2>3 DEF RequestFits
  <2>6. Send(t, r) /\ begun' \in 0..MaxChanges
    BY <1>1, <1>4 DEF Save
  <2> HIDE DEF r
  <2> QED BY <2>4, <2>5, <2>6, SendMoves
<1>5. CASE Approve(t)
  <2> DEFINE r == [NoRequest EXCEPT !.kind = "approve"]
  <2>1. r \in Request /\ RequestFits(r)
    BY NothingAsked DEF Request, NoRequest, Kinds, RequestFits
  <2>2. Send(t, r) /\ begun' \in 0..MaxChanges
    BY <1>5, BeginType DEF Approve, IInv
  <2> HIDE DEF r
  <2> QED BY <2>1, <2>2, SendMoves
<1>6. CASE Swap(t)
  <2> DEFINE r == [NoRequest EXCEPT !.kind = "swap", !.target = PreviousVersion(versions)]
  <2>1. PreviousVersion(versions) \in 1..Len(versions)
    BY <1>6 DEF Swap, PreviousVersion, IInv, TypeOK
  <2>2. r \in Request /\ RequestFits(r)
    <3>1. Len(versions) \in Nat
      BY DEF IInv, TypeOK
    <3>2. r \in Request
      <4>1. PreviousVersion(versions) \in Nat
        BY <2>1, <3>1
      <4> QED BY <4>1, NothingAsked, RequestFilled, Zenon
    <3>3. r.kind = "swap" /\ r.at = "sent" /\ r.target = PreviousVersion(versions)
      BY DEF NoRequest
    <3> HIDE DEF r
    <3>4. RequestFits(r)
      BY <2>1, <3>3 DEF RequestFits
    <3> QED BY <3>2, <3>4
  <2>3. Send(t, r) /\ begun' \in 0..MaxChanges
    BY <1>6, BeginType DEF Swap, IInv
  <2> HIDE DEF r
  <2> QED BY <2>2, <2>3, SendMoves
<1>7. CASE SwapCharacter(t)
  <2> DEFINE r == [NoRequest EXCEPT !.kind = "recast"]
  <2>1. r \in Request /\ RequestFits(r)
    BY NothingAsked DEF Request, NoRequest, Kinds, RequestFits
  <2>2. Send(t, r) /\ begun' \in 0..MaxChanges
    BY <1>7, BeginType DEF SwapCharacter, IInv
  <2> HIDE DEF r
  <2> QED BY <2>1, <2>2, SendMoves
<1>8. CASE Delete(t)
  <2> DEFINE r == [NoRequest EXCEPT !.kind = "delete"]
  <2>1. r \in Request /\ RequestFits(r)
    BY NothingAsked DEF Request, NoRequest, Kinds, RequestFits
  <2>2. Send(t, r) /\ begun' \in 0..MaxChanges
    BY <1>8, BeginType DEF Delete, IInv
  <2> HIDE DEF r
  <2> QED BY <2>1, <2>2, SendMoves
<1>9. ASSUME NEW r \in 0..Current, Show(t, r) PROVE IInv'
  <2>1. r \in 0..Len(rows)
    BY DEF Current
  <2>2. Reset(t, r) \in Draft /\ card' \in [Tabs -> 0..Len(rows)] /\ draft' \in [Tabs -> Draft]
    BY <1>1, <1>9, <2>1, NothingAsked DEF Show, Reset
  <2>3. DraftsFit'
    BY <1>1, <1>9, <2>1 DEF IInv, DraftsFit, Show, Reset, Shown, Gone, NoDraft
  <2> QED BY <1>1, <1>9, <2>2, <2>3, TabShows DEF Show
<1> QED BY <1>2, <1>3, <1>4, <1>5, <1>6, <1>7, <1>8, <1>9 DEF TabStep

LEMMA HandleIInv == ASSUME IInv, NEW t \in Tabs, Handle(t) PROVE IInv'
<1>1. /\ request[t] \in Request /\ RequestFits(request[t]) /\ request \in [Tabs -> Request]
      /\ rows \in Seq(Row) /\ Len(rows) \in Nat \ {0} /\ begun \in 0..MaxChanges
      /\ live \in BOOLEAN /\ versions \in Seq(Version)
      /\ draft \in [Tabs -> Draft] /\ card \in [Tabs -> 0..Len(rows)]
  BY DEF IInv, TypeOK, RequestsFit
<1>2. ASSUME Refuse(t) PROVE IInv'
  BY <1>1, <1>2, RequestMoves, NothingAsked, NothingAskedFits DEF Refuse, IInv
<1>3. CASE Read(t)
  <2> DEFINE r == [request[t] EXCEPT !.read = Current, !.at = "read"]
  <2>1. /\ r.kind = request[t].kind /\ r.draft = request[t].draft /\ r.at = "read"
        /\ r.expected = request[t].expected /\ r.target = request[t].target /\ r.read = Len(rows)
    BY <1>1 DEF Request, Current
  <2>2. r \in Request
    BY <1>1 DEF Request, Current
  <2>3. request[t].kind # "none" /\ (request[t].kind = "save" => request[t].expected = Len(rows))
    BY <1>3 DEF Read, Accepted, ApprovalReady, ExpectedHolds, Current
  <2>4. RequestFits(r)
    BY <1>1, <2>1, <2>3 DEF RequestFits
  <2>5. request' = [request EXCEPT ![t] = r]
    BY <1>1, <1>3 DEF Read, Accepted, ApprovalReady
  <2> HIDE DEF r
  <2> QED BY <1>1, <1>3, <2>2, <2>4, <2>5, RequestMoves DEF Read, Accepted, ApprovalReady
<1>4. CASE RefuseRead(t)
  BY <1>2, <1>4 DEF RefuseRead, Accepted, ApprovalReady
<1>5. CASE Write(t)
  <2> DEFINE q == request[t]
  <2>1. NewRow(q) \in Row /\ rows[q.read] \in Row
    BY <1>1, <1>5, NewRowType DEF Write, IInv
  <2>2. Grown
    BY <1>5, <2>1 DEF Write, Grown
  <2>3. Content(NewRow(q)) \in Version /\ Content(rows[q.read]) \in Version
    BY <2>1, ContentType
  <2>4. Recording
    BY <1>5, <2>3 DEF Write, Recorded, Recording
  <2>5. /\ rows' \in Seq(Row) /\ Len(rows') \in Nat /\ Len(rows') >= Len(rows)
        /\ versions' \in Seq(Version)
    BY <1>1, <2>2, <2>4, RowsStay, VersionsStay
  <2>6. PICK r \in Request :
           /\ request' = [request EXCEPT ![t] = r]
           /\ r.kind = q.kind /\ r.draft = q.draft /\ r.at = "written"
           /\ r.expected = q.expected /\ r.target = q.target /\ r.read = Len(rows')
    <3> DEFINE w == [request[t] EXCEPT !.at = "written", !.read = Len(rows')]
    <3>1. /\ w.kind = q.kind /\ w.draft = q.draft /\ w.at = "written"
          /\ w.expected = q.expected /\ w.target = q.target /\ w.read = Len(rows')
      BY <1>1 DEF Request
    <3>2. w \in Request
      BY <1>1, <2>5 DEF Request
    <3>3. request' = [request EXCEPT ![t] = w]
      BY <1>1, <1>5 DEF Write
    <3> HIDE DEF w
    <3> QED BY <3>1, <3>2, <3>3
  <2>7. RequestFits(r)'
    <3>1. /\ q.kind # "none"
          /\ q.kind = "swap" => q.target \in 1..Len(versions')
          /\ q.kind = "save" =>
                /\ q.draft.text \in Texts /\ q.expected \in 1..Len(rows')
                /\ q.draft.editor = "form" => q.draft.base = rows'[q.expected].text
      BY <1>1, <1>5, <2>2, <2>4, StillFits DEF IInv, Write
    <3> HIDE DEF q
    <3> QED BY <2>5, <2>6, <3>1 DEF RequestFits
  <2>8. RequestsFit' /\ request' \in [Tabs -> Request]
    BY <2>2, <2>4, <2>6, <2>7, RequestsLeft DEF IInv
  <2>9. DraftsFit' /\ card' \in [Tabs -> 0..Len(rows')] /\ draft' \in [Tabs -> Draft]
    BY <1>5, <2>2, DraftsLeft DEF IInv, Write
  <2>10. TypeOK'
    BY <1>1, <1>5, <2>5, <2>8, <2>9 DEF Write, IInv, TypeOK
  <2>11. DrawnOverIsKept'
    <3>1. ASSUME NEW x \in Row, rows' = Append(rows, x), x.by \in {"draw", "recast"}
          PROVE  \E n \in 1..Len(versions') : versions'[n] = Content(rows[Len(rows)])
      <4>1. rows' # rows
        BY <1>1, <3>1
      <4>2. q.read = Len(rows) /\ rows' = Append(rows, NewRow(q))
        BY <1>5, <4>1 DEF Write, NotStale, Current
      <4>3. x = NewRow(q)
        <5>1. rows'[Len(rows) + 1] = x /\ rows'[Len(rows) + 1] = NewRow(q)
          BY <1>1, <2>1, <3>1, <4>2, LastOfAppend
        <5> QED BY <5>1
      <4>4. q.kind = "recast"
        <5>1. CASE q.kind = "save"
          BY <2>1, <3>1, <4>3, <5>1 DEF NewRow, Row
        <5>2. CASE q.kind = "approve"
          BY <2>1, <3>1, <4>3, <5>2 DEF NewRow, Row
        <5>3. CASE q.kind = "swap"
          BY <2>1, <3>1, <4>3, <5>3 DEF NewRow, Applied, Row
        <5>4. q.kind \in {"save", "approve", "swap", "recast"}
          BY <1>1, <1>5 DEF Write, Request, Kinds, RequestFits
        <5> QED BY <5>1, <5>2, <5>3, <5>4
      <4>5. versions' = Append(versions, Content(rows[Len(rows)]))
        BY <1>5, <4>2, <4>4 DEF Write, Recorded
      <4>6. Content(rows[Len(rows)]) \in Version
        BY <2>3, <4>2
      <4>7. Len(versions') = Len(versions) + 1 /\ versions'[Len(versions) + 1] = Content(rows[Len(rows)])
        BY <1>1, <4>5, <4>6
      <4> QED BY <1>1, <4>7
    <3> QED BY <2>2, <2>4, <3>1, HistoryKept DEF IInv
  <2> QED BY <2>8, <2>9, <2>10, <2>11 DEF IInv
<1>6. CASE WriteDelete(t)
  <2> DEFINE r == [request[t] EXCEPT !.at = "written", !.read = Gone]
  <2>1. /\ r.kind = "delete" /\ r.at = "written" /\ r.read = 0 /\ r \in Request
    BY <1>1, <1>6 DEF Request, Gone, WriteDelete
  <2>2. RequestFits(r)
    BY <1>1, <2>1 DEF RequestFits
  <2>3. request' = [request EXCEPT ![t] = r]
    BY <1>1, <1>6 DEF WriteDelete
  <2> HIDE DEF r
  <2> QED BY <1>1, <1>6, <2>1, <2>2, <2>3, RequestMoves DEF WriteDelete
<1>7. CASE RefuseWrite(t)
  BY <1>2, <1>7 DEF RefuseWrite
<1>8. CASE Answer(t)
  <2>1. Grown /\ Recording
    BY <1>8 DEF Answer, Grown, Recording
  <2>2. RequestsFit' /\ request' \in [Tabs -> Request]
    <3>1. RequestFits(NoRequest)'
      BY DEF RequestFits, NoRequest
    <3> QED BY <1>8, <2>1, <3>1, NothingAsked, RequestsLeft DEF Answer, IInv
  <2>3. card' \in [Tabs -> 0..Len(rows)] /\ draft' \in [Tabs -> Draft] /\ DraftsFit'
    <3>1. CASE ~Returned(t)
      BY <1>1, <1>8, <3>1 DEF Answer, IInv, DraftsFit
    <3>2. CASE Returned(t)
      <4> DEFINE n == request[t].read
                 d == IF request[t].kind = "save" /\ draft[t].editor = "inline"
                      THEN NoDraft ELSE Reset(t, n)
      <4>1. n \in 0..Len(rows)
        BY <1>1, <1>8 DEF Answer, RequestFits
      <4>2. card' = [card EXCEPT ![t] = n] /\ draft' = [draft EXCEPT ![t] = d] /\ rows' = rows
        BY <1>8, <3>2 DEF Answer
      <4>3. /\ d = NoDraft \/ (d = draft[t] /\ n # Gone)
            /\ d.editor = "form" => n # Gone /\ d.base = rows[n].text
        BY <1>1 DEF Reset, NoDraft, Shown, Gone, IInv, DraftsFit
      <4>4. d \in Draft
        BY <1>1, <4>3, NothingAsked
      <4> HIDE DEF d, n
      <4>5. DraftsFit'
        BY <1>1, <4>1, <4>2, <4>3 DEF IInv, DraftsFit
      <4> QED BY <1>1, <4>1, <4>2, <4>4, <4>5
    <3> QED BY <3>1, <3>2
  <2>4. TypeOK'
    BY <1>1, <1>8, <2>2, <2>3 DEF Answer, IInv, TypeOK
  <2>5. DrawnOverIsKept'
    BY <1>8 DEF Answer, IInv, DrawnOverIsKept
  <2> QED BY <2>2, <2>3, <2>4, <2>5 DEF IInv
<1> QED BY <1>3, <1>4, <1>5, <1>6, <1>7, <1>8 DEF Handle

\* The run's writes: a version of the stored row, then the new row.
LEMMA DrawOver ==
    ASSUME IInv, NEW x \in Row, UNCHANGED <<live, card, draft, request>>,
           versions' = Append(versions, Content(Stored)), rows' = Append(rows, x),
           drawing' \in 0..Len(rows), begun' \in 0..MaxChanges
    PROVE  IInv'
<1>1. rows \in Seq(Row) /\ Len(rows) \in Nat \ {0} /\ versions \in Seq(Version)
  BY DEF IInv, TypeOK
<1>2. Content(Stored) \in Version
  BY <1>1, ContentType DEF Stored, Current
<1>3. Grown /\ Recording
  BY <1>2 DEF Grown, Recording
<1>4. /\ rows' \in Seq(Row) /\ Len(rows') \in Nat /\ Len(rows') >= Len(rows)
      /\ versions' \in Seq(Version)
  BY <1>1, <1>3, RowsStay, VersionsStay
<1>5. DraftsFit' /\ card' \in [Tabs -> 0..Len(rows')] /\ draft' \in [Tabs -> Draft]
  BY <1>3, DraftsLeft DEF IInv
<1>6. RequestsFit' /\ request' \in [Tabs -> Request]
  BY <1>3, RequestsUntouched DEF IInv
<1>7. TypeOK'
  BY <1>1, <1>4, <1>5, <1>6 DEF IInv, TypeOK
<1>8. DrawnOverIsKept'
  <2>1. /\ versions'[Len(versions) + 1] = Content(rows[Len(rows)])
        /\ Len(versions') = Len(versions) + 1 /\ Len(versions) \in Nat
    BY <1>1, <1>2, LastOfAppend DEF Stored, Current
  <2>2. \E n \in 1..Len(versions') : versions'[n] = Content(rows[Len(rows)])
    BY <2>1
  <2> QED BY <1>3, <2>2, HistoryKept DEF IInv
<1> QED BY <1>5, <1>6, <1>7, <1>8 DEF IInv

LEMMA NextIInv == IInv /\ [Next]_vars => IInv'
<1> SUFFICES ASSUME IInv, [Next]_vars PROVE IInv'
  OBVIOUS
<1>1. /\ rows \in Seq(Row) /\ Len(rows) \in Nat \ {0} /\ begun \in 0..MaxChanges
      /\ drawing \in 0..Len(rows) /\ Stored \in Row
  BY DEF IInv, TypeOK, Stored, Current
<1>2. ASSUME NEW t \in Tabs, TabStep(t) \/ Handle(t) PROVE IInv'
  BY <1>2, TabStepIInv, HandleIInv
<1>3. ASSUME UNCHANGED <<rows, live, versions, card, draft, request>>,
             drawing' \in 0..Len(rows), begun' \in 0..MaxChanges
      PROVE  IInv'
  <2>1. Grown /\ Recording
    BY <1>3 DEF Grown, Recording
  <2>2. RequestsFit'
    BY <1>3, <2>1, RequestsUntouched DEF IInv
  <2>3. TypeOK' /\ DraftsFit' /\ DrawnOverIsKept'
    BY <1>3 DEF IInv, TypeOK, DraftsFit, DrawnOverIsKept
  <2> QED BY <2>2, <2>3 DEF IInv
<1>4. CASE Freeze
  <2>1. begun' \in 0..MaxChanges
    BY <1>4, BeginType DEF Freeze, IInv
  <2> QED BY <1>1, <1>3, <1>4, <2>1 DEF Freeze, Current
<1>5. CASE GiveUp
  BY <1>1, <1>3, <1>5 DEF GiveUp, Gone
<1>6. CASE Draw
  <2> DEFINE x == [Stored EXCEPT !.picture = Current + 1, !.by = "draw"]
  <2>1. x \in Row
    <3>1. Current + 1 \in Nat
      BY <1>1 DEF Current
    <3>2. ASSUME NEW row \in Row, NEW n \in Nat
          PROVE  [row EXCEPT !.picture = n, !.by = "draw"] \in Row
      BY DEF Row
    <3> QED BY <1>1, <3>1, <3>2, Zenon
  <2>2. rows[drawing] = Stored
    BY <1>6 DEF Draw, CreateVersion, FrozenHolds, Stored
  <2>3. rows' = Append(rows, x) /\ versions' = Append(versions, Content(Stored))
    BY <1>6, <2>2 DEF Draw, CreateVersion
  <2>4. drawing' \in 0..Len(rows) /\ begun' \in 0..MaxChanges
    BY <1>1, <1>6 DEF Draw, CreateVersion, Gone
  <2> HIDE DEF x
  <2> QED BY <1>6, <2>1, <2>3, <2>4, DrawOver DEF Draw, CreateVersion
<1>7. CASE Recast
  <2> DEFINE x == [Stored EXCEPT !.picture = 0, !.by = "recast"]
  <2>1. x \in Row
    BY <1>1 DEF Row
  <2>2. rows' = Append(rows, x) /\ versions' = Append(versions, Content(Stored))
    BY <1>7 DEF Recast, CreateVersion
  <2>3. drawing' \in 0..Len(rows) /\ begun' \in 0..MaxChanges
    BY <1>1, <1>7, BeginType DEF Recast, CreateVersion, IInv
  <2> HIDE DEF x
  <2> QED BY <1>7, <2>1, <2>2, <2>3, DrawOver DEF Recast, CreateVersion
<1>8. CASE UNCHANGED vars
  BY <1>1, <1>3, <1>8 DEF vars
<1> QED BY <1>2, <1>4, <1>5, <1>6, <1>7, <1>8 DEF Next

LEMMA Always == Spec => []IInv
BY InitIInv, NextIInv, PTL DEF Spec

-----------------------------------------------------------------------------
(* Theorems *)

\* Type correctness: every card, request and frozen revision is of a row that
\* the shot really had, whatever is deleted, restored or drawn meanwhile.
THEOREM TypeCorrect == Spec => []TypeOK
<1>1. IInv => TypeOK
  BY DEF IInv
<1> QED BY <1>1, Always, PTL

\* What a run draws over stays in the history of versions.
THEOREM HistoryHoldsDrawnOver == Spec => []DrawnOverIsKept
<1>1. IInv => DrawnOverIsKept
  BY DEF IInv
<1> QED BY <1>1, Always, PTL

\* A save of the form replaces only the text its author was looking at.
THEOREM NoLostUpdate == Spec => FormReplacesWhatItShowed
<1> DEFINE A == \A t \in Tabs : Saves(t, "form") => Stored.text = request[t].draft.base
<1>1. ASSUME IInv, [Next]_vars, NEW t \in Tabs, Saves(t, "form")
      PROVE  Stored.text = request[t].draft.base
  <2>1. /\ request[t] \in Request /\ RequestFits(request[t]) /\ request \in [Tabs -> Request]
        /\ request[t].kind = "save" /\ request[t].draft.editor = "form"
        /\ request[t].at = "read" /\ request'[t].at = "written"
    BY <1>1 DEF IInv, TypeOK, RequestsFit, Saves
  <2>2. /\ request[t].read = request[t].expected
        /\ request[t].draft.base = rows[request[t].read].text
    BY <2>1 DEF RequestFits
  <2>3. request[t].read = Len(rows)
    <3>1. request'[t] # request[t] /\ request'[t] # NoRequest
      BY <2>1 DEF NoRequest
    <3>2. PICK u \in Tabs : TabStep(u) \/ Handle(u)
      BY <1>1, <3>1 DEF Next, vars, Freeze, Draw, CreateVersion, GiveUp, Recast
    <3>3. request[t] # NoRequest
      BY <2>1 DEF NoRequest
    <3>4. u = t /\ Handle(t)
      <4>1. ASSUME NEW w \in Tabs, NEW r, request' = [request EXCEPT ![w] = r] PROVE w = t
        BY <2>1, <3>1, <4>1
      <4>2. ASSUME NEW r, Send(u, r) PROVE FALSE
        BY <3>3, <4>1, <4>2 DEF Send
      <4>3. ~TabStep(u)
        BY <3>1, <4>2 DEF TabStep, Type, Drop, Save, Approve, Swap, SwapCharacter, Delete, Show
      <4>4. u = t
        <5>1. CASE u # t
          BY <2>1, <3>1, <3>2, <4>3, <5>1
             DEF Handle, Read, Accepted, ApprovalReady, RefuseRead, Refuse, Write, WriteDelete, RefuseWrite, Answer
        <5> QED BY <5>1
      <4> QED BY <3>2, <4>3, <4>4
    <3>5. Write(t)
      BY <2>1, <3>1, <3>4
         DEF Handle, Read, Accepted, ApprovalReady, RefuseRead, Refuse, WriteDelete, RefuseWrite, Answer
    <3>6. ~Unchanged(request[t])
      BY <2>1 DEF Unchanged
    <3> QED BY <3>5, <3>6 DEF Write, NotStale, Current
  <2> QED BY <2>2, <2>3 DEF Stored, Current
<1>2. IInv /\ [Next]_vars => A
  BY <1>1
<1>3. IInv /\ [Next]_vars => [A]_vars
  BY <1>2
<1> QED BY <1>3, Always, PTL DEF Spec, FormReplacesWhatItShowed

=============================================================================
