------------------------------ MODULE EventTail ------------------------------
(***************************************************************************)
(* How a browser tab follows a project.  The engine appends durable events *)
(* to engine_run_events; the gateway tails that log once per WebSocket, and *)
(* HTTP handlers broadcast to whoever is connected at the moment.  The tab  *)
(* projects both into one cache, which HTTP queries fill as well, and keeps *)
(* the cursor of the log over reloads (main.py, ws/manager.py,              *)
(* useWebSocket.ts, applyServerEvent.ts, applyWsEvent.ts, runState.ts).     *)
(*                                                                         *)
(* One project, one run at a time, one tab.  What the engine may do is the   *)
(* subject of RunLease, ApprovalGate and Workflow; characters and shots in   *)
(* the tab's cache are left out.  TabProofs takes this module together with  *)
(* ChatAgent: hence TailInit, TailNext and TailSpec.                         *)
(***************************************************************************)
EXTENDS Naturals, Sequences, FiniteSets, FiniteSetsExt

CONSTANTS
    BatchSize,     \* rows of one query of the tail: LIMIT 500
    MaxWrites,     \* bound: what engine and users write
    MaxDrops       \* bound: lost connections, reloads and failed tails

ASSUME BatchAssumption == BatchSize \in Nat \ {0}

VARIABLES
    log,      \* engine_run_events of the project: id -> event
    run,      \* status of its run
    say,      \* what the engine has still to announce of what it wrote
    sends,    \* broadcasts that HTTP handlers still have to send
    conn,     \* the gateway's end of the connection
    socket,   \* messages on their way to the tab, in order
    page,     \* the tab: cursor, cache, queries in flight
    seen,     \* history: ids the tab has applied
    left      \* what the bounds leave

tailVars == <<log, run, say, sends, conn, socket, page, seen, left>>
server == <<log, run, say, sends>>

-----------------------------------------------------------------------------
Endings == {"over", "cancelled"}
(* A message: the type of an event and its id in the log, 0 when it has     *)
(* none.  "frame" is llm_stream, "gate" run_awaiting_confirm, "over" a       *)
(* completion or a failure; "started" is a redo's run_feedback as well.     *)
Types == {"started", "progress", "frame", "gate", "confirmed"} \cup Endings
WsMessage(id, type) == [id |-> id, type |-> type]
Unnumbered(type) == WsMessage(0, type)

Ids == DOMAIN log
TopOf(S) == IF S = {} THEN 0 ELSE Max(S)
LogHead == TopOf(Ids)                  \* _engine_event_watermark

Quiet == "quiet"
Statuses == {"none", "running", "gate"}
NoQuery == "no"
Asked == "asked"

\* INITIAL_RUN_STATE, before the first answer.
FreshView == [known |-> FALSE, busy |-> FALSE, gate |-> FALSE, live |-> FALSE]
FreshTab(cursor) ==
    [cursor |-> cursor, view |-> FreshView, runQuery |-> Asked, stale |-> FALSE]
Off == [st |-> "off", cursor |-> 0, batch |-> {}]

Notice == [id : Nat, type : Types \cup {"connected"}]
View == [known : BOOLEAN, busy : BOOLEAN, gate : BOOLEAN, live : BOOLEAN]

TailTypeOK ==
    /\ Ids \subseteq Nat \ {0} /\ IsFiniteSet(Ids) /\ log \in [Ids -> Types]
    /\ run \in Statuses /\ say \in {Quiet, "started", "gate", "confirmed"}
    /\ sends \subseteq Types
    /\ conn \in [st : {"off", "accepted", "greeted", "tailing", "mute"},
                 cursor : 0..LogHead, batch : SUBSET Notice]
    /\ socket \in Seq(Notice)
    /\ page \in [cursor : 0..LogHead, view : View, runQuery : Statuses \cup {NoQuery, Asked},
                 stale : BOOLEAN]
    /\ page.view.gate => page.view.busy /\ page.view.known
    /\ seen \subseteq 1..page.cursor

-----------------------------------------------------------------------------
(* The engine and the HTTP handlers write *)

Writes == left.writes > 0 /\ left' = [left EXCEPT !.writes = @ - 1]
AppendedTo(l, e) == [id \in DOMAIN l \cup {TopOf(DOMAIN l) + 1} |->
                        IF id \in DOMAIN l THEN l[id] ELSE e]
Appended(e) == log' = AppendedTo(log, e)

\* POST /runs inserts the row; the engine announces it when it has it.
StartRun ==
    /\ Writes /\ run = "none" /\ say = Quiet
    /\ run' = "running" /\ say' = "started"
    /\ UNCHANGED <<log, sends, conn, socket, page, seen>>

Progress ==
    /\ Writes /\ run = "running" /\ say = Quiet
    /\ Appended("progress")
    /\ UNCHANGED <<run, say, sends, conn, socket, page, seen>>

\* A frame replaces the run's earlier ones.
CompactedLog(l) ==
    [id \in {i \in DOMAIN l : i = TopOf(DOMAIN l) \/ l[i] # "frame"} |-> l[id]]
Frame ==
    /\ Writes /\ run = "running" /\ say = Quiet
    /\ log' = CompactedLog(AppendedTo(log, "frame"))
    /\ UNCHANGED <<run, say, sends, conn, socket, page, seen>>

\* runGate: the row first, then the event; the same on the way out.
EnterGate ==
    /\ Writes /\ run = "running" /\ say = Quiet
    /\ run' = "gate" /\ say' = "gate"
    /\ UNCHANGED <<log, sends, conn, socket, page, seen>>
LeaveGate ==
    /\ run = "gate" /\ say = Quiet
    /\ run' = "running" /\ say' = "confirmed"
    /\ UNCHANGED <<log, sends, conn, socket, page, seen, left>>
Announce ==
    /\ say # Quiet
    /\ Appended(say)
    /\ say' = Quiet
    /\ UNCHANGED <<run, sends, conn, socket, page, seen, left>>

\* run_completed, run_failed, run_cancelled: status and event in one transaction.
EndRun ==
    /\ Writes /\ run # "none" /\ say = Quiet
    /\ run' = "none"
    /\ \E ending \in Endings : Appended(ending)
    /\ UNCHANGED <<say, sends, conn, socket, page, seen>>

\* The engine died and the gateway ends the run itself: cancel_run broadcasts.
EndByGateway ==
    /\ Writes /\ run # "none"
    /\ run' = "none" /\ say' = Quiet
    /\ sends' = sends \cup {"cancelled"}
    /\ UNCHANGED <<log, conn, socket, page, seen>>

\* ConnectionManager.send_event: to the sockets that are registered now.
Broadcast ==
    \E e \in sends :
        /\ sends' = sends \ {e}
        /\ socket' = IF conn.st = "off" THEN socket ELSE Append(socket, Unnumbered(e))
        /\ UNCHANGED <<log, run, say, conn, page, seen, left>>

-----------------------------------------------------------------------------
(* The gateway's end of a connection *)

\* The tab opens a socket again; it is registered before the log's head is read.
Registered == [Off EXCEPT !.st = "accepted"]
Connect ==
    /\ conn.st = "off"
    /\ conn' = Registered
    /\ UNCHANGED <<server, socket, page, seen, left>>

AlwaysHead(after) == LogHead                                 \* mutant: after is not read
StartAt(after) == IF after = 0 THEN LogHead ELSE Min({after, LogHead})   \* 0: none was asked for
Greet ==
    /\ conn.st = "accepted"
    /\ conn' = [conn EXCEPT !.st = "greeted", !.cursor = StartAt(page.cursor)]
    /\ socket' = Append(socket, Unnumbered("connected"))
    /\ UNCHANGED <<server, page, seen, left>>

\* A tab without a cursor is told where the run is.
Hydrate ==
    /\ conn.st = "greeted"
    /\ conn' = [conn EXCEPT !.st = "tailing"]
    /\ socket' = IF page.cursor # 0 \/ run = "none" THEN socket
               ELSE Append(socket, Unnumbered(IF run = "gate" THEN "gate" ELSE "progress"))
    /\ UNCHANGED <<server, page, seen, left>>

Behind == {id \in Ids : id > conn.cursor}
QueryLog ==
    /\ conn.st = "tailing" /\ conn.batch = {} /\ Behind # {}
    /\ LET first == {id \in Behind : Cardinality({i \in Behind : i <= id}) <= BatchSize}
       IN conn' = [conn EXCEPT !.batch = {WsMessage(id, log[id]) : id \in first}]
    /\ UNCHANGED <<server, socket, page, seen, left>>

SendNext ==
    /\ conn.st = "tailing"
    /\ \E m \in conn.batch :
        /\ \A o \in conn.batch : m.id <= o.id
        /\ conn' = [conn EXCEPT !.batch = @ \ {m}, !.cursor = m.id]
        /\ socket' = Append(socket, m)
    /\ UNCHANGED <<server, page, seen, left>>

-----------------------------------------------------------------------------
(* The tab *)

\* resyncRunState: a query that is in flight starts again once there is an
\* answer to show; before, it is kept.
Asking(t) == IF t.view.known \/ t.runQuery = NoQuery
             THEN [t EXCEPT !.runQuery = Asked, !.stale = FALSE] ELSE t
Noted(t) == [t EXCEPT !.stale = t.runQuery # NoQuery]

\* applyWsEvent on the run's view; "live" is the row of the LLM call in flight.
Shown(v, m) ==
    CASE m.type = "gate"     -> [known |-> TRUE, busy |-> TRUE, gate |-> TRUE, live |-> FALSE]
      [] m.type = "started"  -> [known |-> TRUE, busy |-> TRUE, gate |-> FALSE, live |-> FALSE]
      [] m.type = "confirmed" -> [v EXCEPT !.known = TRUE, !.gate = FALSE]
      [] m.type = "over"     -> [FreshView EXCEPT !.known = TRUE]
      [] m.type = "cancelled" -> IF v.busy THEN [FreshView EXCEPT !.known = TRUE] ELSE v
      [] m.type = "progress" -> [v EXCEPT !.known = TRUE, !.busy = TRUE]
      [] m.type = "frame"    -> [v EXCEPT !.live = v.busy]
      [] OTHER               -> v
Lifecycle(t, m) == m.type \in {"started", "gate", "confirmed"} \cup Endings \/ (m.type = "progress" /\ t.view.gate)

OnMessage(t, m) ==
    LET shown == [t EXCEPT !.view = Shown(t.view, m),
                           !.cursor = IF m.id = 0 THEN @ ELSE m.id]
    IN  IF Lifecycle(t, m) THEN Asking(Noted(shown))
        ELSE IF m.type = "connected" THEN Asking(shown) ELSE shown

Known(m) == m.id # 0 /\ page.cursor # 0 /\ m.id <= page.cursor   \* dropped unread
Receive ==
    /\ socket # <<>>
    /\ LET m == socket[1] IN
         /\ page' = IF Known(m) THEN page ELSE OnMessage(page, m)
         /\ seen' = IF m.id = 0 \/ Known(m) THEN seen ELSE seen \cup {m.id}
    /\ socket' = Tail(socket)
    /\ UNCHANGED <<server, conn, left>>

\* Queries: the server answers from its rows, the answer lands later.
AnswerRun ==
    /\ page.runQuery = Asked
    /\ page' = [page EXCEPT !.runQuery = run]
    /\ UNCHANGED <<server, conn, socket, seen, left>>

\* reconcileRunState; an answer asked before a lifecycle event is dropped.
Reconciled(v, status) ==
    CASE status = "none"    -> [known |-> TRUE, busy |-> FALSE, gate |-> FALSE, live |-> FALSE]
      [] status = "running" -> [known |-> TRUE, busy |-> TRUE, gate |-> FALSE, live |-> v.busy /\ v.live]
      [] status = "gate"    -> [known |-> TRUE, busy |-> TRUE, gate |-> TRUE, live |-> FALSE]
LandRun ==
    /\ page.runQuery \in Statuses
    /\ page' = [page EXCEPT !.runQuery = NoQuery, !.stale = FALSE,
                          !.view = IF page.stale THEN [@ EXCEPT !.known = TRUE]
                                   ELSE Reconciled(page.view, page.runQuery)]
    /\ UNCHANGED <<server, conn, socket, seen, left>>

NoPoll == FALSE /\ UNCHANGED tailVars    \* mutant
\* GATE_POLL_MS.
PollAtGate ==
    /\ page.view.gate /\ page.runQuery = NoQuery
    /\ page' = [page EXCEPT !.runQuery = Asked, !.stale = FALSE]
    /\ UNCHANGED <<server, conn, socket, seen, left>>

\* The query or a send of the tail raises: it ends, the socket stays open.
TailDies ==
    /\ conn.st = "tailing" /\ left.drops > 0
    /\ left' = [left EXCEPT !.drops = @ - 1]
    /\ conn' = [Off EXCEPT !.st = "mute"]
    /\ UNCHANGED <<server, socket, page, seen>>

\* What was on the wire or in the gateway's batch is lost.
Lose == left.drops > 0 /\ left' = [left EXCEPT !.drops = @ - 1] /\ conn' = Off /\ socket' = <<>>
Disconnect ==
    /\ conn.st # "off" /\ Lose
    /\ UNCHANGED <<server, page, seen>>
\* Reload: the cache is empty, sessionStorage keeps the cursor.
ReloadPage ==
    /\ Lose
    /\ page' = FreshTab(page.cursor)
    /\ UNCHANGED <<server, seen>>

-----------------------------------------------------------------------------
TailInit ==
    /\ log = <<>> /\ run = "none" /\ say = Quiet /\ sends = {}
    /\ conn = Off /\ socket = <<>>
    /\ page = FreshTab(0)
    /\ seen = {}
    /\ left = [writes |-> MaxWrites, drops |-> MaxDrops]

EngineStep == Progress \/ Frame \/ EnterGate \/ LeaveGate \/ EndRun
UserStep == StartRun \/ EndByGateway
GatewayStep == Connect \/ Greet \/ Hydrate \/ QueryLog \/ SendNext \/ Broadcast
TabStep == Receive \/ AnswerRun \/ LandRun \/ PollAtGate

TailNext == EngineStep \/ Announce \/ UserStep \/ GatewayStep \/ TabStep \/ TailDies \/ Disconnect \/ ReloadPage

TailSpec == TailInit /\ [][TailNext]_tailVars
TailLiveSpec == TailSpec /\ WF_tailVars(Announce) /\ WF_tailVars(GatewayStep) /\ WF_tailVars(TabStep)

-----------------------------------------------------------------------------
(* Properties *)

\* Through batches, compaction, lost connections and reloads, the tab has
\* applied every event up to its cursor that the log still has, from the
\* first it ever applied.
NoneSkipped == \A id \in Ids : seen # {} /\ Min(seen) <= id /\ id <= page.cursor => id \in seen

\* A gate that the run has left does not stay on screen, tail or no tail.
GateIsTakenDown == (page.view.gate /\ run # "gate") ~> (~page.view.gate \/ run = "gate")

=============================================================================
