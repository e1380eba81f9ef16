------------------------------ MODULE ChatAgent ------------------------------
(* The project assistant (ADR 0011): the chat agent the engine keeps for a     *)
(* project, its confirmation cards, and one browser tab that shows them.       *)
(*                                                                             *)
(* A message of the user starts a turn of the agent: model, tools, model, ...  *)
(* A tool that changes the project waits for a card; the card is settled by an *)
(* answer, a timeout or an abort.  Every finished message is saved and         *)
(* announced in the event log; the newest status frame only is kept there.     *)
(* The tab patches its cache from the events and fetches it when it is opened  *)
(* and after each reply.  The engine may die at any moment.                    *)
EXTENDS Integers, SequencesExt

CONSTANTS
    CONTEXT_MESSAGES,   \* messages the model sees
    MAX_TURNS,          \* replies of the model per message of the user
    MaxCalls,           \* bound: tool calls in one reply
    MaxMessages,        \* bound: messages saved before the last reply
    MaxFaults           \* bound: reloads of the tab and deaths of the engine

ASSUME LimitsAssumption ==
    /\ {CONTEXT_MESSAGES, MAX_TURNS} \subseteq Nat \ {0}
    /\ {MaxCalls, MaxMessages, MaxFaults} \subseteq Nat

VARIABLES
    saved,      \* the rows of chat_message, oldest first; the agent's memory too
    agent,      \* the Agent of the project
    card,       \* ChatAgents.pending: the call that is asked about, or NoCall
    wire,       \* the chat rows of engine_run_events the tab has not been sent
    tab,        \* the cache entry chat(projectId), and the query for it
    post,       \* whether the tab waits for the 202 of its message
    answer,     \* the answer to a card on its way to the engine
    confirmed,  \* history: the call whose card a person confirmed last
    faults

vars == <<saved, agent, card, wire, tab, post, answer, confirmed, faults>>

-----------------------------------------------------------------------------
(* Messages, events, the cache *)

Message == [role : {"user", "assistant", "toolResult"}, calls : Nat]
UserMessage == [role |-> "user", calls |-> 0]
ToolResult == [role |-> "toolResult", calls |-> 0]
Reply(calls) == [role |-> "assistant", calls |-> calls]

\* chatItem: a reply that is tool calls only has no form on the screen.
HasItem(message) == message.role # "assistant" \/ message.calls = 0
Items(messages) == {id \in DOMAIN messages : HasItem(messages[id])}

\* recentContext: the newest messages, from the first one of the user on.
Unaligned(messages) ==      \* mutant: the newest messages, wherever they start
    IF Len(messages) <= CONTEXT_MESSAGES THEN messages
    ELSE SubSeq(messages, Len(messages) - CONTEXT_MESSAGES + 1, Len(messages))
recentContext(messages) ==
    IF Len(messages) <= CONTEXT_MESSAGES THEN messages
    ELSE LET tail == SubSeq(messages, Len(messages) - CONTEXT_MESSAGES + 1, Len(messages))
             users == {i \in DOMAIN tail : tail[i].role = "user"}
         IN  IF users = {} THEN tail
             ELSE SubSeq(tail, CHOOSE i \in users : \A j \in users : i <= j, Len(tail))

\* A call is known by the place its result will have.
NoCall == 0
ThisCall == Len(saved) + 1

\* chat_status frames are snapshots: compactChatStatus keeps the newest.
Status(busy, pending) == [type |-> "chat_status", id |-> 0, busy |-> busy, pending |-> pending]
ChatMessage(id) == [type |-> "chat_message", id |-> id, busy |-> TRUE, pending |-> NoCall]
IsMessage(event) == event.type = "chat_message"
Frames(log) == {i \in DOMAIN log : ~IsMessage(log[i])}      \* one at most
Compacted(log) ==
    IF Frames(log) = {} THEN log ELSE RemoveAt(log, CHOOSE i \in Frames(log) : TRUE)
Emit(log, event) == Append(IF IsMessage(event) THEN log ELSE Compacted(log), event)
EmitMessage(log, message) ==
    IF HasItem(message) THEN Emit(log, ChatMessage(ThisCall)) ELSE log

NoState == [ids |-> {}, busy |-> FALSE, pending |-> NoCall]
NoAnswer == [call |-> NoCall, approved |-> FALSE]

Init ==
    /\ saved = <<>> /\ wire = <<>> /\ card = NoCall
    /\ agent = [at |-> "idle", turns |-> 0, left |-> 0, aborted |-> FALSE]
    /\ tab = [loaded |-> FALSE, chat |-> NoState, query |-> "asked", got |-> NoState, missed |-> FALSE]
    /\ post = "none" /\ answer = NoAnswer /\ confirmed = NoCall
    /\ faults = 0

-----------------------------------------------------------------------------
(* The agent *)

busy == agent.at # "idle"
Bounds == <<confirmed, faults>>

\* message_end: the message is saved, and announced if it has a form.
Save(message, next) ==
    /\ saved' = Append(saved, message)
    /\ agent' = next
    /\ wire' = EmitMessage(wire, message)

\* agent_end, after a last message.
SaveAndEnd(message) ==
    /\ saved' = Append(saved, message)
    /\ agent' = [agent EXCEPT !.at = "idle", !.left = 0]
    /\ wire' = Emit(EmitMessage(wire, message), Status(FALSE, NoCall))

NewTurn == [at |-> "model", turns |-> 0, left |-> 0, aborted |-> FALSE]

\* handleSend, sendChat, POST /chat/:id: a new turn.  While the agent is busy
\* the message is refused (ChatBusyError) and nothing changes.
Send ==
    /\ post = "none" /\ ~busy
    /\ Len(saved) < MaxMessages
    /\ post' = "accepted"
    /\ saved' = Append(saved, UserMessage)
    /\ agent' = NewTurn
    /\ wire' = EmitMessage(Emit(wire, Status(TRUE, NoCall)), UserMessage)
    /\ UNCHANGED <<card, tab, answer, confirmed, faults>>

\* The model's reply: text, or tool calls; an error or an abort ends the
\* agent with a message that says so.
ModelReplies ==
    /\ agent.at = "model"
    /\ \/ SaveAndEnd(Reply(0))
       \/ \E calls \in 1..MaxCalls :
            /\ ~agent.aborted /\ Len(saved) + 1 + calls <= MaxMessages
            /\ Save(Reply(calls), [agent EXCEPT !.at = "tools", !.left = calls])
    /\ UNCHANGED <<card, tab, post, answer, Bounds>>

\* The result of a call, and finishTurn after the last one.
Ends == agent.turns + 1 >= MAX_TURNS
AfterCall == IF agent.left > 1 THEN [agent EXCEPT !.at = "tools", !.left = @ - 1]
             ELSE [agent EXCEPT !.at = "model", !.left = 0, !.turns = @ + 1]
SaveResult == IF agent.left = 1 /\ Ends THEN SaveAndEnd(ToolResult)
              ELSE Save(ToolResult, AfterCall)

\* The tools of a project.  Those that change it or cost money have a sentence
\* for the card, none of them answers a gate.
readTools == {"get_project_state", "get_run_status", "read_settings"}
writeTools == {"start_run", "resume_run", "cancel_run", "regenerate_shot",
               "regenerate_character", "recompose", "update_outline", "update_shot",
               "update_character"}

chatTools == readTools \cup writeTools

\* ask(): the card of the call, shown to the user.
Ask ==
    /\ agent' = [agent EXCEPT !.at = "card"]
    /\ card' = ThisCall
    /\ wire' = Emit(wire, Status(TRUE, ThisCall))
    /\ UNCHANGED saved

\* beforeToolCall: a tool without a sentence runs and gives its result, another
\* one asks.  After an abort the library may refuse the call first.
RunsUnasked(tool) == tool \notin writeTools \/ agent.aborted
CallTool ==
    /\ agent.at = "tools"
    /\ \E tool \in chatTools :
          \/ tool \in writeTools /\ Ask
          \/ RunsUnasked(tool) /\ SaveResult /\ UNCHANGED card
    /\ UNCHANGED <<tab, post, answer, Bounds>>

ToolEnds ==
    /\ agent.at = "write"
    /\ SaveResult
    /\ UNCHANGED <<card, tab, post, answer, Bounds>>

\* decide(): the card is taken down; a refused call gets a result that says so.
Told == Emit(wire, Status(TRUE, NoCall))
Approve ==
    /\ agent' = [agent EXCEPT !.at = "write"]
    /\ wire' = Told
    /\ UNCHANGED saved
Decline(now) ==
    /\ saved' = Append(saved, ToolResult)
    /\ LET next == IF agent.left = 1 /\ Ends THEN [agent EXCEPT !.at = "idle", !.left = 0]
                   ELSE AfterCall
           log == EmitMessage(Told, ToolResult)
       IN  /\ agent' = [next EXCEPT !.aborted = now]
           /\ wire' = IF next.at = "idle" THEN Emit(log, Status(FALSE, NoCall)) ELSE log

\* POST /chat/:id/confirm: only the open card, by its tool_call_id.
AnyCard(call) == card # NoCall      \* mutant: tool_call_id is not compared
ConfirmsCard(call) == card # NoCall /\ call = card
Confirm ==
    /\ answer # NoAnswer
    /\ answer' = NoAnswer
    /\ IF ~ConfirmsCard(answer.call) THEN UNCHANGED <<saved, agent, card, wire>>
       ELSE /\ card' = NoCall
            /\ IF answer.approved THEN Approve ELSE Decline(agent.aborted)
    /\ UNCHANGED <<tab, post, Bounds>>

\* CONFIRM_TIMEOUT_MS.
Untimed == {}       \* mutant: a card waits for an answer for ever
OpenCards == {card} \ {NoCall}
CardTimesOut ==
    /\ OpenCards # {}
    /\ card' = NoCall
    /\ Decline(agent.aborted)
    /\ UNCHANGED <<tab, post, answer, Bounds>>

\* POST /chat/:id/abort.  An open card listens to the signal; one that opens
\* later does not hear it any more.
Abort ==
    /\ tab.loaded /\ tab.chat.busy
    /\ busy /\ ~agent.aborted
    /\ card' = NoCall
    /\ IF card # NoCall THEN Decline(TRUE)
       ELSE agent' = [agent EXCEPT !.aborted = TRUE] /\ UNCHANGED <<saved, wire>>
    /\ UNCHANGED <<tab, post, answer, Bounds>>

\* The engine dies in a turn.  The next request finds the saved messages only.
Kill ==
    /\ busy /\ faults < MaxFaults
    /\ faults' = faults + 1
    /\ agent' = [agent EXCEPT !.at = "idle", !.left = 0]
    /\ card' = NoCall
    /\ tab' = [tab EXCEPT !.missed = TRUE]
    /\ UNCHANGED <<saved, wire, post, answer, confirmed>>

-----------------------------------------------------------------------------
(* The tab *)

\* The 202 arrives: the tab is busy, whatever it was told in the meantime.
EndIsComing == \E i \in Frames(wire) : ~wire[i].busy
SendIsAccepted ==
    /\ post = "accepted" /\ post' = "none"
    /\ tab' = [tab EXCEPT !.chat.busy = @ \/ tab.loaded,
                          !.missed = @ \/ (~busy /\ ~EndIsComing)]
    /\ UNCHANGED <<saved, agent, card, wire, answer, Bounds>>

\* The buttons of the card that is on screen, which may be gone by now.
Press(approved) ==
    /\ tab.loaded /\ tab.chat.pending # NoCall /\ answer = NoAnswer
    /\ answer' = [call |-> tab.chat.pending, approved |-> approved]
    /\ confirmed' = IF approved THEN tab.chat.pending ELSE confirmed
    /\ UNCHANGED <<saved, agent, card, wire, tab, post, faults>>

\* applyChatMessage, applyChatStatus.  An end refetches; a first fetch that is
\* under way is kept, a later one is cancelled and asked again.
Patched(event) ==
    IF ~tab.loaded THEN tab.chat
    ELSE IF IsMessage(event) THEN [tab.chat EXCEPT !.ids = @ \cup {event.id}]
    ELSE [tab.chat EXCEPT !.busy = event.busy, !.pending = event.pending]
NotRefetched == tab.query      \* mutant: no resync
Refetched == IF tab.loaded THEN "asked" ELSE tab.query
EventArrives ==
    /\ wire # <<>> /\ wire' = Tail(wire)
    /\ LET event == Head(wire)
           end == ~IsMessage(event) /\ ~event.busy
       IN  tab' = [tab EXCEPT !.chat = Patched(event),
                              !.query = IF end THEN Refetched ELSE @,
                              !.missed = IF end THEN ~tab.loaded ELSE @]
    /\ UNCHANGED <<saved, agent, card, post, answer, Bounds>>

\* GET /chat/:id: the engine answers with what it has, the answer arrives later.
ChatState == [ids |-> Items(saved), busy |-> busy, pending |-> card]
History ==
    /\ tab.query = "asked"
    /\ tab' = [tab EXCEPT !.query = "answered", !.got = ChatState]
    /\ UNCHANGED <<saved, agent, card, wire, post, answer, Bounds>>
HistoryArrives ==
    /\ tab.query = "answered"
    /\ tab' = [tab EXCEPT !.query = "none", !.loaded = TRUE, !.chat = tab.got, !.got = NoState]
    /\ UNCHANGED <<saved, agent, card, wire, post, answer, Bounds>>

\* A reload forgets the cache and what was on its way.
Reload ==
    /\ faults < MaxFaults /\ faults' = faults + 1
    /\ tab' = [tab EXCEPT !.loaded = FALSE, !.chat = NoState, !.query = "asked", !.got = NoState]
    /\ post' = "none" /\ answer' = NoAnswer
    /\ UNCHANGED <<saved, agent, card, wire, confirmed>>

-----------------------------------------------------------------------------

AgentStep == ModelReplies \/ CallTool \/ ToolEnds \/ CardTimesOut
QueryStep == History \/ HistoryArrives
PersonStep == Send \/ (\E approved \in BOOLEAN : Press(approved)) \/ Abort \/ Reload
Next ==
    AgentStep \/ Confirm \/ SendIsAccepted \/ EventArrives \/ QueryStep
    \/ PersonStep \/ Kill

Spec == Init /\ [][Next]_vars

\* A model, a tool and a request answer or fail in the end, timers fire, the
\* tail and the query deliver.  Of the person nothing is assumed.
LiveSpec ==
    /\ Spec
    /\ WF_vars(AgentStep) /\ WF_vars(Confirm)
    /\ WF_vars(SendIsAccepted) /\ WF_vars(EventArrives) /\ WF_vars(QueryStep)

-----------------------------------------------------------------------------
(* Properties *)

Call == Nat
Event == [type : {"chat_status", "chat_message"}, id : Nat, busy : BOOLEAN, pending : Call]
State == [ids : SUBSET Nat, busy : BOOLEAN, pending : Call]
TypeOK ==
    /\ saved \in Seq(Message)
    /\ agent \in [at : {"idle", "model", "tools", "card", "write"},
                  turns : 0..(MAX_TURNS - 1), left : Nat, aborted : BOOLEAN]
    /\ card \in Call /\ (card # NoCall <=> agent.at = "card")
    /\ wire \in Seq(Event)
    /\ tab \in [loaded : BOOLEAN, chat : State, query : {"none", "asked", "answered"},
                got : State, missed : BOOLEAN]
    /\ post \in {"none", "accepted"}
    /\ answer \in [call : Call, approved : BOOLEAN]
    /\ confirmed \in Call
    /\ faults \in 0..MaxFaults

\* "Runs the tool only after they confirm" (tools.ts): a tool that changes the
\* project starts only if a person pressed the button on the card of that very
\* call; a late answer to an earlier card, a timeout and an abort start nothing.
RunsAsConfirmed ==
    [][agent'.at = "write" /\ agent.at # "write" => ThisCall = confirmed]_vars

\* What the model sees has no tool result without the reply that called it, as
\* long as the turn fits into the context (recentContext).
Called(messages, i) ==
    \E j \in 1..(i - 1) :
        /\ messages[j].role = "assistant" /\ i - j <= messages[j].calls
        /\ \A k \in (j + 1)..(i - 1) : messages[k].role = "toolResult"
Orphan(messages) ==
    \E i \in DOMAIN messages : messages[i].role = "toolResult" /\ ~Called(messages, i)
Fits == \E i \in DOMAIN saved : saved[i].role = "user" /\ i > Len(saved) - CONTEXT_MESSAGES
NoOrphanedResult == agent.at = "model" /\ Fits => ~Orphan(recentContext(saved))

\* The assistant does not stay busy, whatever the person does or does not do.
ComesToRest == busy ~> ~busy

\* Through events that meet an open query, older answers that arrive late and
\* reloads, the tab comes to show the conversation, unless the engine died in
\* the turn, the end was announced before the tab's first fetch was through, or
\* the answer to its own send came after the end.
Shows ==
    tab.loaded /\ tab.chat = ChatState
ShowsConversation == <>[](tab.missed \/ Shows)

=============================================================================
