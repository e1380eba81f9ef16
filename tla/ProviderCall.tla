---------------------------- MODULE ProviderCall ----------------------------
(***************************************************************************)
(* One request of a stage to a provider (engine/src/media/media.ts,        *)
(* llm.ts, media/video-jobs) from its first check to the commit of what it *)
(* brought, and the store of media files it fills: managed-v1 on disk, the *)
(* media_object rows, the columns that name a file, and the sweep the      *)
(* Gateway makes when it boots (services/file_cleaner.py).                 *)
(*                                                                         *)
(* A file is a name, a request has one of five shapes:                     *)
(*   text    a streamed answer with one repair (TextLlmService.generate)   *)
(*   image   POST, retried, that answers with the picture                  *)
(*   task    POST, retried, that answers with a task to poll               *)
(*   doubao  POST, sent once, that answers with a task to poll             *)
(*   film    ffmpeg on this machine (mergeVideos, the fake clip)           *)
(* One executor makes one request at a time, and one entity is shown.      *)
(***************************************************************************)
EXTENDS Naturals, FiniteSets

CONSTANTS Files,            \* the names randomUUID may give
          NoFile,
          Kinds,            \* shapes of requests
          MaxRetries,       \* PROVIDER_MAX_RETRIES
          MaxPollFailures,  \* MAX_POLL_FAILURES
          MaxCopies,        \* copies tried of one answer
          MaxPolls,         \* polls before the longest wait is over
          MaxRuns, MaxKills, MaxBoots  \* bounds of an instance

Shapes == {"text", "image", "task", "doubao", "film"}

ASSUME KindsAssumption == Kinds \subseteq Shapes
ASSUME FilesAssumption == NoFile \notin Files
ASSUME LimitsAssumption ==
    {MaxRetries, MaxPollFailures, MaxCopies, MaxPolls, MaxRuns, MaxKills, MaxBoots} \subseteq Nat

VARIABLES
    call,       \* the request: its shape, where it stands, its counters
    sig,        \* an executor works on the run, its abort signal, the deadline
    run,        \* what the run's row says
    disk,       \* managed files on disk
    rows,       \* media_object rows
    aged,       \* rows older than the grace of the sweep
    shown,      \* the file the entity's column names
    history,    \* files its artifact versions name
    gateway,    \* the Gateway, and the sweep of its boot
    used        \* runs started, kills of the engine, boots

vars == <<call, sig, run, disk, rows, aged, shown, history, gateway, used>>

Quiet == [working |-> FALSE, aborted |-> FALSE, late |-> FALSE]

Idle == [kind |-> "none", at |-> "idle", tries |-> 0, polls |-> 0, file |-> NoFile]

Waiting   == {"backoff", "gap", "pause"}               \* MediaService.wait
Requested == {"posted", "polled", "copying", "encoding"} \* a fetch or ffmpeg under way
Steps     == {"idle", "start", "post", "copy", "linked", "got"} \cup Waiting \cup Requested

TypeOK ==
    /\ call \in [kind : Kinds \cup {"none"}, at : Steps,
                 tries : 0 .. MaxRetries + MaxPollFailures + MaxCopies + 1,  \* one repair
                 polls : 0 .. MaxPolls, file : Files \cup {NoFile}]
    /\ sig \in [working : BOOLEAN, aborted : BOOLEAN, late : BOOLEAN]
    /\ run \in [status : {"active", "cancelling", "ended"}, leased : BOOLEAN]
    /\ disk \subseteq Files /\ rows \subseteq Files /\ aged \subseteq rows
    /\ shown \in Files \cup {NoFile} /\ history \subseteq Files
    /\ gateway \in [at : {"booting", "sweeping", "serving"}, todo : SUBSET Files, gone : SUBSET Files]
    /\ used \in [runs : 0 .. MaxRuns, kills : 0 .. MaxKills, boots : 0 .. MaxBoots]

Init ==
    /\ call = Idle
    /\ sig = Quiet
    /\ run = [status |-> "ended", leased |-> FALSE]
    /\ disk = {} /\ rows = {} /\ aged = {}
    /\ shown = NoFile /\ history = {}
    /\ gateway = [at |-> "booting", todo |-> {}, gone |-> {}]
    /\ used = [runs |-> 0, kills |-> 0, boots |-> 0]

-----------------------------------------------------------------------------
\* The fence of the engine's writes: a live lease of its own, no cancel asked.
FenceOpen == run.leased /\ run.status = "active"

\* operationInFlight: the run is not aborted and the deadline not passed.
InFlight == ~sig.aborted /\ ~sig.late

\* What any column of any table but media_object names.
Mentioned == ({shown} \cup history) \ {NoFile}

\* The sweep leaves everything alone while a run is active or leased.
Busy == run.status /= "ended" \/ run.leased

Free == Files \ (disk \cup rows \cup Mentioned)

MoveTo(step) == call' = [call EXCEPT !.at = step]
End == call' = Idle

\* Nothing but the request itself moves.
OnlyCall == UNCHANGED <<sig, run, disk, rows, aged, shown, history, gateway, used>>

-----------------------------------------------------------------------------
(* Faults the checks must notice: no limit of retries, a POST without the   *)
(* signal, polls without it, a refused file left behind, a sweep that looks *)
(* at entities only.                                                        *)

PostUnsignalled == call.kind = "doubao" \/ ~sig.late
PollsUnsignalled == call.at \in Requested \ {"polled"}
LeftBehind(f) == disk
NotShown == (rows \cap aged) \ {shown}

-----------------------------------------------------------------------------
(* The request *)

\* The stage asks for the next thing; the deadline is the stage attempt's, so
\* it may be over already, unless the stage is a new one.
Begin(k) ==
    /\ call = Idle
    /\ sig.working
    /\ call' = [Idle EXCEPT !.kind = k,
                            !.at = CASE k = "text" -> "post" [] k = "film" -> "encoding" [] OTHER -> "start"]
    /\ sig' \in {sig, [sig EXCEPT !.late = FALSE]}
    /\ UNCHANGED <<run, disk, rows, aged, shown, history, gateway, used>>

\* throwIfAborted before the payload is put together (a picture may have to be
\* fetched for it).
Start ==
    /\ call.at = "start"
    /\ IF InFlight THEN MoveTo("post") ELSE End
    /\ OnlyCall

\* A request leaves with the abort signal on it; all but doubao's are sent
\* behind another throwIfAborted, which knows the deadline too.
MayPost == ~sig.aborted /\ (call.kind = "doubao" \/ ~sig.late)

Post ==
    /\ call.at = "post"
    /\ IF MayPost THEN MoveTo("posted") ELSE End
    /\ OnlyCall

\* generateOnce: the stream ends with a text that parses.
AnswerText ==
    /\ call.at = "posted" /\ call.kind = "text"
    /\ MoveTo("got")
    /\ OnlyCall

\* An answer with the picture, or with the task to poll.
AnswerPost ==
    /\ call.at = "posted" /\ call.kind /= "text"
    /\ call' = [call EXCEPT !.at = IF call.kind = "image" THEN "copy" ELSE "gap", !.tries = 0]
    /\ OnlyCall

\* What makes postProvider send again: a status worth another try, or no
\* answer at all (the provider may have taken the job).
Retried == call.kind \in {"image", "task"} /\ call.tries < MaxRetries

LosePost ==
    /\ call.at = "posted"
    /\ \/ Retried /\ call' = [call EXCEPT !.at = "backoff", !.tries = @ + 1]
       \/ End
    /\ OnlyCall

\* A text that does not parse is repaired once, unless the run is aborted.
RepairText ==
    /\ call.at = "posted" /\ call.kind = "text"
    /\ IF call.tries = 0 /\ ~sig.aborted
       THEN call' = [call EXCEPT !.at = "post", !.tries = 1]
       ELSE End
    /\ OnlyCall

\* Every poller gives up in the end; those of tasks and of vendors' jobs look
\* at the deadline before each poll, doubao's does not.
DoubaoPolls == call.kind = "doubao" /\ call.polls < MaxPolls
TaskPolls   == call.kind = "task" /\ call.polls < MaxPolls /\ InFlight

\* A wait of the engine ends: the timer fires, or the abort does.
Wake ==
    /\ call.at \in Waiting
    /\ IF sig.aborted THEN End
       ELSE CASE call.at = "backoff" -> MoveTo("post")
              [] call.at = "pause"   -> MoveTo("copy")
              [] call.at = "gap"     ->
                   IF DoubaoPolls \/ TaskPolls THEN call' = [call EXCEPT !.at = "polled", !.polls = @ + 1] ELSE End
    /\ OnlyCall

AnswerPoll ==
    /\ call.at = "polled"
    /\ \/ call' = [call EXCEPT !.at = "gap", !.tries = 0]   \* not done yet
       \/ call' = [call EXCEPT !.at = "copy", !.tries = 0]
       \/ End                                               \* the job failed
    /\ OnlyCall

\* Some lost polls in a row are borne, except by doubao's poller.
LosePoll ==
    /\ call.at = "polled"
    /\ \/ /\ call.kind = "task" /\ call.tries + 1 < MaxPollFailures
          /\ call' = [call EXCEPT !.at = "gap", !.tries = @ + 1]
       \/ End
    /\ OnlyCall

\* persistProviderMedia: a copy starts without a look at the deadline.
Copy ==
    /\ call.at = "copy"
    /\ IF sig.aborted THEN End ELSE MoveTo("copying")
    /\ OnlyCall

\* A step of the copy failed: tried again after a pause unless aborted.
CopyAgain ==
    IF ~sig.aborted /\ call.tries + 1 < MaxCopies
    THEN call' = [call EXCEPT !.at = "pause", !.tries = @ + 1, !.file = NoFile]
    ELSE End

LoseCopy ==
    /\ call.at = "copying"
    /\ CopyAgain
    /\ OnlyCall

\* The bytes get a fresh name in managed-v1; the row comes next.
LinkNew ==
    /\ \E f \in Free :
          /\ disk' = disk \cup {f}
          /\ call' = [call EXCEPT !.at = "linked", !.file = f]
    /\ UNCHANGED <<sig, run, rows, aged, shown, history, gateway, used>>

\* copyProviderMedia: throwIfAborted between the download and the name.
LinkCopy == call.at = "copying" /\ InFlight /\ LinkNew

\* Bytes that came with the answer are published at once.
LinkBytes == call.at = "copy" /\ call.kind /= "doubao" /\ LinkNew

\* A film looks at the abort only.
LinkFilm == call.at = "encoding" /\ ~sig.aborted /\ LinkNew

\* A copy that arrives after the deadline is thrown away with the request.
LateCopy ==
    /\ call.at = "copying" /\ sig.late
    /\ End
    /\ OnlyCall

LoseFilm ==
    /\ call.at = "encoding"
    /\ End
    /\ OnlyCall

\* registerMediaObject, fenced; a file that is refused is unlinked again.
Unlinked(f) == disk \ {f}

Register ==
    /\ call.at = "linked"
    /\ IF FenceOpen
       THEN /\ rows' = rows \cup {call.file}
            /\ MoveTo("got")
            /\ UNCHANGED disk
       ELSE /\ disk' = Unlinked(call.file)
            /\ \/ call.kind /= "film" /\ CopyAgain
               \/ call.kind \in {"film", "image", "task"} /\ End   \* a film, inline bytes
            /\ UNCHANGED rows
    /\ UNCHANGED <<sig, run, aged, shown, history, gateway, used>>

\* The stage saves the entity as it was as a version and writes the new file
\* under the same fence, or meets a newer row and fails.
Commit ==
    /\ call.at = "got"
    /\ End
    /\ \/ /\ FenceOpen /\ call.file /= NoFile
          /\ shown' = call.file
          /\ history' = history \cup ({shown} \ {NoFile})
       \/ UNCHANGED <<shown, history>>
    /\ UNCHANGED <<sig, run, disk, rows, aged, gateway, used>>

\* What is under way observes the signal: the fetch rejects, ffmpeg is killed.
Observes == call.at \in Requested

Cut ==
    /\ sig.aborted /\ Observes
    /\ End
    /\ OnlyCall

-----------------------------------------------------------------------------
(* The run, the engine's process and the time *)

Serving == gateway.at = "serving"

StartRun ==
    /\ Serving /\ used.runs < MaxRuns
    /\ ~sig.working /\ ~Busy
    /\ run' = [status |-> "active", leased |-> TRUE]
    /\ sig' = [Quiet EXCEPT !.working = TRUE]
    /\ used' = [used EXCEPT !.runs = @ + 1]
    /\ UNCHANGED <<call, disk, rows, aged, shown, history, gateway>>

RequestCancel ==
    /\ Serving /\ run.status = "active"
    /\ run' = [run EXCEPT !.status = "cancelling"]
    /\ UNCHANGED <<call, sig, disk, rows, aged, shown, history, gateway, used>>

\* The engine's cancel route, or a heartbeat that can neither renew nor
\* reclaim the lease.
Abort ==
    /\ sig.working /\ ~sig.aborted
    /\ run.status /= "active"
    /\ sig' = [sig EXCEPT !.aborted = TRUE]
    /\ UNCHANGED <<call, run, disk, rows, aged, shown, history, gateway, used>>

Deadline ==
    /\ call /= Idle /\ ~sig.late
    /\ sig' = [sig EXCEPT !.late = TRUE]
    /\ UNCHANGED <<call, run, disk, rows, aged, shown, history, gateway, used>>

\* A suspended machine misses heartbeats; a free lease is taken back.
LeaseLapses ==
    /\ run.leased
    /\ run' = [run EXCEPT !.leased = FALSE]
    /\ UNCHANGED <<call, sig, disk, rows, aged, shown, history, gateway, used>>

Reclaim ==
    /\ ~run.leased /\ run.status = "active" /\ sig.working
    /\ run' = [run EXCEPT !.leased = TRUE]
    /\ UNCHANGED <<call, sig, disk, rows, aged, shown, history, gateway, used>>

\* The executor is through: it settles its run if the lease is still its own.
Finish ==
    /\ sig.working /\ call = Idle
    /\ run' = IF run.leased THEN [status |-> "ended", leased |-> FALSE] ELSE run
    /\ sig' = Quiet
    /\ UNCHANGED <<call, disk, rows, aged, shown, history, gateway, used>>

\* The Gateway ends a run whose lease is gone.
Reconcile ==
    /\ Serving
    /\ ~run.leased /\ run.status /= "ended"
    /\ run' = [run EXCEPT !.status = "ended"]
    /\ UNCHANGED <<call, sig, disk, rows, aged, shown, history, gateway, used>>

\* The process dies where it stands; a linked file stays.
Kill ==
    /\ sig.working /\ used.kills < MaxKills
    /\ End
    /\ sig' = Quiet
    /\ used' = [used EXCEPT !.kills = @ + 1]
    /\ UNCHANGED <<run, disk, rows, aged, shown, history, gateway>>

-----------------------------------------------------------------------------
(* The user's other writes, and the sweep *)

\* A version is applied again (rollback), or the project is deleted with its
\* runs and its versions.
Rollback(f) ==
    /\ Serving
    /\ f \in history
    /\ shown' = f
    /\ UNCHANGED <<call, sig, run, disk, rows, aged, history, gateway, used>>

DeleteProject ==
    /\ Serving
    /\ shown' = NoFile /\ history' = {}
    /\ run' = [status |-> "ended", leased |-> FALSE]
    /\ UNCHANGED <<call, sig, disk, rows, aged, gateway, used>>

\* A day passes for a row; no request is under way that long.
Age(f) ==
    /\ f \in rows \ aged
    /\ f /= call.file
    /\ aged' = aged \cup {f}
    /\ UNCHANGED <<call, sig, run, disk, rows, shown, history, gateway, used>>

\* The Gateway dies, in the sweep too, and boots again; the engine may live on.
Boot ==
    /\ used.boots < MaxBoots
    /\ gateway' = [at |-> "booting", todo |-> {}, gone |-> {}]
    /\ used' = [used EXCEPT !.boots = @ + 1]
    /\ UNCHANGED <<call, sig, run, disk, rows, aged, shown, history>>

\* sweep_managed_media before the first request is served.
Unreferenced == (rows \cap aged) \ Mentioned

Scan ==
    /\ gateway.at = "booting"
    /\ gateway' = IF Busy THEN [gateway EXCEPT !.at = "serving"]
                  ELSE [at |-> "sweeping", todo |-> Unreferenced, gone |-> {}]
    /\ UNCHANGED <<call, sig, run, disk, rows, aged, shown, history, used>>

\* A file that is gone already keeps its row.
Unlink(f) ==
    /\ gateway.at = "sweeping" /\ f \in gateway.todo
    /\ gateway' = [gateway EXCEPT !.todo = @ \ {f}, !.gone = @ \cup (disk \cap {f})]
    /\ disk' = disk \ {f}
    /\ UNCHANGED <<call, sig, run, rows, aged, shown, history, used>>

\* The rows go in one commit at the end.
EndSweep ==
    /\ gateway.at = "sweeping" /\ gateway.todo = {}
    /\ rows' = rows \ gateway.gone
    /\ aged' = aged \ gateway.gone
    /\ gateway' = [at |-> "serving", todo |-> {}, gone |-> {}]
    /\ UNCHANGED <<call, sig, run, disk, shown, history, used>>

-----------------------------------------------------------------------------
\* What the engine does by itself, without an answer from anyone.
EngineStep == Start \/ Post \/ Wake \/ Copy \/ Register \/ Commit \/ Cut

\* What providers, the network and ffmpeg do.
Outside ==
    \/ AnswerText \/ RepairText \/ AnswerPost \/ LosePost
    \/ AnswerPoll \/ LosePoll
    \/ LinkCopy \/ LinkBytes \/ LinkFilm \/ LoseCopy \/ LateCopy \/ LoseFilm

Next ==
    \/ \E k \in Kinds : Begin(k)
    \/ EngineStep \/ Outside
    \/ StartRun \/ RequestCancel \/ Abort \/ Deadline
    \/ LeaseLapses \/ Reclaim \/ Finish \/ Reconcile \/ Kill
    \/ \E f \in Files : Rollback(f) \/ Age(f) \/ Unlink(f)
    \/ DeleteProject \/ Boot \/ Scan \/ EndSweep

Spec == Init /\ [][Next]_vars

\* Timers fire and an aborted request rejects; no answer is promised.
LiveSpec == Spec /\ WF_vars(EngineStep)

-----------------------------------------------------------------------------
(* Properties *)

\* A file on disk without a row is the one being published, or was left by a
\* kill between the link and the row: no refusal, abort or failed copy leaves
\* one behind (publishManagedFile). The sweep never sees such a file.
UnregisteredOnlyByKill ==
    Cardinality(disk \ rows) <= used.kills + (IF call.at = "linked" THEN 1 ELSE 0)

\* Every file that the entity, one of its versions or the running request
\* names is on disk, through sweeps, crashed sweeps, kills and rollbacks: no
\* version that can still be applied has lost its picture.
MentionsResolve == (Mentioned \cup {call.file}) \ {NoFile} \subseteq disk

\* Once the run is aborted its request sends nothing more, registers no file
\* and changes nothing that is shown.
AbortIsSilent ==
    [][ sig.aborted /\ call /= Idle
        => /\ rows' \subseteq rows
           /\ call'.at \in Requested => call' = call
           /\ call' /= call => UNCHANGED <<shown, history>> ]_vars

\* An abort ends the request whether or not the provider ever answers.
AbortEnds == sig.aborted ~> (call = Idle)

=============================================================================
