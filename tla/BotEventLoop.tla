--------------------------- MODULE BotEventLoop ---------------------------
(***************************************************************************)
(* The bot process of internal/zulipbot/bot.go (Run, consumeQueue,         *)
(* handleEvent, handleMessage, the restart and update commands) and of     *)
(* cmd/campusbot/main.go (executeRestart), with the durable state it keeps *)
(* in SQLite, the event queues of the Zulip server it reads, and the       *)
(* service manager that starts it again after a failure.                   *)
(*                                                                         *)
(* Every step that a crash can fall before or after (a database write, a   *)
(* call to Zulip, an exec) is an action of its own; what only reads or     *)
(* computes is merged into the next such step.                             *)
(*                                                                         *)
(* Zulip numbers the events of each queue separately.  Here an event's id  *)
(* is its position in log, the history of all events, and a queue that was *)
(* registered when the log had n events holds those after n: within one    *)
(* queue the order is the same, and an id never leaves its queue because   *)
(* the program always stores it together with the queue's name.            *)
(***************************************************************************)
EXTENDS Naturals, Sequences, FiniteSets

CONSTANTS
  MaxEvents,   \* bound on the events users post
  MaxQueues,   \* bound on the queues the bot registers
  MaxFaults,   \* bound on crashes, failed calls and expired queues, in total
  FaultKinds,  \* which of AllFaultKinds may happen
  Kinds,       \* which of AllKinds of events are posted
  AckAhead     \* may the client library confirm events not yet handed over?

\* other: heartbeats, own messages, channel messages, plain text, ... : events
\* that handleEvent passes over.  command: every command whose result has no
\* AfterResponse callback, refused ones included.  restartNew and updateNew are
\* restart and update with --new-queue.
NewQueueKinds == {"restartNew", "updateNew"}
UpdateKinds   == {"update", "updateNew"}
AfterKinds    == {"restart"} \cup NewQueueKinds \cup UpdateKinds
AllKinds      == {"other", "reaction", "malformed", "command"} \cup AfterKinds
AllFaultKinds == {"crash", "stop", "expire", "send", "api", "db", "close"}

ASSUME BoundsAssumption == /\ MaxEvents \in Nat
                           /\ MaxQueues \in Nat
                           /\ MaxFaults \in Nat
ASSUME KindsAssumption  == /\ FaultKinds \subseteq AllFaultKinds
                           /\ Kinds \subseteq AllKinds
                           /\ AckAhead \in BOOLEAN

VARIABLES
  log,        \* server: the kind of every event so far
  qstatus,    \* server: for each queue whether it exists
  qstart,     \* server: the last event before the queue was registered
  qpruned,    \* server: the last event of the queue that was pruned
  nq,         \* server: how many queues were registered
  stored,     \* database: event_queue_state
  processed,  \* database: processed_messages
  rows,       \* database: restart_requests, by id
  pc,         \* process: where Run is
  state,      \* process: the QueueState of consumeQueue
  cur,        \* process: id of the last event taken from eventCh
  fetched,    \* client library: id of the last event it polled
  poll,       \* client library: whether it reported a bad queue
  requested,  \* process: Bot.requested; Bot.accepting is its negation
  update,     \* process: Bot.update
  faults,     \* history: faults so far
  attempted,  \* history: events that handleEvent was called for
  marked,     \* history: messages that were ever in processed_messages
  fires       \* history: how often each message's AfterResponse was started

queues == <<qstatus, qstart, qpruned>>
server == <<log, queues, nq>>
db     == <<stored, processed, rows>>
lib    == <<fetched, poll>>
proc   == <<pc, state, cur, fetched, poll, requested, update>>
hist   == <<faults, attempted, marked, fires>>
vars   == <<server, db, proc, hist>>

Events   == 1..MaxEvents
QueueIds == 1..MaxQueues
NoState  == [queue |-> 0, last |-> 0]
States   == [queue : 0..MaxQueues, last : 0..MaxEvents]
Statuses == {"requested", "in_progress", "completed", "failed"}
Row      == [msg : Events, status : Statuses]

\* Places inside consumeQueue: the library polls in its own goroutine meanwhile.
Handling  == {"handle", "reply", "mark", "after", "delQueue", "clearOld",
              "regNew", "saveReplaced", "createRow", "readId"}
Connected == Handling \cup {"select", "save"}
Startup   == {"start", "notified", "cleanup", "ensure", "saveNew", "connect", "clear"}
Leaving   == {"executeRestart", "markProgress", "exec"}
PCs       == Connected \cup Startup \cup Leaving \cup {"down", "stopped"}

Live(q) == q # 0 /\ qstatus[q] = "live"

\* Mutant of Active: failed requests count as active too.
Active_FailedToo ==
  {i \in DOMAIN rows : rows[i].status \in {"requested", "in_progress", "failed"}}

Active  == {i \in DOMAIN rows : rows[i].status \in {"requested", "in_progress"}}
Latest  == CHOOSE i \in Active : \A j \in Active : j <= i

\* UPDATE restart_requests of the row with this id.
SetStatus(id, status) == rows' = [rows EXCEPT ![id].status = status]

Fault(k) == /\ k \in FaultKinds
            /\ faults < MaxFaults
            /\ faults' = faults + 1

Init ==
  /\ log = <<>>
  /\ qstatus = [q \in QueueIds |-> "unused"]
  /\ qstart = [q \in QueueIds |-> 0]
  /\ qpruned = [q \in QueueIds |-> 0]
  /\ nq = 0
  /\ stored = NoState
  /\ processed = {}
  /\ rows = <<>>
  /\ pc = "down"
  /\ state = NoState
  /\ cur = 0
  /\ fetched = 0
  /\ poll = "ok"
  /\ requested = FALSE
  /\ update = FALSE
  /\ faults = 0
  /\ attempted = {}
  /\ marked = {}
  /\ fires = [e \in Events |-> 0]

---------------------------------------------------------------------------
(* The Zulip server and its users.                                         *)

\* A user posts a message, adds a reaction, or the server emits a heartbeat.
Post(kind) ==
  /\ Len(log) < MaxEvents
  /\ log' = Append(log, kind)
  /\ UNCHANGED <<queues, nq, db, proc, hist>>

\* The server drops an idle queue, or all of them when it is restarted.
Expire(q) ==
  /\ Live(q)
  /\ Fault("expire")
  /\ qstatus' = [qstatus EXCEPT ![q] = "expired"]
  /\ UNCHANGED <<log, qstart, qpruned, nq, db, proc, attempted, marked, fires>>

\* Registering a queue: it holds the events after those already in the log.
Register ==
  /\ nq < MaxQueues
  /\ nq' = nq + 1
  /\ qstatus' = [qstatus EXCEPT ![nq + 1] = "live"]
  /\ qstart' = [qstart EXCEPT ![nq + 1] = Len(log)]
  /\ qpruned' = [qpruned EXCEPT ![nq + 1] = Len(log)]

---------------------------------------------------------------------------
(* The client library's polling goroutine, realtimeevents.EventQueue.      *)

\* A poll confirms everything fetched before, which the server then prunes,
\* and returns what has been posted since.
Poll ==
  /\ pc \in Connected
  /\ poll = "ok"
  /\ Live(state.queue)
  /\ AckAhead \/ cur = fetched
  /\ qpruned' = [qpruned EXCEPT ![state.queue] = fetched]
  /\ fetched' = Len(log)
  /\ UNCHANGED <<log, qstatus, qstart, nq, db, pc, state, cur, poll, requested, update, hist>>

\* A poll of a queue that is gone puts BAD_EVENT_QUEUE_ID into errs.
PollBad ==
  /\ pc \in Connected
  /\ poll = "ok"
  /\ ~Live(state.queue)
  /\ poll' = "bad"
  /\ UNCHANGED <<server, db, pc, state, cur, fetched, requested, update, hist>>

---------------------------------------------------------------------------
(* Life and death of the process.                                          *)

Forget ==
  /\ state' = NoState
  /\ cur' = 0
  /\ fetched' = 0
  /\ poll' = "ok"
  /\ requested' = FALSE
  /\ update' = FALSE

\* systemd (Restart=on-failure), or the exec of a restart, runs the program anew.
Start ==
  /\ pc = "down"
  /\ pc' = "start"
  /\ Forget
  /\ UNCHANGED <<server, db, hist>>

\* The process is killed, or a call that Run, run or executeRestart makes
\* fails and the error travels up to main, which exits with status 1.
Crash ==
  /\ pc \notin {"down", "stopped"}
  /\ Fault("crash")
  /\ pc' = "down"
  /\ Forget
  /\ UNCHANGED <<server, db, attempted, marked, fires>>

\* SIGINT or SIGTERM cancels runCtx: every call in progress fails, and the
\* service manager that sent the signal does not start the bot again.
Shutdown ==
  /\ pc \notin {"down", "stopped"}
  /\ Fault("stop")
  /\ pc' = "stopped"
  /\ Forget
  /\ UNCHANGED <<server, db, attempted, marked, fires>>

\* After exit status 0 or a stop somebody has to start the bot again.
OperatorStart ==
  /\ pc = "stopped"
  /\ pc' = "down"
  /\ UNCHANGED <<server, db, state, cur, lib, requested, update, hist>>

---------------------------------------------------------------------------
(* Run, before its loop.                                                   *)

\* NotifyRestartComplete: the notification is sent ...
NotifySend ==
  /\ pc = "start"
  /\ Active # {}
  /\ pc' = "notified"
  /\ UNCHANGED <<server, db, state, cur, lib, requested, update, hist>>

\* Mutant of NotifySendFails: the request is left as it was.
NotifySendFails_LeavesRequest ==
  /\ pc = "start"
  /\ Active # {}
  /\ Fault("send")
  /\ pc' = "cleanup"
  /\ UNCHANGED <<server, db, state, cur, lib, requested, update,
                 attempted, marked, fires>>

\* ... or cannot be sent, and the request is closed as failed.
NotifySendFails ==
  /\ pc = "start"
  /\ Active # {}
  /\ Fault("send")
  /\ SetStatus(Latest, "failed")
  /\ pc' = "cleanup"
  /\ UNCHANGED <<server, stored, processed, state, cur, lib, requested, update,
                 attempted, marked, fires>>

\* Mutant of CompleteRestart: the notification is sent, the request stays open.
CompleteRestart_Forgotten ==
  /\ pc \in {"start", "notified"}
  /\ Active # {}
  /\ pc' = "cleanup"
  /\ UNCHANGED <<server, db, state, cur, lib, requested, update, hist>>

\* completeRestartRequest after the notification, or without one when
\* restart.startup_notification is off (MarkRestartComplete).
CompleteRestart ==
  /\ pc \in {"start", "notified"}
  /\ Active # {}
  /\ SetStatus(Latest, "completed")
  /\ pc' = "cleanup"
  /\ UNCHANGED <<server, stored, processed, state, cur, lib, requested, update, hist>>

\* A failed read or write of the request is logged and Run carries on.
CompleteRestartFails ==
  /\ pc \in {"start", "notified"}
  /\ Active # {}
  /\ Fault("db")
  /\ pc' = "cleanup"
  /\ UNCHANGED <<server, db, state, cur, lib, requested, update,
                 attempted, marked, fires>>

NoRestartPending ==
  /\ pc = "start"
  /\ Active = {}
  /\ pc' = "cleanup"
  /\ UNCHANGED <<server, db, state, cur, lib, requested, update, hist>>

\* A message the stored queue can still deliver when it is resumed.
Deliverable(e) == Live(stored.queue) /\ e > stored.last

\* cleanupProcessedMessages forgets messages after 7 days, and all but the
\* newest 100000, and looks at no cursor.  That it spares what can still be
\* delivered is an assumption on the environment, not a guard of the code: the
\* server keeps the events of an unread queue for minutes, and no queue holds
\* 100000 messages the bot has answered.
Cleanup ==
  /\ pc = "cleanup"
  /\ \E old \in SUBSET {e \in processed : ~Deliverable(e)} :
       processed' = processed \ old
  /\ pc' = "ensure"
  /\ UNCHANGED <<server, stored, rows, state, cur, lib, requested, update, hist>>

---------------------------------------------------------------------------
(* ensureQueue and consumeQueue.                                           *)

\* A stored queue is resumed where the cursor says.
ResumeQueue ==
  /\ pc = "ensure"
  /\ stored # NoState
  /\ state' = stored
  /\ pc' = "connect"
  /\ UNCHANGED <<server, db, cur, lib, requested, update, hist>>

\* registerAndSaveQueue: register ...
RegisterQueue ==
  /\ pc = "ensure"
  /\ stored = NoState
  /\ Register
  /\ state' = [queue |-> nq + 1, last |-> Len(log)]
  /\ pc' = "saveNew"
  /\ UNCHANGED <<log, db, cur, lib, requested, update, hist>>

\* ... and save.
SaveNewQueue ==
  /\ pc = "saveNew"
  /\ stored' = state
  /\ pc' = "connect"
  /\ UNCHANGED <<server, processed, rows, state, cur, lib, requested, update, hist>>

\* The server accepts a queue it still has, from an event it has not pruned.
Resumable(s) == Live(s.queue) /\ qpruned[s.queue] <= s.last

Connect ==
  /\ pc = "connect"
  /\ Resumable(state)
  /\ pc' = "select"
  /\ cur' = state.last
  /\ fetched' = state.last
  /\ poll' = "ok"
  /\ UNCHANGED <<server, db, state, requested, update, hist>>

\* BAD_EVENT_QUEUE_ID or "already been pruned", from Connect or from a poll.
BadQueue ==
  /\ \/ pc = "connect" /\ ~Resumable(state)
     \/ pc = "select" /\ poll = "bad"
  /\ pc' = "clear"
  /\ UNCHANGED <<server, db, state, cur, lib, requested, update, hist>>

\* Mutant of ClearState: the stored queue is kept, and resumed again.
ClearState_Kept ==
  /\ pc = "clear"
  /\ pc' = "ensure"
  /\ UNCHANGED <<server, db, state, cur, lib, requested, update, hist>>

\* Run clears the stored queue; its loop then registers another one.
ClearState ==
  /\ pc = "clear"
  /\ stored' = NoState
  /\ pc' = "ensure"
  /\ UNCHANGED <<server, processed, rows, state, cur, lib, requested, update, hist>>

\* The library closes eventCh after a bad queue, and select sees that before
\* it sees the error: consumeQueue returns no error, and the process exits
\* with status 0, after which systemd leaves it alone.
EventChClosed ==
  /\ pc = "select"
  /\ poll = "bad"
  /\ cur = fetched
  /\ Fault("close")
  /\ pc' = "stopped"
  /\ Forget
  /\ UNCHANGED <<server, db, attempted, marked, fires>>

\* An event arrives on eventCh and handleEvent is called.
Deliver ==
  /\ pc = "select"
  /\ cur < fetched
  /\ cur' = cur + 1
  /\ attempted' = attempted \cup {cur + 1}
  /\ pc' = "handle"
  /\ UNCHANGED <<server, db, state, lib, requested, update, faults, marked, fires>>

---------------------------------------------------------------------------
(* handleEvent and handleMessage.                                          *)

\* Mutants of Advance: the cursor of the library's poll instead of the event's
\* id, and one event too far.
Advance_Polled  == state' = [state EXCEPT !.last = fetched]
Advance_TooFar  == state' = [state EXCEPT !.last = cur + 1]

Advance == state' = [state EXCEPT !.last = cur]

\* Events that need no answer, reactions (whose errors are only logged), and
\* messages answered earlier just move the cursor.
PassOver ==
  /\ pc = "handle"
  /\ log[cur] \in {"other", "reaction"} \/ cur \in processed
  /\ Advance
  /\ pc' = "save"
  /\ UNCHANGED <<server, db, cur, lib, requested, update, hist>>

\* Mutant of Dispatch: processed_messages is not asked.
Dispatch_Unchecked ==
  /\ pc = "handle"
  /\ log[cur] \notin {"other", "reaction"}
  /\ pc' = "reply"
  /\ UNCHANGED <<server, db, state, cur, lib, requested, update, hist>>

\* A command is dispatched, or found malformed; either way an answer is due.
Dispatch ==
  /\ pc = "handle"
  /\ log[cur] \notin {"other", "reaction"}
  /\ cur \notin processed
  /\ pc' = "reply"
  /\ UNCHANGED <<server, db, state, cur, lib, requested, update, hist>>

Reply ==
  /\ pc = "reply"
  /\ pc' = "mark"
  /\ UNCHANGED <<server, db, state, cur, lib, requested, update, hist>>

\* markMessageProcessed of a message without callbacks ends its handling.
MarkProcessed ==
  /\ pc = "mark"
  /\ log[cur] \notin AfterKinds
  /\ processed' = processed \cup {cur}
  /\ marked' = marked \cup {cur}
  /\ Advance
  /\ pc' = "save"
  /\ UNCHANGED <<server, stored, rows, cur, lib, requested, update,
                 faults, attempted, fires>>

\* Mutant of MarkThenAfter: the callback runs before the message is recorded.
MarkThenAfter_Unrecorded ==
  /\ pc = "mark"
  /\ log[cur] \in AfterKinds
  /\ pc' = "after"
  /\ UNCHANGED <<server, db, state, cur, lib, requested, update, hist>>

\* markMessageProcessed of a restart or update: its AfterResponse is next.
MarkThenAfter ==
  /\ pc = "mark"
  /\ log[cur] \in AfterKinds
  /\ processed' = processed \cup {cur}
  /\ marked' = marked \cup {cur}
  /\ pc' = "after"
  /\ UNCHANGED <<server, stored, rows, state, cur, lib, requested, update,
                 faults, attempted, fires>>

\* The AfterResponse of handleUpdate sets the update flag before that of
\* handleRestart; with --new-queue the latter replaces the queue first.
AfterResponse ==
  /\ pc = "after"
  /\ fires' = [fires EXCEPT ![cur] = @ + 1]
  /\ update' = (update \/ log[cur] \in UpdateKinds)
  /\ pc' = IF log[cur] \in NewQueueKinds THEN "delQueue" ELSE "createRow"
  /\ UNCHANGED <<server, db, state, cur, lib, requested, faults, attempted, marked>>

\* replaceMainEventQueue: deleting the stored queue fails if it is gone
\* already, and the error ends the handling of the message.
DeleteQueue ==
  /\ pc = "delQueue"
  /\ IF Live(stored.queue)
       THEN /\ qstatus' = [qstatus EXCEPT ![stored.queue] = "deleted"]
            /\ pc' = "clearOld"
       ELSE /\ qstatus' = qstatus
            /\ pc' = "save"
  /\ UNCHANGED <<log, qstart, qpruned, nq, db, state, cur, lib, requested, update, hist>>

ClearOldQueue ==
  /\ pc = "clearOld"
  /\ stored' = NoState
  /\ pc' = "regNew"
  /\ UNCHANGED <<server, processed, rows, state, cur, lib, requested, update, hist>>

RegisterReplacement ==
  /\ pc = "regNew"
  /\ Register
  /\ pc' = "saveReplaced"
  /\ UNCHANGED <<log, db, state, cur, lib, requested, update, hist>>

SaveReplacement ==
  /\ pc = "saveReplaced"
  /\ stored' = [queue |-> nq, last |-> qstart[nq]]
  /\ pc' = "createRow"
  /\ UNCHANGED <<server, processed, rows, state, cur, lib, requested, update, hist>>

\* Mutant of CreateRestartRequest: one active request, of any message, is enough.
CreateRestartRequest_OneActive ==
  /\ pc = "createRow"
  /\ rows' = IF Active # {} THEN rows
               ELSE Append(rows, [msg |-> cur, status |-> "requested"])
  /\ pc' = "readId"
  /\ UNCHANGED <<server, stored, processed, state, cur, lib, requested, update, hist>>

\* ScheduleRestart: INSERT OR IGNORE, one row per requesting message ...
CreateRestartRequest ==
  /\ pc = "createRow"
  /\ rows' = IF \E i \in DOMAIN rows : rows[i].msg = cur
               THEN rows
               ELSE Append(rows, [msg |-> cur, status |-> "requested"])
  /\ pc' = "readId"
  /\ UNCHANGED <<server, stored, processed, state, cur, lib, requested, update, hist>>

\* ... then the row's id is read back and the restart becomes final.
ScheduleRestart ==
  /\ pc = "readId"
  /\ requested' = TRUE
  /\ Advance
  /\ pc' = "save"
  /\ UNCHANGED <<server, db, cur, lib, update, hist>>

\* The call that a step of the handler makes.
CallOf(p) == CASE p \in {"reply"} -> "send"
               [] p \in {"delQueue", "regNew"} -> "api"
               [] OTHER -> "db"

\* A call of the handler fails: consumeQueue logs the error, and the cursor
\* stays where it was.  In "handle" it is the look into processed_messages,
\* which comes before that at the text, so a message of kind other has it too.
HandlerFails ==
  /\ pc \in Handling \ {"after"}
  /\ pc = "handle" => log[cur] # "reaction"
  /\ Fault(CallOf(pc))
  /\ pc' = "save"
  /\ UNCHANGED <<server, db, state, cur, lib, requested, update,
                 attempted, marked, fires>>

---------------------------------------------------------------------------
(* After the handler: save the cursor, and restart if that was asked for.  *)

\* Mutant of SaveCursor: the cursor is not saved when a restart is due.
SaveCursor_NotOnRestart ==
  /\ pc = "save"
  /\ stored' = IF requested THEN stored ELSE state
  /\ pc' = IF requested THEN "executeRestart" ELSE "select"
  /\ UNCHANGED <<server, processed, rows, state, cur, lib, requested, update, hist>>

\* saveEventQueueState runs after every event, failed ones included.
SaveCursor ==
  /\ pc = "save"
  /\ stored' = state
  /\ pc' = IF requested THEN "executeRestart" ELSE "select"
  /\ UNCHANGED <<server, processed, rows, state, cur, lib, requested, update, hist>>

\* executeRestart first replaces the executable if an update was asked for.
InstallUpdate ==
  /\ pc = "executeRestart"
  /\ pc' = "markProgress"
  /\ UNCHANGED <<server, db, state, cur, lib, requested, update, hist>>

\* restartProcess: MarkRestartInProgress, which fails without a request ...
MarkRestartInProgress ==
  /\ pc = "markProgress"
  /\ IF Active = {}
       THEN pc' = "down" /\ rows' = rows
       ELSE pc' = "exec" /\ SetStatus(Latest, "in_progress")
  /\ UNCHANGED <<server, stored, processed, state, cur, lib, requested, update, hist>>

\* ... then the program image is replaced.
Exec ==
  /\ pc = "exec"
  /\ pc' = "start"
  /\ Forget
  /\ UNCHANGED <<server, db, hist>>

---------------------------------------------------------------------------
\* What the process, its library and the service manager do by themselves.
ProcessStep ==
  \/ Start \/ NotifySend \/ CompleteRestart \/ NoRestartPending \/ Cleanup
  \/ ResumeQueue \/ RegisterQueue \/ SaveNewQueue \/ Connect \/ BadQueue
  \/ ClearState \/ Deliver \/ PassOver \/ Dispatch \/ Reply \/ MarkProcessed
  \/ MarkThenAfter \/ AfterResponse \/ DeleteQueue \/ ClearOldQueue
  \/ RegisterReplacement \/ SaveReplacement \/ CreateRestartRequest
  \/ ScheduleRestart \/ SaveCursor \/ InstallUpdate \/ MarkRestartInProgress \/ Exec

\* What may go wrong.
FaultStep ==
  \/ \E q \in QueueIds : Expire(q)
  \/ Crash \/ Shutdown \/ NotifySendFails \/ CompleteRestartFails \/ EventChClosed \/ HandlerFails

Next ==
  \/ \E kind \in Kinds : Post(kind)
  \/ Poll
  \/ PollBad
  \/ OperatorStart
  \/ ProcessStep
  \/ FaultStep

Spec == Init /\ [][Next]_vars

\* The process and its library keep running, and systemd starts the process
\* again after a failure; users, faults and the server's expiry owe nothing.
Fairness == WF_vars(ProcessStep) /\ WF_vars(Poll) /\ WF_vars(PollBad)

FairSpec == Spec /\ Fairness

---------------------------------------------------------------------------
(* Properties.                                                             *)

TypeServer ==
  /\ log \in Seq(AllKinds) /\ Len(log) <= MaxEvents
  /\ qstatus \in [QueueIds -> {"unused", "live", "expired", "deleted"}]
  /\ qstart \in [QueueIds -> 0..MaxEvents]
  /\ qpruned \in [QueueIds -> 0..MaxEvents]
  /\ nq \in 0..MaxQueues

TypeDb ==
  /\ stored \in States
  /\ processed \subseteq Events
  /\ rows \in Seq(Row)

TypeProc ==
  /\ pc \in PCs
  /\ state \in States
  /\ cur \in 0..MaxEvents
  /\ fetched \in 0..MaxEvents
  /\ poll \in {"ok", "bad"}
  /\ requested \in BOOLEAN
  /\ update \in BOOLEAN

TypeHist ==
  /\ faults \in 0..MaxFaults
  /\ attempted \subseteq Events
  /\ marked \subseteq Events
  /\ fires \in [Events -> Nat]

\* Every variable of server, database, process and history has its type.
TypeOK == TypeServer /\ TypeDb /\ TypeProc /\ TypeHist

\* Events of queue q up to n that were given to handleEvent.
Tried(q, n) == \A e \in Events : qstart[q] < e /\ e <= n => e \in attempted

\* The stored cursor never runs ahead of the handling: every event of the
\* stored queue up to the cursor was given to handleEvent, so resuming the
\* queue (ensureQueue, Connect) skips nothing that was not at least tried.
NoSilentSkip == stored.queue # 0 => Tried(stored.queue, stored.last)

\* A message that was recorded in processed_messages is never answered again:
\* not after a crash, a failed callback, a resumed or a new queue, or a cleanup.
AnsweredIsFinal == pc \in {"reply", "mark"} => cur \notin marked

\* The callbacks of one message (restart, update) start at most once ever, so
\* a restart command that is delivered again after the restart does not
\* restart the bot once more.
RestartsOnce == \A e \in Events : fires[e] <= 1

\* While a restart is due, the request of the very message that asked for it
\* is active: MarkRestartInProgress finds one, and not a stale or finished one.
RestartIsRecorded == requested => \E i \in Active : rows[i].msg = cur

\* A planned restart resumes where it stopped: unless the server has dropped
\* the stored queue, it still accepts the stored cursor when the process goes.
PlannedRestartResumes ==
  pc \in Leaving /\ Live(stored.queue) => Resumable(stored)

\* If the database does not fail, no restart request is left over once events
\* are being processed, so no later start announces a restart nobody asked for.
NoStaleRestartRequest == pc = "select" => Active = {}

\* The help texts promise that restart will "Gracefully restart the bot process"
\* and that it is update that will "Fetch the latest release binary": the
\* executable is replaced only by the restart that an update command asked for.
UpdateOnlyWhenAsked == pc = "executeRestart" /\ update => log[cur] \in UpdateKinds

\* handleRestart promises for --new-queue to "clear the current Zulip event
\* queue and register a new one before the process comes back": the queue the
\* next process resumes is then not the one that was deleted.
NewQueueKept ==
  pc \in Leaving /\ stored # NoState => qstatus[stored.queue] # "deleted"

\* Every posted event is eventually tried, or lies before the queue the bot
\* now reads (it was lost with an expired or pruned queue).
EventsSettle ==
  \A e \in Events :
    e <= Len(log) ~> \/ e \in attempted
                     \/ stored # NoState /\ e <= qstart[stored.queue]

\* Every restart request is eventually completed or failed.
RestartsSettle ==
  \A e \in Events :
    (\E i \in Active : rows[i].msg = e) ~> ~(\E i \in Active : rows[i].msg = e)

\* The promise to the users, as an abstract specification.
RestartOf(e) == IF \E i \in DOMAIN rows : rows[i].msg = e
                  THEN rows[CHOOSE i \in DOMAIN rows : rows[i].msg = e].status
                  ELSE "none"

Delivery == INSTANCE CommandDelivery WITH
  Messages <- Events,
  received <- 1..Len(log),
  answered <- marked,
  fires    <- fires,
  restart  <- [e \in Events |-> RestartOf(e)]

\* The bot implements CommandDelivery: each of its steps is a step of it or none.
ImplementsDelivery == Delivery!Spec
===========================================================================
