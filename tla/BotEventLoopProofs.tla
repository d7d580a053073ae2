------------------------ MODULE BotEventLoopProofs ------------------------
(***************************************************************************)
(* Proofs about BotEventLoop, for every number of events, queues and       *)
(* faults, every set of fault kinds and either way the library confirms.   *)
(* The invariant is the conjunction of TypeInv (types and bounds) and of   *)
(* one part per property; every part is proved with frame lemmas that name *)
(* the few actions which change the variables it is about.  The refinement *)
(* of CommandDelivery follows from them.                                   *)
(***************************************************************************)
EXTENDS BotEventLoop, FiniteSetTheorems, SequenceTheorems, WellFoundedInduction, TLAPS

\* Where the numbers that the process, the database and the server keep lie.
StoredBounds ==
  /\ stored.queue <= nq
  /\ stored.queue = 0 => stored = NoState
  /\ stored.queue # 0 => qstart[stored.queue] <= stored.last
  /\ stored.last <= Len(log)

StartBounds == \A q \in QueueIds : qstart[q] <= Len(log)

\* Places where state is a queue that was registered.
HasState == Connected \cup {"saveNew", "connect"}

StateBounds ==
  /\ pc \in HasState =>
       /\ state.queue \in 1..nq
       /\ qstart[state.queue] <= state.last
       /\ state.last <= Len(log)
  /\ pc \in Connected =>
       /\ state.last <= cur
       /\ cur <= fetched
       /\ fetched <= Len(log)
  /\ pc \in Handling => state.last < cur
  /\ pc = "saveReplaced" => nq # 0

Bounds == StoredBounds /\ StartBounds /\ StateBounds

TypeInv == TypeOK /\ Bounds

---------------------------------------------------------------------------
(* Frames: the actions that change a group of variables.                   *)

LEMMA ServerFrame ==
  ASSUME [Next]_vars
  PROVE  \/ UNCHANGED server
         \/ \E kind \in Kinds : Post(kind)
         \/ \E q \in QueueIds : Expire(q)
         \/ Poll \/ RegisterQueue \/ RegisterReplacement \/ DeleteQueue
BY DEF Next, ProcessStep, FaultStep, vars, server,
       PollBad, OperatorStart, Start, NotifySend, CompleteRestart, NoRestartPending,
       Cleanup, ResumeQueue, SaveNewQueue, Connect, BadQueue, ClearState, Deliver,
       PassOver, Dispatch, Reply, MarkProcessed, MarkThenAfter, AfterResponse,
       ClearOldQueue, SaveReplacement, CreateRestartRequest, ScheduleRestart,
       SaveCursor, InstallUpdate, MarkRestartInProgress, Exec, Crash, Shutdown,
       NotifySendFails, CompleteRestartFails, EventChClosed, HandlerFails

LEMMA StoredFrame ==
  ASSUME [Next]_vars
  PROVE  \/ UNCHANGED stored
         \/ SaveNewQueue \/ ClearState \/ ClearOldQueue \/ SaveReplacement \/ SaveCursor
BY DEF Next, ProcessStep, FaultStep, vars, db, Post, Expire, Poll,
       PollBad, OperatorStart, Start, NotifySend, CompleteRestart, NoRestartPending,
       Cleanup, ResumeQueue, RegisterQueue, Connect, BadQueue, Deliver,
       PassOver, Dispatch, Reply, MarkProcessed, MarkThenAfter, AfterResponse,
       DeleteQueue, RegisterReplacement, CreateRestartRequest, ScheduleRestart,
       InstallUpdate, MarkRestartInProgress, Exec, Crash, Shutdown,
       NotifySendFails, CompleteRestartFails, EventChClosed, HandlerFails

LEMMA RowsFrame ==
  ASSUME [Next]_vars
  PROVE  \/ UNCHANGED rows
         \/ CreateRestartRequest \/ CompleteRestart \/ NotifySendFails
         \/ MarkRestartInProgress
BY DEF Next, ProcessStep, FaultStep, vars, db, Post, Expire, Poll,
       PollBad, OperatorStart, Start, NotifySend, NoRestartPending,
       Cleanup, ResumeQueue, RegisterQueue, SaveNewQueue, Connect, BadQueue,
       ClearState, Deliver, PassOver, Dispatch, Reply, MarkProcessed, MarkThenAfter,
       AfterResponse, DeleteQueue, ClearOldQueue, RegisterReplacement,
       SaveReplacement, ScheduleRestart, SaveCursor, InstallUpdate, Exec, Crash, Shutdown,
       CompleteRestartFails, EventChClosed, HandlerFails

LEMMA ProcessedFrame ==
  ASSUME [Next]_vars
  PROVE  \/ UNCHANGED <<processed, marked>>
         \/ Cleanup \/ MarkProcessed \/ MarkThenAfter
BY DEF Next, ProcessStep, FaultStep, vars, db, hist, Post, Expire, Poll,
       PollBad, OperatorStart, Start, NotifySend, CompleteRestart, NoRestartPending,
       ResumeQueue, RegisterQueue, SaveNewQueue, Connect, BadQueue, ClearState,
       Deliver, PassOver, Dispatch, Reply, AfterResponse, DeleteQueue,
       ClearOldQueue, RegisterReplacement, SaveReplacement, CreateRestartRequest,
       ScheduleRestart, SaveCursor, InstallUpdate, MarkRestartInProgress, Exec, Crash, Shutdown,
       NotifySendFails, CompleteRestartFails, EventChClosed, HandlerFails

LEMMA AttemptedFrame ==
  ASSUME [Next]_vars
  PROVE  UNCHANGED attempted \/ Deliver
BY DEF Next, ProcessStep, FaultStep, vars, hist, Post, Expire, Poll,
       PollBad, OperatorStart, Start, NotifySend, CompleteRestart, NoRestartPending,
       Cleanup, ResumeQueue, RegisterQueue, SaveNewQueue, Connect, BadQueue,
       ClearState, PassOver, Dispatch, Reply, MarkProcessed, MarkThenAfter,
       AfterResponse, DeleteQueue, ClearOldQueue, RegisterReplacement,
       SaveReplacement, CreateRestartRequest, ScheduleRestart, SaveCursor,
       InstallUpdate, MarkRestartInProgress, Exec, Crash, Shutdown,
       NotifySendFails, CompleteRestartFails, EventChClosed, HandlerFails

LEMMA FiresFrame ==
  ASSUME [Next]_vars
  PROVE  UNCHANGED fires \/ AfterResponse
BY DEF Next, ProcessStep, FaultStep, vars, hist, Post, Expire, Poll,
       PollBad, OperatorStart, Start, NotifySend, CompleteRestart, NoRestartPending,
       Cleanup, ResumeQueue, RegisterQueue, SaveNewQueue, Connect, BadQueue,
       ClearState, Deliver, PassOver, Dispatch, Reply, MarkProcessed, MarkThenAfter,
       DeleteQueue, ClearOldQueue, RegisterReplacement, SaveReplacement,
       CreateRestartRequest, ScheduleRestart, SaveCursor, InstallUpdate,
       MarkRestartInProgress, Exec, Crash, Shutdown,
       NotifySendFails, CompleteRestartFails, EventChClosed, HandlerFails

\* The process forgets everything in memory when it ends.
Ends == Start \/ Exec \/ Crash \/ Shutdown \/ EventChClosed

\* A step that leaves the process's numbers alone and enters none of the places
\* the bounds are about.
Quiet ==
  /\ UNCHANGED <<state, cur, fetched>>
  /\ pc' \in {"saveNew", "connect"} => pc \in {"saveNew", "connect"}
  /\ pc' \in Connected => pc \in Connected
  /\ pc' \in Handling => pc \in Handling
  /\ pc' = "saveReplaced" => pc = "saveReplaced" \/ RegisterReplacement
  /\ pc' \in {"reply", "mark"} => pc \in {"reply", "mark"} \/ Dispatch

LEMMA StateFrame ==
  ASSUME [Next]_vars
  PROVE  \/ Quiet
         \/ Poll \/ ResumeQueue \/ RegisterQueue \/ Connect \/ Deliver
         \/ PassOver \/ MarkProcessed \/ ScheduleRestart \/ Ends
BY DEF Next, ProcessStep, FaultStep, vars, proc, lib, hist, Ends, Quiet, Post, Expire,
       PollBad, OperatorStart, NotifySend, CompleteRestart, NoRestartPending,
       Cleanup, SaveNewQueue, BadQueue, ClearState, Dispatch, Reply, MarkThenAfter,
       AfterResponse, DeleteQueue, ClearOldQueue, RegisterReplacement,
       SaveReplacement, CreateRestartRequest, SaveCursor, InstallUpdate,
       MarkRestartInProgress, NotifySendFails, CompleteRestartFails, HandlerFails,
       HasState, Connected, Handling

LEMMA EndsFacts ==
  ASSUME Ends
  PROVE  /\ state' = NoState /\ cur' = 0 /\ fetched' = 0 /\ requested' = FALSE
         /\ pc' \in {"start", "down", "stopped"}
         /\ UNCHANGED <<server, db, attempted, marked, fires>>
BY DEF Ends, Start, Exec, Crash, Shutdown, EventChClosed, Forget, server, db, hist

---------------------------------------------------------------------------
(* Types and bounds.                                                       *)

LEMMA InitType == Init => TypeInv
<1> SUFFICES ASSUME Init PROVE TypeInv
  OBVIOUS
<1> USE BoundsAssumption
<1>1. TypeServer
  BY DEF Init, TypeServer, QueueIds
<1>2. TypeDb
  BY DEF Init, TypeDb, NoState, States
<1>3. TypeProc
  <2>1. state \in States
    BY DEF Init, NoState, States
  <2>2. pc \in PCs
    BY DEF Init, PCs
  <2>3. cur \in 0..MaxEvents /\ fetched \in 0..MaxEvents
    BY DEF Init
  <2>4. poll \in {"ok", "bad"} /\ requested \in BOOLEAN /\ update \in BOOLEAN
    BY DEF Init
  <2>5. QED
    BY <2>1, <2>2, <2>3, <2>4 DEF TypeProc
<1>4. TypeHist
  BY DEF Init, TypeHist, Events
<1>5. StoredBounds
  BY DEF Init, StoredBounds, NoState
<1>6. StateBounds
  BY DEF Init, StateBounds, HasState, Connected, Handling
<1>7. StartBounds
  BY DEF Init, StartBounds
<1>8. QED
  BY <1>1, <1>2, <1>3, <1>4, <1>5, <1>6, <1>7 DEF TypeInv, TypeOK, Bounds

LEMMA StepTypeServer == ASSUME TypeInv, [Next]_vars PROVE TypeServer'
<1> USE BoundsAssumption
<1>0. TypeServer /\ fetched \in 0..MaxEvents
  BY DEF TypeInv, TypeOK, TypeProc
<1>1. CASE UNCHANGED server
  BY <1>0, <1>1 DEF TypeServer, server, queues
<1>2. ASSUME NEW kind \in Kinds, Post(kind) PROVE TypeServer'
  BY <1>0, <1>2, KindsAssumption DEF TypeServer, Post, queues
<1>3. ASSUME NEW q \in QueueIds, Expire(q) PROVE TypeServer'
  BY <1>0, <1>3 DEF TypeServer, Expire
<1>4. CASE Poll
  BY <1>0, <1>4 DEF TypeServer, Poll
<1>5. ASSUME Register, UNCHANGED log PROVE TypeServer'
  <2>1. Len(log) \in 0..MaxEvents
    BY <1>0 DEF TypeServer
  <2>2. nq' \in 0..MaxQueues
    BY <1>0, <1>5 DEF TypeServer, Register
  <2>3. qstatus' \in [QueueIds -> {"unused", "live", "expired", "deleted"}]
    BY <1>0, <1>5 DEF TypeServer, Register
  <2>4. /\ qstart' \in [QueueIds -> 0..MaxEvents]
        /\ qpruned' \in [QueueIds -> 0..MaxEvents]
    BY <1>0, <1>5, <2>1 DEF TypeServer, Register
  <2>5. QED
    BY <1>0, <1>5, <2>2, <2>3, <2>4 DEF TypeServer
<1>6. CASE RegisterQueue
  BY <1>5, <1>6 DEF RegisterQueue
<1>7. CASE RegisterReplacement
  BY <1>5, <1>7 DEF RegisterReplacement
<1>8. CASE DeleteQueue
  BY <1>0, <1>8 DEF TypeServer, DeleteQueue
<1>9. QED
  BY <1>1, <1>2, <1>3, <1>4, <1>6, <1>7, <1>8, ServerFrame

\* Updating the status of a row leaves a table of the same rows.
LEMMA SetStatusType ==
  ASSUME rows \in Seq(Row), NEW id, NEW status \in Statuses, SetStatus(id, status)
  PROVE  /\ rows' \in Seq(Row)
         /\ DOMAIN rows' = DOMAIN rows
         /\ \A i \in DOMAIN rows :
              /\ rows'[i].msg = rows[i].msg
              /\ rows'[i].status = IF i = id THEN status ELSE rows[i].status
<1>1. rows \in [1..Len(rows) -> Row] /\ Len(rows) \in Nat
  OBVIOUS
<1>2. rows' = [i \in 1..Len(rows) |->
                 IF i = id THEN [rows[i] EXCEPT !.status = status] ELSE rows[i]]
  BY <1>1 DEF SetStatus
<1>3. \A i \in 1..Len(rows) : rows'[i] \in Row
  BY <1>1, <1>2 DEF Row
<1>4. rows' \in [1..Len(rows) -> Row]
  BY <1>2, <1>3
<1>5. rows' \in Seq(Row)
  BY <1>1, <1>4, SeqDef
<1>6. \A i \in 1..Len(rows) :
        /\ rows'[i].msg = rows[i].msg
        /\ rows'[i].status = IF i = id THEN status ELSE rows[i].status
  BY <1>1, <1>2 DEF Row
<1>7. QED
  BY <1>1, <1>4, <1>5, <1>6

LEMMA StepRows == ASSUME TypeInv, [Next]_vars PROVE rows' \in Seq(Row)
<1>0. rows \in Seq(Row) /\ cur \in 0..MaxEvents
  BY DEF TypeInv, TypeOK, TypeDb, TypeProc
<1>1. CASE UNCHANGED rows
  BY <1>0, <1>1
<1>2. CASE CreateRestartRequest
  <2>1. cur \in Events
    BY <1>0, <1>2, BoundsAssumption
    DEF CreateRestartRequest, TypeInv, TypeOK, TypeProc, States, Bounds, StateBounds,
        Handling, Connected, HasState, Events
  <2>2. [msg |-> cur, status |-> "requested"] \in Row
    BY <2>1 DEF Row, Statuses
  <2>3. QED
    BY <1>0, <1>2, <2>2 DEF CreateRestartRequest
<1>3. CASE CompleteRestart
  BY <1>0, <1>3, SetStatusType DEF CompleteRestart, Statuses
<1>4. CASE NotifySendFails
  BY <1>0, <1>4, SetStatusType DEF NotifySendFails, Statuses
<1>5. CASE MarkRestartInProgress
  BY <1>0, <1>5, SetStatusType DEF MarkRestartInProgress, Statuses
<1>6. QED
  BY <1>1, <1>2, <1>3, <1>4, <1>5, RowsFrame

LEMMA StepStored == ASSUME TypeInv, [Next]_vars PROVE stored' \in States
<1>0. stored \in States /\ state \in States
  BY DEF TypeInv, TypeOK, TypeDb, TypeProc
<1>1. NoState \in States
  BY BoundsAssumption DEF NoState, States
<1>2. CASE SaveReplacement
  <2>1. nq \in 1..MaxQueues
    BY <1>2, BoundsAssumption
    DEF SaveReplacement, TypeInv, TypeOK, TypeServer, Bounds, StateBounds
  <2>2. qstart[nq] \in 0..MaxEvents
    BY <2>1 DEF TypeInv, TypeOK, TypeServer, QueueIds
  <2>3. QED
    BY <1>2, <2>1, <2>2 DEF SaveReplacement, States
<1>3. CASE ~SaveReplacement
  BY <1>0, <1>1, <1>3, StoredFrame
  DEF SaveNewQueue, ClearState, ClearOldQueue, SaveCursor
<1>4. QED
  BY <1>2, <1>3

\* The event at hand is one that was posted.
LEMMA CurIsEvent ==
  ASSUME TypeInv, pc \in Handling
  PROVE  cur \in Events /\ cur <= Len(log) /\ state.last < cur
BY BoundsAssumption
DEF TypeInv, TypeOK, TypeServer, TypeProc, States, Bounds, StateBounds, Connected,
    HasState, Events

LEMMA StepProcessed ==
  ASSUME TypeInv, [Next]_vars
  PROVE  processed' \subseteq Events /\ marked' \subseteq Events
<1>0. processed \subseteq Events /\ marked \subseteq Events
  BY DEF TypeInv, TypeOK, TypeDb, TypeHist
<1>1. CASE UNCHANGED <<processed, marked>>
  BY <1>0, <1>1
<1>2. CASE Cleanup
  BY <1>0, <1>2 DEF Cleanup, hist
<1>3. CASE MarkProcessed \/ MarkThenAfter
  <2>1. cur \in Events
    BY <1>3, CurIsEvent DEF MarkProcessed, MarkThenAfter, Handling
  <2>2. QED
    BY <1>0, <1>3, <2>1 DEF MarkProcessed, MarkThenAfter
<1>4. QED
  BY <1>1, <1>2, <1>3, ProcessedFrame

LEMMA StepTypeProc == ASSUME TypeInv, [Next]_vars PROVE TypeProc'
<1>0. /\ TypeProc
      /\ stored \in States
      /\ Len(log) \in 0..MaxEvents
      /\ nq \in 0..MaxQueues
  BY DEF TypeInv, TypeOK, TypeServer, TypeDb
<1>1. pc' \in PCs
  BY <1>0 DEF TypeProc, Next, ProcessStep, FaultStep, vars, proc, lib, Post, Expire, Poll,
       PollBad, OperatorStart, Start, NotifySend, CompleteRestart, NoRestartPending,
       Cleanup, ResumeQueue, RegisterQueue, SaveNewQueue, Connect, BadQueue,
       ClearState, Deliver, PassOver, Dispatch, Reply, MarkProcessed, MarkThenAfter,
       AfterResponse, DeleteQueue, ClearOldQueue, RegisterReplacement,
       SaveReplacement, CreateRestartRequest, ScheduleRestart, SaveCursor,
       InstallUpdate, MarkRestartInProgress, Exec, Crash, Shutdown, NotifySendFails,
       CompleteRestartFails, EventChClosed, HandlerFails,
       PCs, Connected, Handling, Startup, Leaving
<1>2. /\ poll' \in {"ok", "bad"}
      /\ requested' \in BOOLEAN
      /\ update' \in BOOLEAN
  BY <1>0 DEF TypeProc, Next, ProcessStep, FaultStep, vars, proc, lib, Forget, Post,
       Expire, Poll, PollBad, OperatorStart, Start, NotifySend, CompleteRestart,
       NoRestartPending, Cleanup, ResumeQueue, RegisterQueue, SaveNewQueue, Connect,
       BadQueue, ClearState, Deliver, PassOver, Dispatch, Reply, MarkProcessed,
       MarkThenAfter, AfterResponse, DeleteQueue, ClearOldQueue, RegisterReplacement,
       SaveReplacement, CreateRestartRequest, ScheduleRestart, SaveCursor,
       InstallUpdate, MarkRestartInProgress, Exec, Crash, Shutdown, NotifySendFails,
       CompleteRestartFails, EventChClosed, HandlerFails
<1>3. state' \in States /\ cur' \in 0..MaxEvents /\ fetched' \in 0..MaxEvents
  <2>1. CASE Quiet
    BY <1>0, <2>1 DEF Quiet, TypeProc
  <2>2. CASE Ends
    BY <2>2, EndsFacts, BoundsAssumption DEF NoState, States
  <2>3. CASE Poll
    BY <1>0, <2>3 DEF Poll, TypeProc
  <2>4. CASE ResumeQueue
    BY <1>0, <2>4 DEF ResumeQueue, TypeProc, lib
  <2>5. CASE RegisterQueue
    BY <1>0, <2>5, BoundsAssumption DEF RegisterQueue, Register, TypeProc, lib, States
  <2>6. CASE Connect
    BY <1>0, <2>6 DEF Connect, TypeProc, States
  <2>7. CASE Deliver
    BY <1>0, <2>7, BoundsAssumption DEF Deliver, TypeProc, lib
  <2>8. CASE PassOver \/ MarkProcessed \/ ScheduleRestart
    <3>1. /\ state' = [state EXCEPT !.last = cur]
          /\ UNCHANGED <<cur, fetched>>
      BY <2>8 DEF PassOver, MarkProcessed, ScheduleRestart, Advance, lib
    <3>2. QED
      BY <1>0, <3>1 DEF TypeProc, States
  <2>9. QED
    BY <2>1, <2>2, <2>3, <2>4, <2>5, <2>6, <2>7, <2>8, StateFrame
<1>4. QED
  BY <1>1, <1>2, <1>3 DEF TypeProc

LEMMA StepTypeHist == ASSUME TypeInv, [Next]_vars PROVE TypeHist'
<1>0. TypeHist /\ TypeProc
  BY DEF TypeInv, TypeOK
<1>1. faults' \in 0..MaxFaults
  BY <1>0, BoundsAssumption
  DEF TypeHist, Next, ProcessStep, FaultStep, vars, hist, Fault, Post, Expire, Poll,
       PollBad, OperatorStart, Start, NotifySend, CompleteRestart, NoRestartPending,
       Cleanup, ResumeQueue, RegisterQueue, SaveNewQueue, Connect, BadQueue,
       ClearState, Deliver, PassOver, Dispatch, Reply, MarkProcessed, MarkThenAfter,
       AfterResponse, DeleteQueue, ClearOldQueue, RegisterReplacement,
       SaveReplacement, CreateRestartRequest, ScheduleRestart, SaveCursor,
       InstallUpdate, MarkRestartInProgress, Exec, Crash, Shutdown, NotifySendFails,
       CompleteRestartFails, EventChClosed, HandlerFails
<1>2. attempted' \subseteq Events
  <2>1. CASE UNCHANGED attempted
    BY <1>0, <2>1 DEF TypeHist
  <2>2. CASE Deliver
    <3>1. cur + 1 \in Events
      BY <1>0, <2>2, BoundsAssumption DEF TypeProc, Deliver, Events
    <3>2. QED
      BY <1>0, <2>2, <3>1 DEF TypeHist, Deliver
  <2>3. QED
    BY <2>1, <2>2, AttemptedFrame
<1>3. fires' \in [Events -> Nat]
  BY <1>0, FiresFrame DEF TypeHist, AfterResponse
<1>4. QED
  BY <1>1, <1>2, <1>3, StepProcessed DEF TypeHist

LEMMA StepTypeOK == ASSUME TypeInv, [Next]_vars PROVE TypeOK'
BY StepTypeServer, StepStored, StepRows, StepProcessed, StepTypeProc, StepTypeHist
DEF TypeOK, TypeDb

\* The log and the queues only grow, and a queue's start never changes.
LEMMA ServerGrows ==
  ASSUME TypeServer, fetched \in 0..MaxEvents, [Next]_vars
  PROVE  /\ Len(log) <= Len(log')
         /\ nq <= nq'
         /\ \A q \in QueueIds : q <= nq => qstart'[q] = qstart[q]
<1> USE BoundsAssumption
<1>1. CASE UNCHANGED server
  BY <1>1 DEF TypeServer, server, queues
<1>2. ASSUME NEW kind \in Kinds, Post(kind) PROVE Len(log') = Len(log) + 1 /\ UNCHANGED <<nq, qstart>>
  BY <1>2, KindsAssumption DEF TypeServer, Post, queues
<1>3. CASE Poll \/ DeleteQueue \/ \E q \in QueueIds : Expire(q)
  BY <1>3 DEF TypeServer, Poll, DeleteQueue, Expire
<1>4. CASE RegisterQueue \/ RegisterReplacement
  <2>1. Register /\ UNCHANGED log
    BY <1>4 DEF RegisterQueue, RegisterReplacement
  <2>2. \A q \in QueueIds : q <= nq => qstart'[q] = qstart[q]
    BY <2>1 DEF Register, TypeServer, QueueIds
  <2>3. QED
    BY <2>1, <2>2 DEF Register, TypeServer
<1>5. QED
  BY <1>1, <1>2, <1>3, <1>4, ServerFrame DEF TypeServer

LEMMA StepStartBounds == ASSUME TypeInv, [Next]_vars PROVE StartBounds'
<1> USE BoundsAssumption
<1>0. TypeServer /\ fetched \in 0..MaxEvents /\ StartBounds
  BY DEF TypeInv, TypeOK, TypeProc, Bounds
<1>1. Len(log) <= Len(log') /\ Len(log') \in Nat /\ Len(log) \in Nat
  BY <1>0, ServerGrows, StepTypeServer DEF TypeServer
<1>2. CASE UNCHANGED qstart
  BY <1>0, <1>1, <1>2 DEF StartBounds, TypeServer
<1>3. CASE Register /\ UNCHANGED log
  BY <1>0, <1>1, <1>3 DEF StartBounds, TypeServer, Register, QueueIds
<1>4. QED
  BY <1>2, <1>3, ServerFrame
  DEF server, queues, Post, Poll, DeleteQueue, Expire, RegisterQueue, RegisterReplacement

LEMMA StepStoredBounds == ASSUME TypeInv, [Next]_vars PROVE StoredBounds'
<1> USE BoundsAssumption
<1>0. TypeServer /\ fetched \in 0..MaxEvents /\ stored \in States /\ Bounds
  BY DEF TypeInv, TypeOK, TypeProc, TypeDb
<1>1. CASE UNCHANGED stored
  <2>1. TypeServer'
    BY StepTypeServer
  <2>2. stored.queue # 0 => stored.queue \in QueueIds /\ stored.queue <= nq
    BY <1>0 DEF States, QueueIds, Bounds, StoredBounds
  <2>3. QED
    BY <1>0, <1>1, <2>1, <2>2, ServerGrows DEF TypeServer, Bounds, StoredBounds, States
<1>2. CASE SaveNewQueue \/ SaveCursor
  <2>1. pc \in HasState /\ stored' = state /\ UNCHANGED server
    BY <1>2 DEF SaveNewQueue, SaveCursor, HasState, Connected
  <2>2. QED
    BY <1>0, <2>1 DEF TypeServer, Bounds, StoredBounds, StateBounds, server, queues
<1>3. CASE ClearState \/ ClearOldQueue
  <2>1. stored' = NoState /\ UNCHANGED server
    BY <1>3 DEF ClearState, ClearOldQueue
  <2>2. QED
    BY <1>0, <2>1 DEF TypeServer, StoredBounds, NoState, server, queues
<1>4. CASE SaveReplacement
  <2>1. nq \in QueueIds /\ pc = "saveReplaced"
    BY <1>0, <1>4 DEF SaveReplacement, Bounds, StateBounds, TypeServer, QueueIds
  <2>2. qstart[nq] <= Len(log) /\ qstart[nq] \in Nat
    BY <1>0, <2>1 DEF Bounds, StartBounds, TypeServer
  <2>3. QED
    BY <1>0, <1>4, <2>1, <2>2
    DEF SaveReplacement, StoredBounds, TypeServer, QueueIds, server, queues
<1>5. QED
  BY <1>1, <1>2, <1>3, <1>4, StoredFrame

LEMMA StepStateBounds == ASSUME TypeInv, [Next]_vars PROVE StateBounds'
<1> USE BoundsAssumption
<1>0. TypeServer /\ TypeServer' /\ TypeProc /\ stored \in States /\ Bounds
  BY StepTypeServer DEF TypeInv, TypeOK, TypeDb
<1>g. /\ Len(log) <= Len(log')
      /\ nq <= nq'
      /\ \A q \in QueueIds : q <= nq => qstart'[q] = qstart[q]
  BY <1>0, ServerGrows DEF TypeProc
<1>s. pc \in HasState => state.queue \in QueueIds /\ state.queue <= nq
  BY <1>0 DEF Bounds, StateBounds, TypeServer, QueueIds
<1> DEFINE Kept == /\ state.queue \in 1..nq'
                   /\ qstart'[state.queue] <= state.last
                   /\ state.last <= Len(log')
<1>k. pc \in HasState => Kept
  <2>1. HAVE pc \in HasState
  <2>2. state.queue \in 1..nq /\ qstart[state.queue] <= state.last /\ state.last <= Len(log)
    BY <1>0, <2>1 DEF Bounds, StateBounds
  <2>3. qstart'[state.queue] = qstart[state.queue]
    BY <1>g, <1>s, <2>1
  <2>4. nq \in Nat /\ nq' \in Nat /\ state.last \in Nat /\ Len(log) \in Nat /\ Len(log') \in Nat
    BY <1>0 DEF TypeServer, TypeProc, States
  <2>5. QED
    BY <1>g, <2>2, <2>3, <2>4
<1>n. /\ Len(log) \in Nat /\ Len(log') \in Nat
      /\ state.last \in Nat /\ cur \in Nat /\ fetched \in Nat
  BY <1>0 DEF TypeServer, TypeProc, States
<1>1. CASE Quiet
  <2>1. pc' = "saveReplaced" => nq' # 0
    BY <1>0, <1>1, <1>g DEF Quiet, Bounds, StateBounds, RegisterReplacement, Register, TypeServer
  <2>2. pc' \in HasState => pc \in HasState
    BY <1>1 DEF Quiet, HasState
  <2>3. QED
    BY <1>0, <1>1, <1>k, <1>n, <1>g, <2>1, <2>2 DEF Quiet, Bounds, StateBounds
<1>2. CASE Poll
  <2>1. pc' = pc /\ pc \in Connected /\ fetched' = Len(log) /\ UNCHANGED <<log, nq, state, cur>>
    BY <1>2 DEF Poll
  <2>2. QED
    BY <1>0, <1>k, <1>n, <2>1 DEF HasState, Bounds, StateBounds
<1>3. CASE ResumeQueue
  <2>1. pc' = "connect" /\ state' = stored /\ stored.queue # 0 /\ UNCHANGED server
    BY <1>0, <1>3 DEF ResumeQueue, Bounds, StoredBounds
  <2>2. QED
    BY <1>0, <2>1 DEF Bounds, StoredBounds, StateBounds, HasState, Connected, Handling,
                      server, queues, States, TypeServer
<1>4. CASE RegisterQueue
  <2>1. /\ pc' = "saveNew" /\ state' = [queue |-> nq + 1, last |-> Len(log)]
        /\ nq' = nq + 1 /\ nq + 1 \in QueueIds /\ qstart'[nq + 1] = Len(log)
        /\ UNCHANGED log
    BY <1>0, <1>4 DEF RegisterQueue, Register, TypeServer, QueueIds
  <2>2. QED
    BY <1>0, <1>n, <2>1 DEF StateBounds, HasState, Connected, Handling, TypeServer
<1>5. CASE Connect
  <2>1. /\ pc = "connect" /\ pc' = "select" /\ cur' = state.last /\ fetched' = state.last
        /\ UNCHANGED state
    BY <1>5 DEF Connect
  <2>2. QED
    BY <1>k, <1>n, <2>1 DEF StateBounds, HasState, Connected, Handling
<1>6. CASE Deliver
  <2>1. /\ pc = "select" /\ pc' = "handle" /\ cur < fetched /\ cur' = cur + 1
        /\ UNCHANGED <<state, fetched>>
    BY <1>6 DEF Deliver, lib
  <2>2. state.last <= cur /\ fetched <= Len(log)
    BY <1>0, <2>1 DEF Bounds, StateBounds, Connected
  <2>3. QED
    BY <1>k, <1>n, <1>g, <2>1, <2>2 DEF StateBounds, HasState, Connected, Handling
<1>7. CASE PassOver \/ MarkProcessed \/ ScheduleRestart
  <2>1. /\ pc \in Handling /\ pc' = "save" /\ state' = [state EXCEPT !.last = cur]
        /\ UNCHANGED <<cur, fetched>>
    BY <1>7 DEF PassOver, MarkProcessed, ScheduleRestart, Advance, lib, Handling
  <2>2. state.last < cur /\ cur <= fetched /\ fetched <= Len(log)
    BY <1>0, <2>1 DEF Bounds, StateBounds, Connected
  <2>3. state'.queue = state.queue /\ state'.last = cur
    BY <1>0, <2>1 DEF TypeProc, States
  <2>4. qstart'[state.queue] \in Nat
    BY <1>0, <1>s, <2>1 DEF TypeServer, HasState, Connected
  <2>5. QED
    BY <1>k, <1>n, <1>g, <2>1, <2>2, <2>3, <2>4
    DEF StateBounds, HasState, Connected, Handling
<1>8. CASE Ends
  BY <1>8, EndsFacts DEF StateBounds, HasState, Connected, Handling
<1>9. QED
  BY <1>1, <1>2, <1>3, <1>4, <1>5, <1>6, <1>7, <1>8, StateFrame

LEMMA StepTypeInv == TypeInv /\ [Next]_vars => TypeInv'
BY StepTypeOK, StepStoredBounds, StepStartBounds, StepStateBounds DEF TypeInv, Bounds

\* The types hold in every reachable state: the cursors and the ids the process,
\* the database and the client library keep stay within the log and the queues.
THEOREM TypeCorrect == Spec => []TypeOK
<1>1. TypeInv => TypeOK
  BY DEF TypeInv
<1>2. QED
  BY <1>1, InitType, StepTypeInv, PTL DEF Spec

---------------------------------------------------------------------------
(* No event is skipped in silence.                                         *)

\* Everything that a queue held up to a cursor was tried: for the stored cursor,
\* for the cursor to connect with, and for the event in hand.  The last is what
\* makes the first inductive, since a save stores the cursor of the process.
SkipInv ==
  /\ stored.queue # 0 => Tried(stored.queue, stored.last)
  /\ pc \in {"saveNew", "connect"} => Tried(state.queue, state.last)
  /\ pc \in Connected => Tried(state.queue, cur)

\* The events a queue held stay tried.
LEMMA TriedKept ==
  ASSUME TypeInv, [Next]_vars,
         NEW q \in QueueIds, q <= nq, NEW n, Tried(q, n)
  PROVE  Tried(q, n)'
<1>1. attempted \subseteq attempted'
  BY AttemptedFrame DEF Deliver
<1>2. qstart'[q] = qstart[q]
  BY ServerGrows DEF TypeInv, TypeOK, TypeProc
<1>3. QED
  BY <1>1, <1>2 DEF Tried

LEMMA TriedUpTo ==
  ASSUME NEW q, NEW n \in Nat, NEW m \in Nat, m <= n, Tried(q, n)
  PROVE  Tried(q, m)
BY BoundsAssumption DEF Tried, Events

LEMMA InitSkip == Init => SkipInv
BY DEF Init, SkipInv, NoState, Connected, Handling

LEMMA StepSkipStored == ASSUME TypeInv, SkipInv, [Next]_vars
                        PROVE  stored'.queue # 0 => Tried(stored.queue, stored.last)'
<1>0. TypeServer /\ TypeProc /\ stored \in States /\ Bounds
  BY DEF TypeInv, TypeOK, TypeDb
<1>1. CASE UNCHANGED stored
  <2>1. stored.queue # 0 => stored.queue \in QueueIds /\ stored.queue <= nq
    BY <1>0 DEF States, QueueIds, Bounds, StoredBounds
  <2>2. stored.queue # 0 => \A e \in Events :
          qstart'[stored.queue] < e /\ e <= stored.last => e \in attempted'
    BY <2>1, TriedKept DEF SkipInv, Tried
  <2>3. QED
    BY <1>1, <2>2 DEF Tried
<1>2. CASE SaveNewQueue \/ SaveCursor
  <2>1. /\ pc \in {"saveNew", "save"} /\ stored' = state
        /\ UNCHANGED <<qstart, attempted>>
    BY <1>2 DEF SaveNewQueue, SaveCursor, server, queues, hist
  <2>2. Tried(state.queue, state.last)
    <3>1. CASE pc = "saveNew"
      BY <3>1 DEF SkipInv
    <3>2. CASE pc = "save"
      <4>1. Tried(state.queue, cur) /\ state.last <= cur
        BY <1>0, <3>2 DEF SkipInv, Bounds, StateBounds, Connected
      <4>2. state.last \in Nat /\ cur \in Nat
        BY <1>0 DEF TypeProc, States
      <4>3. QED
        BY <4>1, <4>2, TriedUpTo
    <3>3. QED
      BY <2>1, <3>1, <3>2
  <2>3. QED
    BY <2>1, <2>2 DEF Tried
<1>3. CASE ClearState \/ ClearOldQueue
  BY <1>3 DEF ClearState, ClearOldQueue, NoState
<1>4. CASE SaveReplacement
  <2>1. /\ stored' = [queue |-> nq, last |-> qstart[nq]]
        /\ UNCHANGED <<qstart, attempted>>
    BY <1>4 DEF SaveReplacement, server, queues, hist
  <2>2. nq # 0 => qstart[nq] \in Nat
    BY <1>0 DEF TypeServer, QueueIds
  <2>3. QED
    BY <2>1, <2>2, BoundsAssumption DEF Tried, Events
<1>5. QED
  BY <1>1, <1>2, <1>3, <1>4, StoredFrame

LEMMA StepSkipState ==
  ASSUME TypeInv, SkipInv, [Next]_vars
  PROVE  /\ pc' \in {"saveNew", "connect"} => Tried(state.queue, state.last)'
         /\ pc' \in Connected => Tried(state.queue, cur)'
<1>0. TypeServer /\ TypeProc /\ stored \in States /\ Bounds
  BY DEF TypeInv, TypeOK, TypeDb
<1>n. state.last \in Nat /\ cur \in Nat
  BY <1>0 DEF TypeProc, States
<1>q. pc \in HasState => state.queue \in QueueIds /\ state.queue <= nq
  BY <1>0, BoundsAssumption DEF Bounds, StateBounds, TypeServer, QueueIds
<1>l. pc \in {"saveNew", "connect"} => \A e \in Events :
        qstart'[state.queue] < e /\ e <= state.last => e \in attempted'
  BY <1>q, <1>n, TriedKept DEF SkipInv, Tried, HasState
<1>c. pc \in Connected => \A e \in Events :
        qstart'[state.queue] < e /\ e <= cur => e \in attempted'
  BY <1>q, <1>n, TriedKept DEF SkipInv, Tried, HasState
<1>1. CASE Quiet
  BY <1>1, <1>l, <1>c DEF Quiet, Tried
<1>2. CASE Poll
  BY <1>2, <1>l, <1>c DEF Poll, Tried
<1>3. CASE ResumeQueue
  <2>1. /\ pc' = "connect" /\ state' = stored /\ stored.queue # 0
        /\ UNCHANGED <<qstart, attempted>>
    BY <1>0, <1>3 DEF ResumeQueue, Bounds, StoredBounds, server, queues, hist
  <2>2. QED
    BY <2>1 DEF SkipInv, Tried, Connected, Handling
<1>4. CASE RegisterQueue
  <2>1. /\ pc' = "saveNew" /\ state' = [queue |-> nq + 1, last |-> Len(log)]
        /\ nq + 1 \in QueueIds /\ qstart'[nq + 1] = Len(log)
    BY <1>0, <1>4, BoundsAssumption DEF RegisterQueue, Register, TypeServer, QueueIds
  <2>2. Len(log) \in Nat
    BY <1>0 DEF TypeServer
  <2>3. QED
    BY <2>1, <2>2, BoundsAssumption DEF Tried, Events, Connected, Handling
<1>5. CASE Connect
  <2>1. /\ pc = "connect" /\ pc' = "select" /\ cur' = state.last
        /\ UNCHANGED state
    BY <1>5 DEF Connect
  <2>2. QED
    BY <1>l, <2>1 DEF Tried
<1>6. CASE Deliver
  <2>1. /\ pc = "select" /\ pc' = "handle" /\ cur' = cur + 1
        /\ attempted' = attempted \cup {cur + 1} /\ UNCHANGED state
    BY <1>6 DEF Deliver
  <2>2. \A e \in Events : e <= cur + 1 => e <= cur \/ e = cur + 1
    BY <1>n, BoundsAssumption DEF Events
  <2>3. QED
    BY <1>c, <2>1, <2>2 DEF Tried, Connected
<1>7. CASE PassOver \/ MarkProcessed \/ ScheduleRestart
  <2>1. /\ pc \in Connected /\ pc' = "save" /\ state' = [state EXCEPT !.last = cur]
        /\ UNCHANGED cur
    BY <1>7 DEF PassOver, MarkProcessed, ScheduleRestart, Advance, Connected, Handling
  <2>2. state'.queue = state.queue
    BY <1>0, <2>1 DEF TypeProc, States
  <2>3. QED
    BY <1>c, <2>1, <2>2 DEF Tried
<1>8. CASE Ends
  BY <1>8, EndsFacts DEF Connected, Handling
<1>9. QED
  BY <1>1, <1>2, <1>3, <1>4, <1>5, <1>6, <1>7, <1>8, StateFrame

LEMMA StepSkip == TypeInv /\ SkipInv /\ [Next]_vars => SkipInv'
BY StepSkipStored, StepSkipState DEF SkipInv

\* The stored cursor never passes an event of the stored queue that was not at
\* least tried, over all crashes, failed handlers, bad queues and restarts.
THEOREM NeverSkips == Spec => []NoSilentSkip
<1>1. SkipInv => NoSilentSkip
  BY DEF SkipInv, NoSilentSkip
<1>2. QED
  BY <1>1, InitType, StepTypeInv, InitSkip, StepSkip, PTL DEF Spec

---------------------------------------------------------------------------
(* A message that was answered is not answered again.                      *)

\* Messages that cleanupProcessedMessages has dropped.
Dropped == marked \ processed

\* A dropped message is behind every cursor that could deliver it again: the
\* stored one, the one to connect with, and that of a queue registered since.
DroppedBehind ==
  \A m \in Dropped :
    /\ Live(stored.queue) => m <= stored.last
    /\ pc \in {"saveNew", "connect"} /\ Live(state.queue) => m <= state.last
    /\ pc \in Connected => m <= state.last
    /\ pc = "saveReplaced" => m <= qstart[nq]

MarksInv ==
  /\ \A m \in marked : m <= Len(log)
  /\ DroppedBehind
  /\ pc \in {"reply", "mark"} => cur \notin processed

LEMMA InitMarks == Init => MarksInv
BY DEF Init, MarksInv, DroppedBehind, Dropped

\* No queue comes back to life.
LEMMA LiveBefore ==
  ASSUME TypeInv, [Next]_vars, NEW q \in 0..nq, Live(q)'
  PROVE  Live(q)
<1> USE BoundsAssumption
<1>0. TypeServer /\ q \in Nat /\ (q # 0 => q \in QueueIds)
  BY DEF TypeInv, TypeOK, TypeServer, QueueIds
<1>1. q # 0 /\ qstatus'[q] = "live"
  BY DEF Live
<1>2. CASE UNCHANGED qstatus
  BY <1>1, <1>2 DEF Live
<1>3. CASE Register
  BY <1>0, <1>1, <1>3 DEF Live, Register, TypeServer
<1>4. CASE DeleteQueue \/ \E p \in QueueIds : Expire(p)
  BY <1>0, <1>1, <1>4 DEF Live, DeleteQueue, Expire, TypeServer
<1>5. QED
  BY <1>2, <1>3, <1>4, ServerFrame
  DEF server, queues, Post, Poll, RegisterQueue, RegisterReplacement

LEMMA DroppedFrame ==
  ASSUME [Next]_vars
  PROVE  Dropped' \subseteq Dropped \/ Cleanup
BY ProcessedFrame DEF Dropped, MarkProcessed, MarkThenAfter

LEMMA StepMarked == ASSUME TypeInv, MarksInv, [Next]_vars
                    PROVE  \A m \in marked' : m <= Len(log')
<1>0. TypeServer /\ TypeServer' /\ TypeProc /\ TypeHist /\ StateBounds
  BY StepTypeServer DEF TypeInv, TypeOK, Bounds
<1>1. \A m \in marked : m <= Len(log')
  <2>1. Len(log) <= Len(log')
    BY <1>0, ServerGrows DEF TypeProc
  <2>2. marked \subseteq Nat /\ Len(log) \in Nat /\ Len(log') \in Nat
    BY <1>0 DEF TypeServer, TypeHist, Events
  <2>3. QED
    BY <2>1, <2>2 DEF MarksInv
<1>2. CASE UNCHANGED marked
  BY <1>1, <1>2
<1>3. CASE MarkProcessed \/ MarkThenAfter
  <2>1. marked' = marked \cup {cur} /\ pc \in Connected /\ log' = log
    BY <1>3 DEF MarkProcessed, MarkThenAfter, server, Connected, Handling
  <2>2. cur <= fetched /\ fetched <= Len(log)
    BY <1>0, <2>1 DEF StateBounds
  <2>3. cur <= Len(log)
    BY <1>0, <2>2 DEF TypeProc, TypeServer
  <2>4. QED
    BY <1>1, <2>1, <2>3
<1>4. QED
  BY <1>2, <1>3, ProcessedFrame DEF Cleanup, hist

LEMMA StepDroppedStored ==
  ASSUME TypeInv, MarksInv, [Next]_vars,
         NEW m \in Dropped', Live(stored.queue)'
  PROVE  m <= stored'.last
<1>0. TypeServer /\ TypeProc /\ TypeHist /\ stored \in States /\ Bounds
  BY DEF TypeInv, TypeOK, TypeDb
<1>1. CASE UNCHANGED stored
  <2>1. stored.queue \in 0..nq
    BY <1>0, BoundsAssumption DEF Bounds, StoredBounds, States, TypeServer
  <2>2. Live(stored.queue)
    <3>1. \A q \in 0..nq : q # 0 /\ qstatus'[q] = "live" => Live(q)
      BY LiveBefore DEF Live
    <3>2. QED
      BY <1>1, <2>1, <3>1 DEF Live
  <2>3. CASE m \in Dropped
    BY <1>1, <2>2, <2>3 DEF MarksInv, DroppedBehind
  <2>4. CASE Cleanup
    <3>1. m \in Dropped \/ ~Deliverable(m)
      BY <2>4 DEF Cleanup, Dropped, hist
    <3>2. m \in Nat /\ stored.last \in Nat
      BY <1>0, <2>4 DEF Dropped, TypeHist, Events, States, Cleanup, hist
    <3>3. QED
      BY <1>1, <2>2, <2>3, <3>1, <3>2 DEF Deliverable
  <2>5. QED
    BY <2>3, <2>4, DroppedFrame
<1>2. CASE SaveNewQueue \/ SaveCursor
  <2>1. /\ pc \in {"saveNew", "save"} /\ stored' = state
        /\ UNCHANGED <<qstatus, processed, marked>>
    BY <1>2 DEF SaveNewQueue, SaveCursor, server, queues, hist
  <2>2. Live(state.queue) /\ m \in Dropped
    BY <2>1 DEF Live, Dropped
  <2>3. QED
    BY <2>1, <2>2 DEF MarksInv, DroppedBehind, Connected
<1>3. CASE ClearState \/ ClearOldQueue
  BY <1>3 DEF ClearState, ClearOldQueue, NoState, Live
<1>4. CASE SaveReplacement
  BY <1>4 DEF SaveReplacement, MarksInv, DroppedBehind, Dropped, hist
<1>5. QED
  BY <1>1, <1>2, <1>3, <1>4, StoredFrame

LEMMA StepDroppedNew ==
  ASSUME TypeInv, MarksInv, [Next]_vars, NEW m \in Dropped', pc' = "saveReplaced"
  PROVE  m <= qstart'[nq']
<1>0. TypeServer
  BY DEF TypeInv, TypeOK
<1>1. m \in Dropped
  BY DroppedFrame DEF Cleanup
<1>2. CASE RegisterReplacement
  <2>1. nq + 1 \in QueueIds /\ nq' = nq + 1 /\ qstart'[nq + 1] = Len(log)
    BY <1>0, <1>2, BoundsAssumption DEF RegisterReplacement, Register, TypeServer, QueueIds
  <2>2. QED
    BY <1>1, <2>1 DEF MarksInv, Dropped
<1>3. CASE pc = "saveReplaced" /\ UNCHANGED <<qstart, nq>>
  BY <1>1, <1>3 DEF MarksInv, DroppedBehind
<1>4. pc = "saveReplaced" \/ RegisterReplacement
  BY StateFrame, EndsFacts DEF Quiet, Poll, ResumeQueue, RegisterQueue, Connect,
     Deliver, PassOver, MarkProcessed, ScheduleRestart
<1>5. ASSUME pc = "saveReplaced" PROVE UNCHANGED <<qstart, nq>>
  BY <1>5, ServerFrame DEF server, queues, Post, Expire, Poll, RegisterQueue,
     RegisterReplacement, DeleteQueue
<1>6. QED
  BY <1>2, <1>3, <1>4, <1>5

LEMMA StepDroppedState ==
  ASSUME TypeInv, MarksInv, [Next]_vars, NEW m \in Dropped'
  PROVE  /\ pc' \in {"saveNew", "connect"} /\ Live(state.queue)' => m <= state'.last
         /\ pc' \in Connected => m <= state'.last
<1>0. TypeServer /\ TypeProc /\ TypeHist /\ Bounds
  BY DEF TypeInv, TypeOK
<1>d. pc' = "ensure" \/ m \in Dropped
  BY DroppedFrame DEF Cleanup
<1>l. pc \in HasState /\ Live(state.queue)' /\ UNCHANGED state => Live(state.queue)
  <2>1. \A q \in 0..nq : q # 0 /\ qstatus'[q] = "live" => Live(q)
    BY LiveBefore DEF Live
  <2>2. pc \in HasState => state.queue \in 0..nq
    BY <1>0, BoundsAssumption DEF Bounds, StateBounds, TypeServer
  <2>3. QED
    BY <2>1, <2>2 DEF Live
<1> DEFINE Fits == m \in Dropped =>
             /\ pc \in {"saveNew", "connect"} /\ Live(state.queue) => m <= state.last
             /\ pc \in Connected => m <= state.last
<1>f. Fits
  BY DEF MarksInv, DroppedBehind
<1>1. CASE Quiet
  BY <1>1, <1>d, <1>l, <1>f DEF Quiet, Connected, HasState, Handling
<1>2. CASE Poll
  <2>1. pc' = pc /\ pc \in Connected /\ UNCHANGED state
    BY <1>2 DEF Poll
  <2>2. QED
    BY <2>1, <1>d, <1>f DEF Connected, Handling
<1>3. CASE ResumeQueue
  BY <1>3, <1>d DEF ResumeQueue, MarksInv, DroppedBehind, Live, server, queues,
                    Connected, Handling
<1>4. CASE RegisterQueue
  <2>1. pc' = "saveNew" /\ state'.last = Len(log) /\ m \in Dropped
    BY <1>4, <1>d DEF RegisterQueue
  <2>2. QED
    BY <2>1 DEF MarksInv, Dropped, Connected, Handling
<1>5. CASE Connect
  <2>1. pc = "connect" /\ pc' = "select" /\ Live(state.queue) /\ UNCHANGED state
    BY <1>5 DEF Connect, Resumable
  <2>2. QED
    BY <2>1, <1>d, <1>f
<1>6. CASE Deliver
  <2>1. pc \in Connected /\ pc' = "handle" /\ UNCHANGED state
    BY <1>6 DEF Deliver, Connected
  <2>2. QED
    BY <2>1, <1>d, <1>f
<1>7. CASE PassOver \/ MarkProcessed \/ ScheduleRestart
  <2>1. /\ pc \in Handling /\ pc' = "save" /\ state' = [state EXCEPT !.last = cur]
    BY <1>7 DEF PassOver, MarkProcessed, ScheduleRestart, Advance, Handling
  <2>2. m \in Dropped /\ m <= state.last /\ state.last < cur
    BY <1>0, <1>d, <1>f, <2>1 DEF Bounds, StateBounds, Connected
  <2>3. m \in Nat /\ state.last \in Nat /\ cur \in Nat /\ state'.last = cur
    BY <1>0, <2>1, <2>2 DEF TypeProc, TypeHist, States, Dropped, Events
  <2>4. QED
    BY <2>1, <2>2, <2>3
<1>8. CASE Ends
  BY <1>8, EndsFacts DEF Connected, Handling
<1>9. QED
  BY <1>1, <1>2, <1>3, <1>4, <1>5, <1>6, <1>7, <1>8, StateFrame

LEMMA StepUnprocessed ==
  ASSUME MarksInv, [Next]_vars, pc' \in {"reply", "mark"}
  PROVE  cur' \notin processed'
<1>1. UNCHANGED processed
  BY ProcessedFrame DEF Cleanup, MarkProcessed, MarkThenAfter
<1>2. UNCHANGED cur /\ (Dispatch \/ pc \in {"reply", "mark"})
  BY StateFrame, EndsFacts DEF Quiet, Poll, ResumeQueue, RegisterQueue, Connect,
     Deliver, PassOver, MarkProcessed, ScheduleRestart
<1>3. QED
  BY <1>1, <1>2 DEF Dispatch, MarksInv

LEMMA StepMarks == TypeInv /\ MarksInv /\ [Next]_vars => MarksInv'
<1> SUFFICES ASSUME TypeInv, MarksInv, [Next]_vars PROVE MarksInv'
  OBVIOUS
<1>1. DroppedBehind'
  BY StepDroppedStored, StepDroppedNew, StepDroppedState DEF DroppedBehind
<1>2. QED
  BY <1>1, StepMarked, StepUnprocessed DEF MarksInv

\* No message is answered again once it was recorded in processed_messages,
\* although the table is trimmed and events come again after crashes.
THEOREM AnsweredOnce == Spec => []AnsweredIsFinal
<1>1. ASSUME TypeInv, MarksInv PROVE AnsweredIsFinal
  <2>1. SUFFICES ASSUME pc \in {"reply", "mark"}, cur \in marked PROVE FALSE
    BY DEF AnsweredIsFinal
  <2>2. pc \in Handling /\ pc \in Connected /\ cur \in Dropped
    BY <1>1, <2>1 DEF MarksInv, Dropped, Handling, Connected
  <2>3. cur <= state.last
    BY <1>1, <2>2 DEF MarksInv, DroppedBehind
  <2>4. state.last < cur /\ state.last \in Nat /\ cur \in Nat
    BY <1>1, <2>2 DEF TypeInv, TypeOK, TypeProc, Bounds, StateBounds, States
  <2>5. QED
    BY <2>3, <2>4
<1>2. QED
  BY <1>1, InitType, StepTypeInv, InitMarks, StepMarks, PTL DEF Spec

---------------------------------------------------------------------------
(* A restart happens once per command, and is recorded.                    *)

\* Between the start of a callback and the row of its restart request.
Asking == {"delQueue", "clearOld", "regNew", "saveReplaced", "createRow"}

\* A callback belongs to a recorded message, and has not been started before.
FiresInv ==
  /\ \A e \in Events : fires[e] <= 1
  /\ \A e \in Events : fires[e] # 0 => e \in marked
  /\ pc = "after" => cur \in marked /\ fires[cur] = 0

\* A request's message had its callback started, so a callback that starts
\* finds no row of its message and creates one, which is active until Exec.
RowsInv ==
  /\ \A i \in DOMAIN rows : fires[rows[i].msg] # 0
  /\ pc \in Asking => fires[cur] # 0 /\ \A i \in DOMAIN rows : rows[i].msg # cur
  /\ pc = "readId" \/ requested => \E i \in Active : rows[i].msg = cur
  /\ requested => pc \in {"save"} \cup Leaving
  /\ pc \in Leaving => requested

\* A step that starts no callback and gets nearer to no restart.
Calm ==
  /\ UNCHANGED requested
  /\ pc' \in Asking => pc \in Asking /\ UNCHANGED cur
  /\ pc' \in {"save"} \cup Leaving => UNCHANGED cur
  /\ pc' = "readId" => pc = "readId" /\ UNCHANGED cur
  /\ pc' = "after" => UNCHANGED cur /\ (pc = "after" \/ MarkThenAfter)
  /\ pc \in {"save"} \cup Leaving => pc' \in {"save"} \cup Leaving
  /\ pc' \in Leaving => pc \in Leaving

LEMMA RequestFrame ==
  ASSUME [Next]_vars
  PROVE  \/ Calm
         \/ AfterResponse \/ CreateRestartRequest \/ ScheduleRestart
         \/ SaveCursor \/ MarkRestartInProgress \/ Ends
BY DEF Next, ProcessStep, FaultStep, vars, proc, lib, hist, Ends, Calm, Post, Expire,
       Poll, PollBad, OperatorStart, NotifySend, CompleteRestart, NoRestartPending,
       Cleanup, ResumeQueue, RegisterQueue, SaveNewQueue, Connect, BadQueue, ClearState,
       Deliver, PassOver, Dispatch, Reply, MarkProcessed, MarkThenAfter,
       DeleteQueue, ClearOldQueue, RegisterReplacement, SaveReplacement,
       InstallUpdate, NotifySendFails, CompleteRestartFails, HandlerFails,
       Asking, Leaving, Handling

LEMMA InitFires == Init => FiresInv /\ RowsInv
BY DEF Init, FiresInv, RowsInv, Active, Asking, Leaving

\* The message in hand while it is handled is one of Events.
LEMMA CurHandled == ASSUME TypeInv, pc \in Handling
                    PROVE  cur \in Events
BY BoundsAssumption
DEF TypeInv, TypeOK, TypeProc, TypeServer, Bounds, StateBounds, States, Events, Connected

\* Only a message that was never recorded is recorded before its callback.
LEMMA UnmarkedAtMark == ASSUME TypeInv, MarksInv, pc = "mark"
                        PROVE  cur \notin marked
<1>1. SUFFICES ASSUME cur \in Dropped PROVE FALSE
  BY DEF MarksInv, Dropped
<1>2. cur <= state.last
  BY <1>1 DEF MarksInv, DroppedBehind, Connected, Handling
<1>3. state.last < cur /\ state.last \in Nat /\ cur \in Nat
  BY DEF TypeInv, TypeOK, TypeProc, Bounds, StateBounds, States, Handling
<1>4. QED
  BY <1>2, <1>3

LEMMA StepFires == ASSUME TypeInv, MarksInv, FiresInv, [Next]_vars
                   PROVE  FiresInv'
<1>0. fires \in [Events -> Nat] /\ marked \subseteq Events
  BY DEF TypeInv, TypeOK, TypeHist
<1>m. marked \subseteq marked'
  BY ProcessedFrame DEF Cleanup, MarkProcessed, MarkThenAfter, hist
<1>1. CASE UNCHANGED fires
  <2>1. pc' = "after" => cur' \in marked' /\ fires[cur'] = 0
    <3>1. SUFFICES ASSUME pc' = "after" PROVE cur' \in marked' /\ fires[cur'] = 0
      OBVIOUS
    <3>2. UNCHANGED cur /\ (pc = "after" \/ MarkThenAfter)
      BY <3>1, RequestFrame, EndsFacts DEF Calm, AfterResponse, CreateRestartRequest,
         ScheduleRestart, SaveCursor, MarkRestartInProgress
    <3>3. CASE pc = "after"
      BY <3>2, <3>3, <1>m DEF FiresInv
    <3>4. CASE MarkThenAfter
      <4>1. cur \in marked' /\ pc = "mark"
        BY <3>4 DEF MarkThenAfter
      <4>2. cur \in Events /\ cur \notin marked
        BY <4>1, UnmarkedAtMark, CurHandled DEF Handling
      <4>3. QED
        BY <3>2, <4>1, <4>2 DEF FiresInv
    <3>5. QED
      BY <3>2, <3>3, <3>4
  <2>2. QED
    BY <1>1, <1>m, <2>1 DEF FiresInv
<1>2. CASE AfterResponse
  <2>1. /\ pc = "after" /\ cur \in marked /\ cur \in Events /\ fires[cur] = 0
    BY <1>0, <1>2 DEF AfterResponse, FiresInv
  <2>2. /\ fires' = [fires EXCEPT ![cur] = @ + 1]
        /\ pc' # "after" /\ marked' = marked
    BY <1>2 DEF AfterResponse
  <2>3. \A e \in Events : fires'[e] = IF e = cur THEN 1 ELSE fires[e]
    BY <1>0, <2>1, <2>2
  <2>4. QED
    BY <1>0, <2>1, <2>2, <2>3 DEF FiresInv
<1>3. QED
  BY <1>1, <1>2, FiresFrame

LEMMA StepRequests == ASSUME TypeInv, FiresInv, RowsInv, [Next]_vars
                      PROVE  RowsInv'
<1>0. /\ fires \in [Events -> Nat] /\ rows \in Seq(Row)
      /\ TypeProc
      /\ \A i \in DOMAIN rows : rows[i].msg \in Events
  <2>1. fires \in [Events -> Nat] /\ rows \in Seq(Row) /\ TypeProc
    BY DEF TypeInv, TypeOK, TypeHist, TypeDb
  <2>2. \A i \in DOMAIN rows : rows[i] \in Row
    BY <2>1
  <2>3. QED
    BY <2>1, <2>2 DEF Row
<1>1. CASE Calm /\ UNCHANGED <<rows, fires>>
  BY <1>1 DEF RowsInv, Calm, Active
<1>2. CASE AfterResponse
  <2>1. /\ pc = "after" /\ cur \in Events /\ fires[cur] = 0
        /\ fires' = [fires EXCEPT ![cur] = @ + 1]
        /\ pc' \in Asking /\ UNCHANGED <<rows, cur, requested>>
    BY <1>2, CurHandled DEF AfterResponse, FiresInv, db, Asking, Handling
  <2>2. ~requested /\ \A i \in DOMAIN rows : fires[rows[i].msg] # 0
    BY <2>1 DEF RowsInv, Leaving
  <2>3. /\ \A i \in DOMAIN rows : rows[i].msg # cur /\ fires'[rows[i].msg] # 0
        /\ fires'[cur] # 0
    BY <1>0, <2>1, <2>2
  <2>4. QED
    BY <2>1, <2>2, <2>3 DEF RowsInv, Asking, Leaving
<1>3. CASE CreateRestartRequest
  <2>1. /\ pc = "createRow" /\ cur \in Events /\ pc' = "readId"
        /\ UNCHANGED <<cur, requested, fires>>
    BY <1>3, CurHandled DEF CreateRestartRequest, hist, Handling
  <2>2. /\ fires[cur] # 0 /\ ~requested
        /\ \A i \in DOMAIN rows : rows[i].msg # cur /\ fires[rows[i].msg] # 0
    BY <2>1 DEF RowsInv, Asking, Leaving
  <2> DEFINE new == [msg |-> cur, status |-> "requested"]
  <2>3. rows' = Append(rows, new) /\ new \in Row
    BY <1>3, <2>1, <2>2 DEF CreateRestartRequest, Row, Statuses
  <2>4. /\ DOMAIN rows = 1..Len(rows) /\ DOMAIN rows' = 1..Len(rows) + 1
        /\ \A i \in 1..Len(rows) : rows'[i] = rows[i]
        /\ rows'[Len(rows) + 1] = new
        /\ Len(rows) \in Nat
    BY <1>0, <2>3
  <2>5. \A i \in DOMAIN rows' : fires[rows'[i].msg] # 0
    BY <2>2, <2>4
  <2>6. Len(rows) + 1 \in Active' /\ rows'[Len(rows) + 1].msg = cur
    BY <2>4 DEF Active
  <2>7. QED
    BY <2>1, <2>2, <2>5, <2>6 DEF RowsInv, Asking, Leaving
<1>4. CASE ScheduleRestart
  BY <1>4 DEF ScheduleRestart, RowsInv, Active, Asking, Leaving, db, hist
<1>5. CASE SaveCursor
  BY <1>0, <1>5 DEF SaveCursor, RowsInv, Active, Asking, Leaving, hist, TypeProc
<1>6. CASE MarkRestartInProgress
  <2>1. /\ pc = "markProgress" /\ UNCHANGED <<cur, requested, fires>>
    BY <1>6 DEF MarkRestartInProgress, hist
  <2>2. requested /\ \E i \in Active : rows[i].msg = cur
    BY <2>1 DEF RowsInv, Leaving
  <2>3. pc' = "exec" /\ rows' = [rows EXCEPT ![Latest].status = "in_progress"]
    BY <1>6, <2>2 DEF MarkRestartInProgress, SetStatus
  <2>4. /\ DOMAIN rows' = DOMAIN rows
        /\ \A i \in DOMAIN rows : rows'[i].msg = rows[i].msg
        /\ \A i \in DOMAIN rows : rows'[i].status \in {"in_progress", rows[i].status}
    BY <1>0, <2>3 DEF Row
  <2>5. \E i \in Active' : rows'[i].msg = cur
    BY <2>2, <2>4 DEF Active
  <2>6. QED
    BY <2>1, <2>2, <2>3, <2>4, <2>5 DEF RowsInv, Asking, Leaving
<1>7. CASE Ends
  BY <1>7, EndsFacts DEF RowsInv, Asking, Leaving, db
<1>8. CASE CompleteRestart \/ NotifySendFails
  <2>1. /\ pc \in {"start", "notified"} /\ pc' = "cleanup"
        /\ UNCHANGED <<cur, requested, fires>>
    BY <1>8 DEF CompleteRestart, NotifySendFails, hist
  <2> DEFINE Closed(st) == rows' = [rows EXCEPT ![Latest].status = st]
  <2>2. \A i \in DOMAIN rows' : i \in DOMAIN rows /\ rows'[i].msg = rows[i].msg
    <3>1. Closed("completed") \/ Closed("failed")
      BY <1>8 DEF CompleteRestart, NotifySendFails, SetStatus
    <3>2. PICK st : Closed(st)
      BY <3>1
    <3>3. \A i \in DOMAIN rows : rows'[i].msg = rows[i].msg
      BY <1>0, <3>2 DEF Row
    <3>4. DOMAIN rows' = DOMAIN rows
      BY <1>0, <3>2
    <3>5. QED
      BY <3>3, <3>4
  <2>3. QED
    BY <2>1, <2>2 DEF RowsInv, Asking, Leaving
<1>9. QED
  BY <1>1, <1>2, <1>3, <1>4, <1>5, <1>6, <1>7, <1>8,
     RequestFrame, RowsFrame, FiresFrame

\* The callbacks of a message start at most once, whatever crashes, redeliveries
\* and restarts follow: a restart command cannot make the bot restart for ever.
THEOREM CallbacksOnce == Spec => []RestartsOnce
<1>1. FiresInv => RestartsOnce
  BY DEF FiresInv, RestartsOnce
<1>2. TypeInv /\ MarksInv /\ FiresInv /\ [Next]_vars => FiresInv'
  BY StepFires
<1>3. QED
  BY <1>1, <1>2, InitType, StepTypeInv, InitMarks, StepMarks, InitFires, PTL DEF Spec

\* When a restart is due its own request is active, so restartProcess finds it
\* and what the next process announces is answered to the right message.
THEOREM RequestRecorded == Spec => []RestartIsRecorded
<1>1. RowsInv => RestartIsRecorded
  BY DEF RowsInv, RestartIsRecorded
<1>2. TypeInv /\ MarksInv /\ FiresInv /\ [Next]_vars => FiresInv'
  BY StepFires
<1>3. TypeInv /\ FiresInv /\ RowsInv /\ [Next]_vars => RowsInv'
  BY StepRequests
<1>4. QED
  BY <1>1, <1>2, <1>3, InitType, StepTypeInv, InitMarks, StepMarks, InitFires, PTL
  DEF Spec
---------------------------------------------------------------------------
(* A planned restart: what it resumes, and that its request is closed.      *)

\* What is confirmed is at most what was handed over, if the library does not
\* confirm ahead of it; a restart is due only once the cursor is at its message,
\* and it leaves with that cursor stored.
PruneInv ==
  ~AckAhead =>
    /\ pc \in Connected => qpruned[state.queue] <= cur
    /\ pc = "save" /\ requested => state.last = cur
    /\ pc \in Leaving =>
         stored = state /\ state.queue \in QueueIds /\ qpruned[state.queue] <= state.last

\* If the database does not fail there is one active request at a time, and only
\* from its creation until the next start has closed it.
StaleInv ==
  "db" \notin FaultKinds =>
    /\ \A i, j \in Active : i = j
    /\ Active # {} => \/ pc \in {"down", "stopped", "start", "notified", "readId"} \cup Leaving
                      \/ pc = "save" /\ requested

LEMMA InitPlanned == Init => PruneInv /\ StaleInv
BY DEF Init, PruneInv, StaleInv, Active, Connected, Handling, Leaving

\* A queue in use is confirmed further by polls only.
LEMMA PrunedFrame ==
  ASSUME TypeInv, [Next]_vars, NEW q \in 1..nq
  PROVE  UNCHANGED qpruned \/ Poll \/ qpruned'[q] = qpruned[q]
<1>1. TypeServer /\ 1..nq \subseteq QueueIds
  BY BoundsAssumption DEF TypeInv, TypeOK, TypeServer, QueueIds
<1>2. CASE RegisterQueue \/ RegisterReplacement
  <2>1. qpruned' = [qpruned EXCEPT ![nq + 1] = Len(log)] /\ nq + 1 # q
    BY <1>1, <1>2 DEF RegisterQueue, RegisterReplacement, Register, TypeServer
  <2>2. QED
    BY <1>1, <2>1 DEF TypeServer
<1>3. CASE UNCHANGED server \/ (\E kind \in Kinds : Post(kind))
        \/ (\E p \in QueueIds : Expire(p)) \/ DeleteQueue
  BY <1>3 DEF server, queues, Post, Expire, DeleteQueue
<1>4. QED
  BY <1>2, <1>3, ServerFrame

\* A poll confirms what was fetched before.
LEMMA PollPrunes ==
  ASSUME TypeInv, ~AckAhead, PruneInv, Poll
  PROVE  /\ pc \in Connected /\ qpruned'[state.queue] = cur
         /\ UNCHANGED <<pc, state, cur, stored, requested>>
<1>1. pc \in Connected /\ qpruned' = [qpruned EXCEPT ![state.queue] = cur]
  BY DEF Poll
<1>2. state.queue \in QueueIds
  BY <1>1, BoundsAssumption
  DEF TypeInv, TypeOK, TypeServer, Bounds, StateBounds, HasState, QueueIds
<1>3. QED
  BY <1>1, <1>2 DEF Poll, db, TypeInv, TypeOK, TypeServer

LEMMA StepPruned ==
  ASSUME TypeInv, ~AckAhead, PruneInv, [Next]_vars, pc' \in Connected
  PROVE  qpruned'[state'.queue] <= cur'
<1>0. TypeServer /\ TypeProc
  BY DEF TypeInv, TypeOK
<1>1. CASE Poll
  BY <1>0, <1>1, PollPrunes DEF TypeProc
<1>2. CASE Connect
  <2>1. /\ pc = "connect" /\ UNCHANGED <<state, qpruned>> /\ cur' = state.last
        /\ qpruned[state.queue] <= state.last
    BY <1>2 DEF Connect, Resumable, server, queues
  <2>2. QED
    BY <2>1
<1>3. ASSUME pc \in Connected, ~Poll, state'.queue = state.queue, cur' \in {cur, cur + 1}
      PROVE  qpruned'[state'.queue] <= cur'
  <2>1. state.queue \in 1..nq /\ state.queue \in QueueIds
    BY <1>0, <1>3, BoundsAssumption DEF TypeInv, Bounds, StateBounds, HasState, QueueIds, TypeServer
  <2>2. qpruned'[state.queue] = qpruned[state.queue]
    BY <1>3, <2>1, PrunedFrame
  <2>3. qpruned[state.queue] <= cur /\ qpruned[state.queue] \in Nat /\ cur \in Nat
    BY <1>0, <1>3, <2>1 DEF PruneInv, TypeServer, TypeProc
  <2>4. QED
    BY <1>3, <2>2, <2>3
<1>4. CASE Quiet
  <2>1. pc \in Connected /\ UNCHANGED <<state, cur>>
    BY <1>4 DEF Quiet
  <2>2. QED
    BY <1>1, <1>3, <2>1
<1>5. CASE Deliver
  <2>1. pc \in Connected /\ UNCHANGED state /\ cur' = cur + 1
    BY <1>5 DEF Deliver, Connected
  <2>2. QED
    BY <1>1, <1>3, <2>1
<1>6. CASE PassOver \/ MarkProcessed \/ ScheduleRestart
  <2>1. pc \in Connected /\ state' = [state EXCEPT !.last = cur] /\ UNCHANGED cur
    BY <1>6 DEF PassOver, MarkProcessed, ScheduleRestart, Advance, Connected, Handling
  <2>2. state'.queue = state.queue
    BY <1>0, <2>1 DEF TypeProc, States
  <2>3. QED
    BY <1>1, <1>3, <2>1, <2>2
<1>7. CASE ResumeQueue \/ RegisterQueue \/ Ends
  BY <1>7, EndsFacts DEF ResumeQueue, RegisterQueue, Connected, Handling
<1>8. QED
  BY <1>1, <1>2, <1>4, <1>5, <1>6, <1>7, StateFrame

\* A restart becomes due with the cursor at its message, and the cursor stays there.
LEMMA StepDue ==
  ASSUME TypeInv, ~AckAhead, PruneInv, RowsInv, [Next]_vars, pc' = "save", requested'
  PROVE  state'.last = cur'
<1>0. TypeProc
  BY DEF TypeInv, TypeOK
<1>1. CASE ScheduleRestart
  BY <1>0, <1>1 DEF ScheduleRestart, Advance, TypeProc, States
<1>2. CASE ~ScheduleRestart
  <2>a. pc \notin Leaving
    BY StateFrame, EndsFacts
    DEF Quiet, Poll, ResumeQueue, RegisterQueue, Connect, Deliver, PassOver, MarkProcessed,
        ScheduleRestart, Leaving, Connected, Handling
  <2>b. requested
    BY <1>2, RequestFrame, EndsFacts
    DEF Calm, AfterResponse, CreateRestartRequest, SaveCursor, MarkRestartInProgress
  <2>1. requested /\ pc = "save"
    BY <2>a, <2>b DEF RowsInv
  <2>2. UNCHANGED <<state, cur>>
    BY <2>1, StateFrame, EndsFacts
    DEF Quiet, Poll, ResumeQueue, RegisterQueue, Connect, Deliver, PassOver, MarkProcessed,
        ScheduleRestart
  <2>3. QED
    BY <2>1, <2>2 DEF PruneInv
<1>3. QED
  BY <1>1, <1>2

LEMMA StepLeaving ==
  ASSUME TypeInv, ~AckAhead, PruneInv, RowsInv, [Next]_vars, pc' \in Leaving
  PROVE  /\ stored' = state' /\ state'.queue \in QueueIds
         /\ qpruned'[state'.queue] <= state'.last
<1>0. TypeServer /\ TypeProc
  BY DEF TypeInv, TypeOK
<1>1. CASE SaveCursor
  <2>1. /\ pc = "save" /\ requested /\ stored' = state /\ UNCHANGED <<state, qpruned>>
    BY <1>0, <1>1 DEF SaveCursor, Leaving, server, queues
  <2>2. state.last = cur /\ qpruned[state.queue] <= cur
    BY <2>1 DEF PruneInv, Connected
  <2>3. state.queue \in QueueIds
    BY <1>0, <2>1, BoundsAssumption
    DEF TypeInv, TypeServer, Bounds, StateBounds, HasState, Connected, QueueIds
  <2>4. QED
    BY <2>1, <2>2, <2>3
<1>2. CASE ~SaveCursor
  <2>1. pc \in Leaving
    BY <1>2, RequestFrame, EndsFacts
    DEF Calm, AfterResponse, CreateRestartRequest, ScheduleRestart, MarkRestartInProgress, Leaving
  <2>2. UNCHANGED state
    BY <2>1, StateFrame, EndsFacts
    DEF Quiet, Poll, ResumeQueue, RegisterQueue, Connect, Deliver, PassOver, MarkProcessed,
        ScheduleRestart, Leaving, Connected, Handling
  <2>3. UNCHANGED stored
    BY <1>2, <2>1, StoredFrame
    DEF SaveNewQueue, ClearState, ClearOldQueue, SaveReplacement, Leaving
  <2>4. UNCHANGED qpruned
    BY <2>1, ServerFrame
    DEF Post, Expire, Poll, RegisterQueue, RegisterReplacement, DeleteQueue, server, queues,
        Leaving, Connected, Handling
  <2>5. QED
    BY <2>1, <2>2, <2>3, <2>4 DEF PruneInv
<1>3. QED
  BY <1>1, <1>2

LEMMA StepPrune == TypeInv /\ RowsInv /\ PruneInv /\ [Next]_vars => PruneInv'
BY StepPruned, StepDue, StepLeaving DEF PruneInv

\* There is a latest active request, and closing it leaves none if there is one.
LEMMA OneIsLatest ==
  ASSUME rows \in Seq(Row), \A i, j \in Active : i = j, Active # {}
  PROVE  Active = {Latest}
<1>1. PICK id \in Active : Active = {id}
  OBVIOUS
<1>2. id \in Nat
  BY DEF Active
<1>3. id \in Active /\ \A j \in Active : j <= id
  BY <1>1, <1>2
<1>4. Latest \in Active
  BY <1>3 DEF Latest
<1>5. QED
  BY <1>1, <1>4

LEMMA OneClosed ==
  ASSUME rows \in Seq(Row), \A i, j \in Active : i = j, Active # {},
         NEW status \in {"completed", "failed"}, SetStatus(Latest, status)
  PROVE  Active' = {}
<1>1. /\ DOMAIN rows' = DOMAIN rows
      /\ \A i \in DOMAIN rows :
           rows'[i].status = IF i = Latest THEN status ELSE rows[i].status
  BY SetStatusType DEF Statuses
<1>2. QED
  BY <1>1, OneIsLatest DEF Active

\* Where a request may be open.
Open(p, due) == \/ p \in {"down", "stopped", "start", "notified", "readId"} \cup Leaving
                \/ p = "save" /\ due

\* From there a start closes it, or finds none.
LEMMA OpenFrame ==
  ASSUME [Next]_vars, "db" \notin FaultKinds, Open(pc, requested)
  PROVE  Open(pc', requested') \/ NoRestartPending \/ CompleteRestart \/ NotifySendFails
BY DEF Open, Next, ProcessStep, FaultStep, vars, proc, lib, hist, Fault, CallOf, Post, Expire,
       Poll, PollBad, OperatorStart, Start, NotifySend,
       Cleanup, ResumeQueue, RegisterQueue, SaveNewQueue, Connect, BadQueue,
       ClearState, Deliver, PassOver, Dispatch, Reply, MarkProcessed, MarkThenAfter,
       AfterResponse, DeleteQueue, ClearOldQueue, RegisterReplacement,
       SaveReplacement, CreateRestartRequest, ScheduleRestart, SaveCursor,
       InstallUpdate, MarkRestartInProgress, Exec, Crash, Shutdown,
       CompleteRestartFails, EventChClosed, HandlerFails, Leaving

LEMMA StepStale == ASSUME TypeInv, StaleInv, [Next]_vars PROVE StaleInv'
<1> SUFFICES ASSUME "db" \notin FaultKinds
             PROVE  /\ \A i, j \in Active' : i = j
                    /\ Active' # {} => Open(pc', requested')
  BY DEF StaleInv, Open
<1>0. /\ rows \in Seq(Row)
      /\ \A i, j \in Active : i = j
      /\ Active # {} => Open(pc, requested)
  BY DEF TypeInv, TypeOK, TypeDb, StaleInv, Open
<1>1. CASE UNCHANGED rows /\ ~CompleteRestart /\ ~NotifySendFails
  <2>1. Active' = Active
    BY <1>1 DEF Active
  <2>2. ASSUME Active # {} PROVE Open(pc', requested')
    BY <1>0, <1>1, <2>2, OpenFrame DEF NoRestartPending
  <2>3. QED
    BY <1>0, <2>1, <2>2
<1>2. CASE CreateRestartRequest
  <2>1. pc = "createRow" /\ pc' = "readId"
    BY <1>2 DEF CreateRestartRequest
  <2>2. Active = {}
    BY <1>0, <2>1 DEF Open, Leaving
  <2>3. Active' \subseteq {Len(rows) + 1}
    BY <1>0, <1>2, <2>2 DEF CreateRestartRequest, Active
  <2>4. QED
    BY <2>1, <2>3 DEF Open
<1>3. CASE CompleteRestart \/ NotifySendFails
  <2>1. Active # {} /\ (SetStatus(Latest, "completed") \/ SetStatus(Latest, "failed"))
    BY <1>3 DEF CompleteRestart, NotifySendFails
  <2>2. PICK status \in {"completed", "failed"} : SetStatus(Latest, status)
    BY <2>1
  <2>3. Active' = {}
    BY <1>0, <2>1, <2>2, OneClosed
  <2>4. QED
    BY <2>3
<1>4. CASE MarkRestartInProgress
  <2>1. pc' \in {"down", "exec"}
    BY <1>4 DEF MarkRestartInProgress
  <2>2. Active' \subseteq Active
    <3>1. CASE Active = {}
      BY <1>4, <3>1 DEF MarkRestartInProgress, Active
    <3>2. CASE Active # {}
      <4>1. Latest \in Active /\ SetStatus(Latest, "in_progress")
        BY <1>0, <1>4, <3>2, OneIsLatest DEF MarkRestartInProgress
      <4>2. /\ DOMAIN rows' = DOMAIN rows
            /\ \A i \in DOMAIN rows : rows'[i].status = IF i = Latest THEN "in_progress"
                                                                      ELSE rows[i].status
        BY <1>0, <4>1, SetStatusType DEF Statuses
      <4>3. QED
        BY <4>1, <4>2 DEF Active
    <3>3. QED
      BY <3>1, <3>2
  <2>3. QED
    BY <1>0, <2>1, <2>2 DEF Open, Leaving
<1>5. QED
  BY <1>1, <1>2, <1>3, <1>4, RowsFrame

\* If the library confirms no more than was handed over, the process leaves for a
\* planned restart with a cursor from which the server still resumes its queue.
THEOREM PlannedRestarts == ~AckAhead => (Spec => []PlannedRestartResumes)
<1> SUFFICES ASSUME ~AckAhead PROVE Spec => []PlannedRestartResumes
  OBVIOUS
<1>1. PruneInv => PlannedRestartResumes
  BY DEF PruneInv, PlannedRestartResumes, Resumable
<1>2. TypeInv /\ MarksInv /\ FiresInv /\ [Next]_vars => FiresInv'
  BY StepFires
<1>3. TypeInv /\ FiresInv /\ RowsInv /\ [Next]_vars => RowsInv'
  BY StepRequests
<1>4. QED
  BY <1>1, <1>2, <1>3, InitType, StepTypeInv, InitMarks, StepMarks, InitFires, InitPlanned,
     StepPrune, PTL DEF Spec

\* If the database does not fail, every restart request is closed before the next
\* event is handled, so no later start announces a restart that nobody asked for.
THEOREM RequestsAreClosed == "db" \notin FaultKinds => (Spec => []NoStaleRestartRequest)
<1> SUFFICES ASSUME "db" \notin FaultKinds PROVE Spec => []NoStaleRestartRequest
  OBVIOUS
<1>1. StaleInv => NoStaleRestartRequest
  BY DEF StaleInv, NoStaleRestartRequest, Leaving
<1>2. TypeInv /\ StaleInv /\ [Next]_vars => StaleInv'
  BY StepStale
<1>3. QED
  BY <1>1, <1>2, InitType, StepTypeInv, InitPlanned, PTL DEF Spec


---------------------------------------------------------------------------
(* BotEventLoop implements CommandDelivery under the mapping of Delivery:  *)
(* its initial states map to initial states, and each of its steps to one  *)
(* step of CommandDelivery or to none.  FiresInv and RowsInv say why a     *)
(* callback and a request are due; what the mapping needs besides is that  *)
(* a message has one request.                                              *)

\* A message has at most one request.
OneRowEach == \A i, j \in DOMAIN rows : rows[i].msg = rows[j].msg => i = j

DeliveryInv == TypeInv /\ MarksInv /\ FiresInv /\ RowsInv /\ OneRowEach

---------------------------------------------------------------------------
\* Among finitely many numbers there is a largest one.
LEMMA HasLargest ==
  ASSUME NEW S, IsFiniteSet(S), S \subseteq Nat, S # {}
  PROVE  \E i \in S : \A j \in S : j <= i
<1> DEFINE Above(i) == {j \in S : j > i}
           T == {Above(i) : i \in S}
           R == StrictSubsetOrdering(S)
<1>1. FiniteSubsetsOf(S) = SUBSET S
  BY FS_FiniteSubsetsOfFinite
<1>2. IsWellFoundedOn(R, SUBSET S)
  BY <1>1, FS_StrictSubsetOrderingWellFounded
<1>3. T \subseteq SUBSET S /\ T # {}
  OBVIOUS
<1>4. PICK x \in T : \A y \in T : ~(<<y, x>> \in R)
  <2> HIDE DEF T, R
  <2>1. QED
    BY <1>2, <1>3, WFMin
<1>5. PICK i \in S : x = Above(i)
  OBVIOUS
<1>6. ASSUME NEW j \in S, j > i PROVE FALSE
  <2>1. Above(j) \subseteq Above(i) /\ j \in Above(i) /\ j \notin Above(j)
    <3>1. S \subseteq Nat /\ i \in S
      BY <1>5
    <3>2. \A k \in S : k > j => k > i
      BY <1>6, <3>1
    <3>3. ~(j > j)
      BY <3>1
    <3>4. QED
      BY <1>6, <3>2, <3>3
  <2>2. Above(j) \in T /\ Above(j) \in SUBSET S /\ Above(i) \in SUBSET S
    OBVIOUS
  <2>3. <<Above(j), Above(i)>> \in R
    BY <2>1, <2>2 DEF StrictSubsetOrdering
  <2>4. QED
    BY <1>4, <1>5, <2>2, <2>3
<1>7. QED
  BY <1>6

\* The latest active request is active.
LEMMA LatestIsActive ==
  ASSUME rows \in Seq(Row), Active # {}
  PROVE  Latest \in Active
<1>1. Active \subseteq 1..Len(rows) /\ Len(rows) \in Nat
  BY DEF Active
<1>2. IsFiniteSet(Active) /\ Active \subseteq Nat
  <2>1. IsFiniteSet(1..Len(rows))
    BY <1>1, FS_Interval
  <2>2. IsFiniteSet(Active)
    BY <1>1, <2>1, FS_Subset
  <2>3. QED
    BY <1>1, <2>2
<1>3. \E i \in Active : \A j \in Active : j <= i
  BY <1>2, HasLargest
<1>4. QED
  BY <1>3 DEF Latest

---------------------------------------------------------------------------
(* The request of a message, as the mapping reads it from the table.       *)

RequestOf(rs, e) == IF \E i \in DOMAIN rs : rs[i].msg = e
                      THEN rs[CHOOSE i \in DOMAIN rs : rs[i].msg = e].status
                      ELSE "none"

LEMMA RequestOfRow ==
  ASSUME NEW rs, NEW e, NEW i \in DOMAIN rs, rs[i].msg = e,
         \A j, k \in DOMAIN rs : rs[j].msg = rs[k].msg => j = k
  PROVE  RequestOf(rs, e) = rs[i].status
<1> DEFINE k == CHOOSE j \in DOMAIN rs : rs[j].msg = e
<1>1. k \in DOMAIN rs /\ rs[k].msg = e
  OBVIOUS
<1>2. k = i
  BY <1>1
<1>3. QED
  BY <1>2 DEF RequestOf

LEMMA MappedIsRequestOf ==
  /\ \A e \in Events : RestartOf(e) = RequestOf(rows, e)
  /\ \A e \in Events : RestartOf(e)' = RequestOf(rows', e)
BY DEF RestartOf, RequestOf

restart == [e \in Events |-> RestartOf(e)]

\* Only the request of one message is other than before.
LEMMA RestartChanges ==
  ASSUME NEW m \in Events, NEW status, RequestOf(rows', m) = status,
         \A e \in Events : e # m => RequestOf(rows', e) = RequestOf(rows, e)
  PROVE  restart' = [restart EXCEPT ![m] = status]
BY MappedIsRequestOf DEF restart

LEMMA RestartKept == ASSUME UNCHANGED rows PROVE UNCHANGED restart
BY DEF restart, RestartOf

\* A new status of one request changes what it says of its message only.
LEMMA StatusMapped ==
  ASSUME rows \in Seq(Row), OneRowEach, NEW id \in DOMAIN rows, NEW status \in Statuses,
         SetStatus(id, status)
  PROVE  /\ OneRowEach'
         /\ rows[id].msg \in Events
         /\ restart' = [restart EXCEPT ![rows[id].msg] = status]
         /\ restart[rows[id].msg] = rows[id].status
<1>1. /\ DOMAIN rows' = DOMAIN rows
      /\ \A i \in DOMAIN rows :
           /\ rows'[i].msg = rows[i].msg
           /\ rows'[i].status = IF i = id THEN status ELSE rows[i].status
  BY SetStatusType
<1>2. OneRowEach'
  BY <1>1 DEF OneRowEach
<1> DEFINE m == rows[id].msg
<1>3. m \in Events
  <2>1. rows[id] \in Row
    OBVIOUS
  <2>2. QED
    BY <2>1 DEF Row
<1>4. RequestOf(rows', m) = status
  BY <1>1, <1>2, RequestOfRow DEF OneRowEach
<1>5. ASSUME NEW e \in Events, e # m PROVE RequestOf(rows', e) = RequestOf(rows, e)
  <2>1. CASE \E i \in DOMAIN rows : rows[i].msg = e
    <3>1. PICK i \in DOMAIN rows : rows[i].msg = e
      BY <2>1
    <3>2. RequestOf(rows, e) = rows[i].status
      BY <3>1, RequestOfRow DEF OneRowEach
    <3>3. RequestOf(rows', e) = rows'[i].status
      BY <1>1, <1>2, <3>1, RequestOfRow DEF OneRowEach
    <3>4. QED
      BY <1>1, <1>5, <3>1, <3>2, <3>3
  <2>2. CASE ~\E i \in DOMAIN rows : rows[i].msg = e
    BY <1>1, <2>2 DEF RequestOf
  <2>3. QED
    BY <2>1, <2>2
<1>6. restart[m] = rows[id].status
  BY <1>3, RequestOfRow, MappedIsRequestOf DEF OneRowEach, restart
<1>7. QED
  BY <1>2, <1>3, <1>4, <1>5, <1>6, RestartChanges

\* A request added for a message that had none is its request.
LEMMA RequestMapped ==
  ASSUME OneRowEach, NEW m \in Events, \A i \in DOMAIN rows : rows[i].msg # m,
         NEW n, n \notin DOMAIN rows, DOMAIN rows' = DOMAIN rows \cup {n},
         \A i \in DOMAIN rows : rows'[i] = rows[i],
         rows'[n] = [msg |-> m, status |-> "requested"]
  PROVE  /\ OneRowEach'
         /\ restart' = [restart EXCEPT ![m] = "requested"]
         /\ restart[m] = "none"
<1>2. OneRowEach'
  BY DEF OneRowEach
<1>d. \A j, k \in DOMAIN rows' : rows'[j].msg = rows'[k].msg => j = k
  BY <1>2 DEF OneRowEach
<1>3. RequestOf(rows', m) = "requested"
  <2>1. n \in DOMAIN rows' /\ rows'[n].msg = m /\ rows'[n].status = "requested"
    OBVIOUS
  <2>2. RequestOf(rows', m) = rows'[n].status
    BY <1>d, <2>1, RequestOfRow
  <2>3. QED
    BY <2>1, <2>2
<1>4. ASSUME NEW e \in Events, e # m PROVE RequestOf(rows', e) = RequestOf(rows, e)
  <2>1. CASE \E i \in DOMAIN rows : rows[i].msg = e
    <3>1. PICK i \in DOMAIN rows : rows[i].msg = e
      BY <2>1
    <3>2. RequestOf(rows, e) = rows[i].status
      BY <3>1, RequestOfRow DEF OneRowEach
    <3>3. i \in DOMAIN rows' /\ rows'[i] = rows[i]
      BY <3>1
    <3>4. RequestOf(rows', e) = rows'[i].status
      BY <1>d, <3>1, <3>3, RequestOfRow
    <3>5. QED
      BY <3>2, <3>3, <3>4
  <2>2. CASE ~\E i \in DOMAIN rows : rows[i].msg = e
    <3>1. ~\E i \in DOMAIN rows' : rows'[i].msg = e
      BY <1>4, <2>2
    <3>2. QED
      BY <2>2, <3>1 DEF RequestOf
  <2>3. QED
    BY <2>1, <2>2
<1>5. restart[m] = "none"
  BY MappedIsRequestOf DEF restart, RequestOf
<1>6. QED
  BY <1>2, <1>3, <1>4, <1>5, RestartChanges

---------------------------------------------------------------------------
(* Each step is a step of CommandDelivery or none.                         *)

AbstractStep == [Delivery!Next]_(Delivery!vars)

LEMMA InitMaps == Init => Delivery!Init /\ OneRowEach
BY DEF Init, Delivery!Init, OneRowEach, RestartOf

\* The log grows by one event, or by none.
LEMMA LogFrame ==
  ASSUME TypeInv, [Next]_vars
  PROVE  \/ UNCHANGED log
         \/ UNCHANGED <<rows, marked, fires>> /\ Len(log) < MaxEvents
              /\ Len(log) \in Nat /\ Len(log') = Len(log) + 1
<1>1. ASSUME NEW kind \in Kinds, Post(kind)
      PROVE  /\ UNCHANGED <<rows, marked, fires>> /\ Len(log) < MaxEvents
             /\ Len(log) \in Nat /\ Len(log') = Len(log) + 1
  BY <1>1, KindsAssumption DEF Post, db, hist, TypeInv, TypeOK, TypeServer
<1>2. QED
  BY <1>1, ServerFrame DEF server, Expire, Poll, RegisterQueue, RegisterReplacement, DeleteQueue

\* A message is settled when it is recorded.
LEMMA MarkStep ==
  ASSUME DeliveryInv, MarkProcessed \/ MarkThenAfter
  PROVE  Delivery!Answer(cur) /\ cur \in Events /\ UNCHANGED rows
<1>1. pc = "mark" /\ marked' = marked \cup {cur} /\ UNCHANGED <<log, rows, fires>>
  BY DEF MarkProcessed, MarkThenAfter, server
<1>2. cur \in 1..Len(log) /\ cur \in Events
  BY <1>1, CurIsEvent DEF DeliveryInv, Handling, TypeInv, TypeOK, TypeServer, Events
<1>3. cur \notin marked
  BY <1>1, UnmarkedAtMark DEF DeliveryInv
<1>4. UNCHANGED restart
  BY <1>1, RestartKept
<1>5. QED
  BY <1>1, <1>2, <1>3, <1>4 DEF Delivery!Answer, restart

\* Its callback is started once it is recorded, and only once.
LEMMA CallbackStep ==
  ASSUME DeliveryInv, AfterResponse
  PROVE  Delivery!FollowUp(cur) /\ cur \in Events /\ UNCHANGED rows
<1>1. /\ pc = "after" /\ fires' = [fires EXCEPT ![cur] = @ + 1]
      /\ UNCHANGED <<log, rows, marked>>
  BY DEF AfterResponse, server, db
<1>2. cur \in Events /\ cur \in marked /\ fires[cur] = 0
  BY <1>1, CurHandled DEF DeliveryInv, FiresInv, Handling
<1>3. fires' = [fires EXCEPT ![cur] = 1]
  BY <1>1, <1>2
<1>4. UNCHANGED restart
  BY <1>1, RestartKept
<1>5. QED
  BY <1>1, <1>2, <1>3, <1>4 DEF Delivery!FollowUp, restart

\* The callback requests a restart once.
LEMMA RequestStep ==
  ASSUME DeliveryInv, CreateRestartRequest
  PROVE  Delivery!RequestRestart(cur) /\ cur \in Events /\ OneRowEach'
<1>1. pc = "createRow" /\ UNCHANGED <<log, marked, fires>>
  BY DEF CreateRestartRequest, server, hist
<1>2. cur \in Events /\ rows \in Seq(Row) /\ fires \in [Events -> Nat]
  BY <1>1, CurHandled DEF DeliveryInv, Handling, TypeInv, TypeOK, TypeDb, TypeHist
<1>3. fires[cur] = 1 /\ \A i \in DOMAIN rows : rows[i].msg # cur
  <2>1. fires[cur] # 0 /\ \A i \in DOMAIN rows : rows[i].msg # cur
    BY <1>1 DEF DeliveryInv, RowsInv, Asking
  <2>2. fires[cur] <= 1
    BY <1>2 DEF DeliveryInv, FiresInv
  <2>3. QED
    BY <1>2, <2>1, <2>2
<1>4. PICK n : /\ n \notin DOMAIN rows /\ DOMAIN rows' = DOMAIN rows \cup {n}
               /\ \A i \in DOMAIN rows : rows'[i] = rows[i]
               /\ rows'[n] = [msg |-> cur, status |-> "requested"]
  <2>1. rows' = Append(rows, [msg |-> cur, status |-> "requested"])
    BY <1>3 DEF CreateRestartRequest
  <2>2. [msg |-> cur, status |-> "requested"] \in Row
    BY <1>2 DEF Row, Statuses
  <2>3. /\ Len(rows) + 1 \notin DOMAIN rows /\ DOMAIN rows' = DOMAIN rows \cup {Len(rows) + 1}
        /\ \A i \in DOMAIN rows : rows'[i] = rows[i]
        /\ rows'[Len(rows) + 1] = [msg |-> cur, status |-> "requested"]
    BY <1>2, <2>1, <2>2
  <2>4. QED
    BY <2>3
<1>5. OneRowEach' /\ restart' = [restart EXCEPT ![cur] = "requested"] /\ restart[cur] = "none"
  BY <1>2, <1>3, <1>4, RequestMapped DEF DeliveryInv
<1>6. QED
  BY <1>1, <1>2, <1>3, <1>5 DEF Delivery!RequestRestart, restart

\* A start closes the latest request.
LEMMA EndStep ==
  ASSUME DeliveryInv, CompleteRestart \/ NotifySendFails
  PROVE  /\ \E m \in Events : Delivery!EndRestart(m)
         /\ OneRowEach'
<1>1. /\ Active # {} /\ UNCHANGED <<log, marked, fires>>
      /\ SetStatus(Latest, "completed") \/ SetStatus(Latest, "failed")
  BY DEF CompleteRestart, NotifySendFails, server, hist
<1>2. rows \in Seq(Row)
  BY DEF DeliveryInv, TypeInv, TypeOK, TypeDb
<1>3. Latest \in DOMAIN rows /\ rows[Latest].status \in {"requested", "in_progress"}
  BY <1>1, <1>2, LatestIsActive DEF Active
<1>4. PICK status \in {"completed", "failed"} : SetStatus(Latest, status)
  BY <1>1
<1> DEFINE m == rows[Latest].msg
<1>5. /\ OneRowEach' /\ m \in Events
      /\ restart' = [restart EXCEPT ![m] = status]
      /\ restart[m] = rows[Latest].status
  BY <1>2, <1>3, <1>4, StatusMapped DEF DeliveryInv, Statuses
<1> HIDE DEF m
<1>6. Delivery!EndRestart(m)
  BY <1>1, <1>3, <1>4, <1>5 DEF Delivery!EndRestart, restart
<1>7. QED
  BY <1>5, <1>6

\* The process that leaves begins the latest request, if it did not yet.
LEMMA BeginStep ==
  ASSUME DeliveryInv, MarkRestartInProgress
  PROVE  /\ \/ \E m \in Events : Delivery!BeginRestart(m)
            \/ UNCHANGED restart
         /\ UNCHANGED <<log, marked, fires>>
         /\ OneRowEach'
<1>1. UNCHANGED <<log, marked, fires>>
  BY DEF MarkRestartInProgress, server, hist
<1>2. CASE Active = {}
  <2>1. UNCHANGED rows
    BY <1>2 DEF MarkRestartInProgress
  <2>2. OneRowEach'
    BY <2>1 DEF DeliveryInv, OneRowEach
  <2>3. QED
    BY <1>1, <2>1, <2>2, RestartKept
<1>3. CASE Active # {}
  <2>1. rows \in Seq(Row) /\ SetStatus(Latest, "in_progress")
    BY <1>3 DEF MarkRestartInProgress, DeliveryInv, TypeInv, TypeOK, TypeDb
  <2>2. Latest \in DOMAIN rows /\ rows[Latest].status \in {"requested", "in_progress"}
    BY <1>3, <2>1, LatestIsActive DEF Active
  <2> DEFINE m == rows[Latest].msg
  <2>3. /\ OneRowEach' /\ m \in Events
        /\ restart' = [restart EXCEPT ![m] = "in_progress"]
        /\ restart[m] = rows[Latest].status
    BY <2>1, <2>2, StatusMapped DEF DeliveryInv, Statuses
  <2> HIDE DEF m
  <2>4. CASE restart[m] = "requested"
    <3>1. Delivery!BeginRestart(m)
      BY <1>1, <2>3, <2>4 DEF Delivery!BeginRestart, restart
    <3>2. QED
      BY <1>1, <2>3, <3>1
  <2>5. CASE restart[m] = "in_progress"
    <3>1. UNCHANGED restart
      BY <2>3, <2>5 DEF restart
    <3>2. QED
      BY <1>1, <2>3, <3>1
  <2>6. QED
    BY <2>2, <2>3, <2>4, <2>5
<1>4. QED
  BY <1>2, <1>3

LEMMA StepMaps == ASSUME DeliveryInv, [Next]_vars PROVE AbstractStep /\ OneRowEach'
<1> USE DEF AbstractStep, Delivery!Next
<1>i. OneRowEach /\ TypeInv
  BY DEF DeliveryInv
<1>k. ASSUME UNCHANGED rows PROVE OneRowEach'
  BY <1>i, <1>k DEF OneRowEach
<1>1. CASE UNCHANGED <<log, rows, marked, fires>>
  BY <1>1, <1>k, RestartKept DEF Delivery!vars, restart
<1>2. CASE UNCHANGED <<rows, marked, fires>> /\ Len(log) < MaxEvents
             /\ Len(log) \in Nat /\ Len(log') = Len(log) + 1
  <2>1. Len(log) + 1 \in Events /\ 1..Len(log') = 1..Len(log) \cup {Len(log) + 1}
    BY <1>2, BoundsAssumption DEF Events
  <2>2. Delivery!Receive(Len(log) + 1)
    BY <1>2, <2>1, RestartKept DEF Delivery!Receive, restart
  <2>3. QED
    BY <1>2, <1>k, <2>1, <2>2
<1>3. CASE MarkProcessed \/ MarkThenAfter
  BY <1>3, <1>k, MarkStep
<1>4. CASE AfterResponse
  BY <1>4, <1>k, CallbackStep
<1>5. CASE CreateRestartRequest
  BY <1>5, RequestStep
<1>6. CASE CompleteRestart \/ NotifySendFails
  BY <1>6, EndStep
<1>7. CASE MarkRestartInProgress
  BY <1>7, BeginStep DEF Delivery!vars, restart
<1>8. UNCHANGED marked \/ MarkProcessed \/ MarkThenAfter
  BY ProcessedFrame DEF Cleanup, hist
<1>9. QED
  BY <1>i, <1>1, <1>2, <1>3, <1>4, <1>5, <1>6, <1>7, <1>8, LogFrame, RowsFrame, FiresFrame

\* BotEventLoop implements CommandDelivery: through all crashes, redeliveries and
\* restarts a message is answered for good once, its callback is started once and
\* after that, and its restart request only moves forward.
THEOREM BotImplementsDelivery == Spec => ImplementsDelivery
<1>1. Init => Delivery!Init /\ OneRowEach
  BY InitMaps
<1>2. TypeInv /\ MarksInv /\ FiresInv /\ [Next]_vars => FiresInv'
  BY StepFires
<1>3. TypeInv /\ FiresInv /\ RowsInv /\ [Next]_vars => RowsInv'
  BY StepRequests
<1>4. DeliveryInv /\ [Next]_vars => [Delivery!Next]_(Delivery!vars) /\ OneRowEach'
  BY StepMaps DEF AbstractStep
<1>5. Init => DeliveryInv
  BY <1>1, InitType, InitMarks, InitFires DEF DeliveryInv
<1>6. DeliveryInv /\ [Next]_vars => DeliveryInv'
  BY <1>2, <1>3, <1>4, StepTypeInv, StepMarks DEF DeliveryInv
<1>7. QED
  BY <1>1, <1>4, <1>5, <1>6, PTL DEF Spec, ImplementsDelivery, Delivery!Spec
===========================================================================
