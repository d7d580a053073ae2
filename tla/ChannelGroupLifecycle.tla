----------------------- MODULE ChannelGroupLifecycle -----------------------
(* The rows that package channelgroup keeps of its groups, and the user groups
   and channels of Zulip that they name. Rows are made by CreateChannelGroup and
   ImportZulipUserGroup and deleted by DeleteChannelGroup, by the reconciliation
   at start (NewClient), and by a listener with an event queue of its own, to
   which others' deletions come. A group may have a channel folder. Members and
   subscriptions are the subject of ChannelGroupMembership. *)
EXTENDS ChannelFolders, Sequences

CONSTANTS
  Groups,       \* user groups by their ids
  MaxCalls,     \* bound on the calls of the bot
  MaxChanges,   \* bound on the changes others make
  MaxFaults,    \* bound on failing requests, statements and queues
  MaxCrashes    \* bound on crashes

ASSUME BoundsAssumption ==
  /\ MaxCalls \in Nat /\ MaxChanges \in Nat
  /\ MaxFaults \in Nat /\ MaxCrashes \in Nat
  /\ Groups \cap Channels = {} /\ Nil \notin Groups

(* Nil is no folder and no set of channels. *)
ASSUME NilAssumption == Nil \notin Nat /\ \A cs \in SUBSET Channels : cs # Nil

VARIABLES
  ug,       \* the user group of each id: "none", "active", "deactivated"
  subs,     \* the channels the bot is subscribed to
  log,      \* all events so far
  live,     \* the event queues that the server still has
  queues,   \* the number of queues ever registered
  view,     \* the active groups as the response cache has them
  rows,     \* the channels of each group that has a row, else Nil
  folder,   \* the folder in each row, or Nil
  stored,   \* the stored queue and last event id, or Nil
  lst,      \* the listener
  job,      \* the call in progress
  missed,   \* groups and channels whose end the listener will not hear of
  excused,  \* groups that may be active without a row
  loose,    \* folders that no longer agree with the rows
  count     \* what the bounds count

table == <<rows, folder>>
zulip == <<ug, subs, log, live, queues>>
ghosts == <<missed, excused, loose>>
vars == <<folders, zulip, view, table, stored, lst, job, ghosts, count>>

Active == {g \in Groups : ug[g] = "active"}
Tracked == {g \in Groups : rows[g] # Nil}
Listed == UNION {rows[g] : g \in Tracked}
(* What a row names though it is gone. *)
Dead == (Tracked \ Active) \cup (Listed \ subs)

Idle == [op |-> "none"]
Off == [at |-> "off"]

Init ==
  /\ ug \in [Groups -> {"none", "active"}]
  /\ subs = Channels
  /\ log = <<>>
  /\ live = {} /\ queues = 0
  /\ view = Active
  /\ rows \in {r \in [Groups -> {Nil} \cup SUBSET Channels] :
                 \A g \in Groups : r[g] # Nil <=> ug[g] = "active"}
  /\ folder = [g \in Groups |-> Nil]
  /\ InitFolders
  /\ stored = Nil
  /\ lst = Off
  /\ job = Idle
  /\ missed = {} /\ excused = {} /\ loose = {}
  /\ count = [calls |-> 0, changes |-> 0, faults |-> 0, crashes |-> 0]

Counted(what, bound) ==
  /\ count[what] < bound
  /\ count' = [count EXCEPT ![what] = @ + 1]
Fault == Counted("faults", MaxFaults)

-----------------------------------------------------------------------------
(* Zulip, external. *)

Event(kind, id) == log' = Append(log, [kind |-> kind, id |-> id])

(* The listener has looked g up and is about to delete its row. *)
Verified(g) == lst.at = "verified" /\ lst.id = g

SetActive(g) ==
  /\ ug' = [ug EXCEPT ![g] = "active"]
  /\ missed' = missed \ {g}
  /\ excused' = IF Verified(g) THEN excused \cup {g} ELSE excused

(* ... and nobody puts that on record. *)
ActivatedUnawares(g) ==
  /\ ug' = [ug EXCEPT ![g] = "active"]
  /\ missed' = missed \ {g}
  /\ excused' = excused \cup {g}

SetDeactivated(g) ==
  /\ ug' = [ug EXCEPT ![g] = "deactivated"]
  /\ Event("user_group", g)
  /\ excused' = excused \ {g}
  /\ UNCHANGED missed

(* Rows of these groups are deleted, and with them what is known of their
   folders, which stay. *)
DeleteRows(gs) ==
  /\ folder' = [g \in Groups |-> IF g \in gs THEN Nil ELSE folder[g]]
  /\ loose' = loose \cup ({folder[g] : g \in gs} \ {Nil})

Changed == UNCHANGED <<live, queues, view, table, stored, lst, job, loose>>

(* Others: an administrator deactivates a group, or activates one again, of
   which the bot learns nothing; a channel is archived or deleted. *)
AdminDeactivates(g) ==
  /\ Counted("changes", MaxChanges)
  /\ g \in Active
  /\ SetDeactivated(g)
  /\ Changed /\ UNCHANGED <<folders, subs>>

AdminActivates(g) ==
  /\ Counted("changes", MaxChanges)
  /\ ug[g] = "deactivated"
  /\ ActivatedUnawares(g)
  /\ Changed /\ UNCHANGED <<folders, subs, log>>

ChannelGoes(c) ==
  /\ Counted("changes", MaxChanges)
  /\ c \in subs
  /\ subs' = subs \ {c}
  /\ Event("channel", c)
  /\ Changed /\ UNCHANGED <<folders, ug, missed, excused>>

ChannelMoves(c) ==
  /\ Counted("changes", MaxChanges)
  /\ \E f \in {Nil, Foreign} \cup open : f # in[c] /\ Move({c}, f)
  /\ Changed /\ UNCHANGED <<made, open, ug, subs, log, missed, excused>>

(* The server drops a queue, or the cached response expires. *)
QueueExpires ==
  /\ Fault
  /\ \E q \in live : live' = live \ {q}
  /\ UNCHANGED <<folders, ug, subs, log, queues, view, table, stored, lst, job, ghosts>>

ViewExpires ==
  /\ view # Active
  /\ view' = Active
  /\ UNCHANGED <<folders, zulip, table, stored, lst, job, ghosts, count>>

-----------------------------------------------------------------------------
(* The calls of the bot, which makes one at a time, while the listener runs.
   A crash ends the call where it is. *)

Running == lst.at # "off" /\ lst.at # "reconcile" /\ lst.at # "ensure"
Goto(at) == job' = [job EXCEPT !.at = at]
Return == job' = Idle
Step == UNCHANGED <<view, stored, lst, subs, live, queues>>
NoChange == UNCHANGED <<folders, ug, log, table, ghosts>>

(* A step fails: Zulip refuses it for that reason, or the request or statement
   does not succeed. A request that does not succeed may have been carried out all
   the same, only its answer was lost. *)
Refused(reason) == (reason /\ UNCHANGED count) \/ Fault

Call ==
  /\ Running
  /\ job = Idle
  /\ Counted("calls", MaxCalls)
  /\ \E g \in Groups :
       LET Begin(op, at, cs, f) ==
             job' = [op |-> op, at |-> at, group |-> g, channels |-> cs, folder |-> f,
                     new |-> f = Nil]
       IN
       \/ ug[g] = "none" /\ \E cs \in SUBSET Channels : Begin("create", "group", cs, Nil)
       \/ ug[g] = "deactivated" /\ Begin("reuse", "group", {}, Nil)
       \/ g \in Active \cap Tracked /\ Begin("delete", "group", {}, folder[g])
       \/ /\ g \in Tracked
          /\ \/ \E c \in Channels :
                  Begin("update", IF c \in rows[g] THEN "row" ELSE "subscribe", {c}, folder[g])
             \/ Begin("add", IF folder[g] = Nil THEN "create" ELSE "assign",
                      rows[g], folder[g])
             \/ folder[g] # Nil /\ \E op \in {"remove", "unassign"} :
                  Begin(op, IF op = "remove" THEN "check" ELSE "take", rows[g], folder[g])
  /\ Step /\ NoChange

(* CreateChannelGroup: the user group, perhaps a folder, subscriptions, and the
   row. What fails is undone in the opposite order. *)
CreateGroup ==
  /\ job.op = "create" /\ job.at = "group"
  /\ \/ SetActive(job.group) /\ (Goto("folder") \/ Goto("row")) /\ UNCHANGED count
     \/ /\ Fault /\ Return
        /\ ActivatedUnawares(job.group) \/ UNCHANGED <<ug, missed, excused>>
  /\ Step /\ UNCHANGED <<folders, log, table, loose>>

(* A folder is created and nobody gets to know its id. *)
StrayFolder == CreateFolder /\ loose' = loose \cup {made'}

CreateGroupFolder ==
  /\ job.op = "create" /\ job.at = "folder"
  /\ \/ /\ CreateFolder
        /\ job' = [job EXCEPT !.at = "assign", !.folder = made']
        /\ UNCHANGED <<loose, count>>
     \/ Fault /\ Goto("undo") /\ (StrayFolder \/ UNCHANGED <<folders, loose>>)
  /\ Step /\ UNCHANGED <<ug, log, table, missed, excused>>

CreateAssign ==
  LET cs == job.channels  f == job.folder IN
  /\ job.op = "create" /\ job.at = "assign"
  /\ \/ AddChannelsToFolder(cs, f) /\ Goto("row") /\ UNCHANGED count
     \/ Refused(Conflicts(cs, f) # {}) /\ AddingStops(cs, f) /\ Goto("undo_folder")
  /\ Step /\ UNCHANGED <<ug, log, table, ghosts>>

CreateRow ==
  LET g == job.group IN
  /\ job.op = "create" /\ job.at = "row"
  /\ \/ /\ rows' = [rows EXCEPT ![g] = job.channels]
        /\ folder' = [folder EXCEPT ![g] = job.folder]
        /\ missed' = missed \cup ({g} \ Active) \cup (job.channels \ subs)
        /\ Return /\ UNCHANGED count
     \/ /\ Fault
        /\ Goto(IF job.folder = Nil THEN "undo" ELSE "undo_folder")
        /\ UNCHANGED <<table, missed>>
  /\ Step /\ UNCHANGED <<folders, ug, log, excused, loose>>

UndoFolder ==
  LET cs == job.channels  f == job.folder IN
  /\ job.op = "create" /\ job.at = "undo_folder"
  /\ Goto("undo")
  /\ \/ RollbackCreatedChannelFolder(cs, f) /\ UNCHANGED count
     \/ Fault /\ RollbackStops(cs, f)
  /\ loose' = IF Conflicts(cs, f) = {} /\ Inside(f) \subseteq cs /\ count' = count
              THEN loose ELSE loose \cup {f}
  /\ Step /\ UNCHANGED <<ug, log, table, missed, excused>>

(* The last undo deactivates the user group; nobody tries again if that fails, and
   it is over as well if only the answer is lost. *)
UndoCreate ==
  LET g == job.group IN
  /\ job.op = "create" /\ job.at = "undo"
  /\ Return
  /\ \/ SetDeactivated(g) /\ UNCHANGED count
     \/ Fault /\ excused' = excused \cup {g} /\ UNCHANGED <<ug, log, missed>>
  /\ Step /\ UNCHANGED <<folders, table, loose>>

(* reuseArchivedChannelGroup and ImportZulipUserGroup, which keeps a row that is
   there and is not undone. *)
Reactivate ==
  /\ job.op = "reuse" /\ job.at = "group"
  /\ \/ SetActive(job.group) /\ Goto("row") /\ UNCHANGED count
     \/ /\ Fault /\ Return
        /\ ActivatedUnawares(job.group) \/ UNCHANGED <<ug, missed, excused>>
  /\ Step /\ UNCHANGED <<folders, log, table, loose>>

Import ==
  LET g == job.group IN
  /\ job.op = "reuse" /\ job.at = "row"
  /\ Return
  /\ \/ /\ rows' = IF rows[g] = Nil THEN [rows EXCEPT ![g] = {}] ELSE rows
        /\ missed' = IF rows[g] = Nil THEN missed \cup ({g} \ Active) ELSE missed
        /\ UNCHANGED <<excused, count>>
     \/ Fault /\ excused' = excused \cup {g} /\ UNCHANGED <<rows, missed>>
  /\ Step /\ UNCHANGED <<folders, ug, log, folder, loose>>

(* DeleteChannelGroup deactivates the user group, then deletes the row. *)
Deactivate ==
  /\ job.op = "delete" /\ job.at = "group"
  /\ \/ SetDeactivated(job.group) /\ Goto("row") /\ UNCHANGED count
     \/ /\ Fault /\ Return
        /\ SetDeactivated(job.group) \/ UNCHANGED <<ug, log, missed, excused>>
  /\ Step /\ UNCHANGED <<folders, table, loose>>

DeleteRow ==
  LET g == job.group IN
  /\ job.op = "delete" /\ job.at = "row"
  /\ Return
  /\ \/ /\ rows' = [rows EXCEPT ![g] = Nil]
        /\ DeleteRows({g})
        /\ excused' = excused \cup ({g} \cap Active)
        /\ UNCHANGED count
     \/ Fault /\ UNCHANGED <<table, excused, loose>>
  /\ Step /\ UNCHANGED <<folders, ug, log, missed>>

(* UpdateChannelGroupChannels: members, if any, enter a channel that the row does not
   have, it goes into the folder, then the row has it. *)
UpdateSubscribe ==
  /\ job.op = "update" /\ job.at = "subscribe"
  /\ \/ Goto(IF job.folder = Nil THEN "row" ELSE "folder") /\ UNCHANGED count
     \/ Refused(~(job.channels \subseteq subs)) /\ Return
  /\ Step /\ NoChange

UpdateFolder ==
  LET cs == job.channels  f == job.folder IN
  /\ job.op = "update" /\ job.at = "folder"
  /\ \/ AddChannelsToFolder(cs, f) /\ Goto("row") /\ UNCHANGED count
     \/ Refused(Conflicts(cs, f) # {}) /\ AddingStops(cs, f) /\ Return
  /\ Step /\ UNCHANGED <<ug, log, table, ghosts>>

UpdateRow ==
  LET g == job.group IN
  /\ job.op = "update" /\ job.at = "row"
  /\ Return
  /\ \/ /\ g \in Tracked
        /\ rows' = [rows EXCEPT ![g] = @ \cup job.channels]
        /\ missed' = missed \cup (job.channels \ subs)
        /\ UNCHANGED count
     \/ Refused(g \notin Tracked) /\ UNCHANGED <<rows, missed>>
  /\ Step /\ UNCHANGED <<folders, ug, log, folder, excused, loose>>

(* UpdateChannelGroupFolder, add: a folder is created and recorded, and the
   channels are put into it; a row that has one only gets its channels in. *)
FolderCreate ==
  /\ job.op = "add" /\ job.at = "create"
  /\ \/ /\ CreateFolder
        /\ job' = [job EXCEPT !.at = "record", !.folder = made']
        /\ UNCHANGED <<loose, count>>
     \/ Fault /\ Return /\ (StrayFolder \/ UNCHANGED <<folders, loose>>)
  /\ Step /\ UNCHANGED <<ug, log, table, missed, excused>>

(* UPDATE without a row changes none and is no error. *)
FolderRecord ==
  LET g == job.group  f == job.folder IN
  /\ job.op = "add" /\ job.at = "record"
  /\ \/ /\ Goto("assign")
        /\ IF g \in Tracked
           THEN folder' = [folder EXCEPT ![g] = f] /\ UNCHANGED loose
           ELSE loose' = loose \cup {f} /\ UNCHANGED folder
        /\ UNCHANGED count
     \/ Fault /\ Goto("undo") /\ UNCHANGED <<folder, loose>>
  /\ Step /\ UNCHANGED <<folders, ug, log, rows, missed, excused>>

FolderAssign ==
  LET cs == job.channels  f == job.folder IN
  /\ job.op = "add" /\ job.at = "assign"
  /\ \/ AddChannelsToFolder(cs, f) /\ Return /\ UNCHANGED count
     \/ /\ Refused(Conflicts(cs, f) # {})
        /\ AddingStops(cs, f)
        /\ IF job.new THEN Goto("undo") ELSE Return
  /\ Step /\ UNCHANGED <<ug, log, table, ghosts>>

\* Mutant of FolderUndo: the row keeps the folder.
FolderUndo_Recorded ==
  LET f == job.folder IN
  /\ job.op = "add" /\ job.at = "undo"
  /\ Return
  /\ IF Inside(f) = {} THEN ArchiveFolder(f) /\ UNCHANGED loose
                       ELSE loose' = loose \cup {f} /\ UNCHANGED folders
  /\ Step /\ UNCHANGED <<ug, log, table, missed, excused, count>>

(* The new folder is forgotten and archived. Channels are not taken out again:
   with one in it the folder stays. Errors are ignored. *)
FolderUndo ==
  LET f == job.folder
      Forget == folder' = [folder EXCEPT ![job.group] = Nil]
      Archive == IF Inside(f) = {} THEN ArchiveFolder(f) ELSE UNCHANGED folders
  IN
  /\ job.op = "add" /\ job.at = "undo"
  /\ Return
  /\ \/ Forget /\ Archive /\ UNCHANGED count
     \/ Fault /\ (Forget \/ UNCHANGED folder) /\ (Archive \/ UNCHANGED folders)
  /\ loose' = IF Inside(f) = {} /\ count' = count THEN loose ELSE loose \cup {f}
  /\ Step /\ UNCHANGED <<ug, log, rows, missed, excused>>

(* ... remove: refused if other channels are in the folder, as far as a list of
   the channels shows that may come from the cache; else its channels are taken
   out and it is archived. Unassign only takes the channels out. *)
FolderCheck ==
  /\ job.op = "remove" /\ job.at = "check"
  /\ \/ Goto("take") /\ UNCHANGED count
     \/ Refused(~(Inside(job.folder) \subseteq job.channels)) /\ Return
  /\ Step /\ NoChange

FolderTake ==
  LET cs == job.channels  f == job.folder IN
  /\ job.op \in {"remove", "unassign"} /\ job.at = "take"
  /\ \/ /\ RemoveChannelsFromFolder(cs, f)
        /\ IF job.op = "remove" THEN Goto("archive") ELSE Return
        /\ UNCHANGED count
     \/ Refused(Conflicts(cs, f) # {}) /\ RemovingStops(cs, f) /\ Return
  /\ Step /\ UNCHANGED <<ug, log, table, ghosts>>

FolderArchive ==
  LET f == job.folder IN
  /\ job.op = "remove" /\ job.at = "archive"
  /\ \/ ArchiveFolder(f) /\ Goto("forget") /\ UNCHANGED <<loose, count>>
     \/ Refused(Inside(f) # {}) /\ Return /\ UNCHANGED <<folders, loose>>
     \/ Fault /\ ArchiveFolder(f) /\ Return /\ loose' = loose \cup {f}
  /\ Step /\ UNCHANGED <<ug, log, table, missed, excused>>

FolderForget ==
  /\ job.op = "remove" /\ job.at = "forget"
  /\ Return
  /\ \/ folder' = [folder EXCEPT ![job.group] = Nil] /\ UNCHANGED <<loose, count>>
     \/ Fault /\ loose' = loose \cup {job.folder} /\ UNCHANGED folder
  /\ Step /\ UNCHANGED <<folders, ug, log, rows, missed, excused>>

CallStep ==
  \/ CreateGroup \/ CreateGroupFolder \/ CreateAssign \/ CreateRow
  \/ UndoFolder \/ UndoCreate \/ Reactivate \/ Import
  \/ Deactivate \/ DeleteRow \/ UpdateSubscribe \/ UpdateFolder \/ UpdateRow
  \/ FolderCreate \/ FolderRecord \/ FolderAssign \/ FolderUndo
  \/ FolderCheck \/ FolderTake \/ FolderArchive \/ FolderForget

-----------------------------------------------------------------------------
(* Start: NewClient reads the rows and what Zulip has, deletes what is gone, and
   makes sure of a queue. An error ends the process. *)

Listening == UNCHANGED <<folders, zulip, job, excused>>

StartRead ==
  /\ lst = Off
  /\ lst' = [at |-> "reconcile", groups |-> Active, subs |-> subs, rows |-> rows]
  /\ view' = Active
  /\ missed' = {}
  /\ Listening /\ UNCHANGED <<table, stored, loose, count>>

\* Mutant of Reconcile: only missing user groups count, no deactivated ones.
Reconcile_Deactivated ==
  /\ lst.at = "reconcile"
  /\ rows' = [g \in Groups |-> IF lst.rows[g] = Nil THEN Nil ELSE lst.rows[g] \cap lst.subs]
  /\ lst' = [at |-> "ensure", seen |-> lst.groups \cup lst.subs]
  /\ DeleteRows({})
  /\ UNCHANGED <<folders, zulip, job, excused, view, stored, missed, count>>

Reconcile ==
  /\ lst.at = "reconcile"
  /\ rows' = [g \in Groups |-> IF lst.rows[g] = Nil \/ g \notin lst.groups THEN Nil
                               ELSE lst.rows[g] \cap lst.subs]
  /\ DeleteRows(Tracked \ lst.groups)
  /\ excused' = excused \cup {g \in Active : g \notin lst.groups}
  /\ lst' = [at |-> "ensure", seen |-> lst.groups \cup lst.subs]
  /\ UNCHANGED <<folders, zulip, job, view, stored, missed, count>>

Connected(q, n) == [at |-> "consume", queue |-> q, cursor |-> n, polled |-> n]

(* What was seen there and is gone by the time a queue is registered will not be
   heard of. *)
Register(seen) ==
  /\ queues' = queues + 1
  /\ live' = live \cup {queues'}
  /\ missed' = missed \cup (Dead \cap seen)
  /\ UNCHANGED <<folders, ug, subs, log, view, table, job, excused, loose>>

ResumeQueue ==
  /\ lst.at = "ensure"
  /\ stored # Nil
  /\ lst' = Connected(stored.queue, stored.cursor)
  /\ Listening /\ UNCHANGED <<view, table, stored, missed, loose, count>>

RegisterAtStart ==
  /\ lst.at = "ensure"
  /\ stored = Nil
  /\ Register(lst.seen)
  /\ \/ /\ stored' = [queue |-> queues', cursor |-> Len(log)]
        /\ lst' = Connected(queues', Len(log))
        /\ UNCHANGED count
     \/ Fault /\ lst' = Off /\ UNCHANGED stored

-----------------------------------------------------------------------------
(* The listener: runChannelGroupEventListener and below. *)

Consuming == lst.at = "consume" /\ lst.queue \in live
HasEvent == lst.polled < Len(log)
Current == log[lst.polled + 1]
(* The event is done with; only a handled one moves the cursor. *)
Next1 == lst.polled + 1
Handled == [lst EXCEPT !.at = "save", !.polled = Next1, !.cursor = Next1]
Failed  == [lst EXCEPT !.at = "consume", !.polled = Next1]

RemoveChannelFromChannelGroups ==
  /\ Consuming /\ HasEvent /\ Current.kind = "channel"
  /\ \/ /\ rows' = [g \in Groups |-> IF rows[g] = Nil THEN Nil ELSE rows[g] \ {Current.id}]
        /\ lst' = Handled
        /\ UNCHANGED <<missed, count>>
     \/ /\ Fault
        /\ lst' = Failed
        /\ missed' = missed \cup {Current.id}
        /\ UNCHANGED rows
  /\ Listening /\ UNCHANGED <<view, folder, stored, loose>>

\* Mutant of VerifyDeleted: an event that says a group is gone is believed.
VerifyDeleted_Believed ==
  /\ Consuming /\ HasEvent /\ Current.kind = "user_group"
  /\ lst' = [at |-> "verified", queue |-> lst.queue, cursor |-> lst.cursor,
             polled |-> lst.polled, id |-> Current.id]
  /\ UNCHANGED <<folders, zulip, job, view, table, stored, ghosts, count>>

(* removeDeletedUserGroupChannelGroup asks whether the group is active, and the
   cache answers. *)
VerifyDeleted ==
  LET g == Current.id IN
  /\ Consuming /\ HasEvent /\ Current.kind = "user_group"
  /\ \/ /\ g \in view
        /\ lst' = Handled
        /\ missed' = IF g \notin Active THEN missed \cup {g} ELSE missed
        /\ UNCHANGED <<excused, count>>
     \/ /\ g \notin view
        /\ lst' = [at |-> "verified", queue |-> lst.queue, cursor |-> lst.cursor,
                   polled |-> lst.polled, id |-> g]
        /\ excused' = IF g \in Active THEN excused \cup {g} ELSE excused
        /\ UNCHANGED <<missed, count>>
     \/ /\ Fault
        /\ lst' = Failed
        /\ missed' = missed \cup {g}
        /\ UNCHANGED excused
  /\ UNCHANGED <<folders, zulip, job, view, table, stored, loose>>

DeleteVerified ==
  LET done == [at |-> "save", queue |-> lst.queue, cursor |-> Next1, polled |-> Next1]
  IN
  /\ lst.at = "verified"
  /\ \/ /\ rows' = [rows EXCEPT ![lst.id] = Nil]
        /\ DeleteRows({lst.id})
        /\ lst' = done
        /\ UNCHANGED <<missed, count>>
     \/ /\ Fault
        /\ lst' = [done EXCEPT !.at = "consume", !.cursor = lst.cursor]
        /\ missed' = missed \cup {lst.id}
        /\ UNCHANGED <<table, loose>>
  /\ Listening /\ UNCHANGED <<view, stored>>

\* Mutant of SaveCursor: the position of the next event is stored.
SaveCursor_Next ==
  /\ lst.at = "save"
  /\ lst' = [lst EXCEPT !.at = "consume"]
  /\ stored' = [queue |-> lst.queue, cursor |-> lst.cursor + 1]
  /\ UNCHANGED <<folders, zulip, job, view, table, ghosts, count>>

SaveCursor ==
  /\ lst.at = "save"
  /\ lst' = [lst EXCEPT !.at = "consume"]
  /\ \/ stored' = [queue |-> lst.queue, cursor |-> lst.cursor] /\ UNCHANGED count
     \/ Fault /\ UNCHANGED stored
  /\ Listening /\ UNCHANGED <<view, table, missed, loose>>

(* Polling stops with an error of another kind: after a wait the same queue is
   connected to again, from the last event that was handled. *)
Reconnect ==
  /\ Consuming /\ Fault
  /\ lst' = Connected(lst.queue, lst.cursor)
  /\ Listening /\ UNCHANGED <<view, table, stored, missed, loose>>

(* The channel is closed without an error: the goroutine returns. *)
ListenerEnds ==
  /\ Consuming /\ Fault
  /\ lst' = [at |-> "ended"]
  /\ Listening /\ UNCHANGED <<view, table, stored, missed, loose>>

(* The queue is gone: its state is cleared. *)
ClearQueue ==
  /\ lst.at = "consume" /\ lst.queue \notin live
  /\ lst' = [lst EXCEPT !.at = "replace"]
  /\ \/ stored' = Nil /\ UNCHANGED count
     \/ Fault /\ UNCHANGED stored
  /\ Listening /\ UNCHANGED <<view, table, missed, loose>>

(* Another is registered and stored. If that fails the old one is tried again, and
   found gone again; one that was registered and not stored nobody asks. *)
ReplaceQueue ==
  /\ lst.at = "replace"
  /\ \/ /\ Register(Groups \cup Channels)
        /\ stored' = [queue |-> queues', cursor |-> Len(log)]
        /\ lst' = Connected(queues', Len(log))
        /\ UNCHANGED count
     \/ /\ Fault
        /\ lst' = [lst EXCEPT !.at = "consume"]
        /\ Listening /\ UNCHANGED <<view, table, stored, missed, loose>>

StartStep == StartRead \/ Reconcile \/ ResumeQueue \/ RegisterAtStart
ListenerStep ==
  \/ RemoveChannelFromChannelGroups \/ VerifyDeleted \/ DeleteVerified
  \/ SaveCursor \/ ClearQueue \/ ReplaceQueue

(* The process dies. A call is left where it was. *)
Crash ==
  /\ Counted("crashes", MaxCrashes)
  /\ lst # Off
  /\ lst' = Off
  /\ job' = Idle
  /\ IF job = Idle THEN UNCHANGED <<excused, loose>>
     ELSE /\ excused' = excused \cup {job.group}
          /\ loose' = loose \cup ({job.folder} \ {Nil})
  /\ UNCHANGED <<folders, zulip, view, table, stored, missed>>

Next ==
  \/ \E g \in Groups : AdminDeactivates(g) \/ AdminActivates(g)
  \/ \E c \in Channels : ChannelGoes(c) \/ ChannelMoves(c)
  \/ QueueExpires \/ ViewExpires
  \/ Call \/ CallStep
  \/ StartStep \/ ListenerStep \/ Reconnect \/ ListenerEnds
  \/ Crash

(* The process starts again, its goroutines run, requests are answered, and a
   cached response expires. *)
Spec ==
  /\ Init /\ [][Next]_vars
  /\ WF_vars(ViewExpires) /\ WF_vars(CallStep)
  /\ WF_vars(StartStep) /\ WF_vars(ListenerStep)

-----------------------------------------------------------------------------
(* Types, and that the cursor of the listener never runs ahead of what it polled,
   nor the stored one ahead of the listener. *)
TypeOK ==
  /\ ug \in [Groups -> {"none", "active", "deactivated"}]
  /\ subs \subseteq Channels
  /\ live \subseteq 1..queues
  /\ view \subseteq Groups
  /\ \A g \in Tracked : rows[g] \subseteq Channels
  /\ missed \subseteq Groups \cup Channels
  /\ excused \subseteq Groups
  /\ FoldersOK
  /\ folder \in [Groups -> {Nil} \cup 1..made] /\ loose \subseteq 1..made
  /\ stored # Nil => stored.queue \in 1..queues /\ stored.cursor \in 0..Len(log)
  /\ lst.at \in {"consume", "verified", "save", "replace"} =>
       /\ lst.cursor <= lst.polled /\ lst.polled <= Len(log)
       /\ stored # Nil => stored.queue # lst.queue \/ stored.cursor <= lst.cursor

(* Between calls, every active user group of the bot has a row: a failed create
   leaves nothing behind, and no late, repeated or stale event takes the row of
   a group that is in use (CreateChannelGroupExecute,
   removeDeletedUserGroupChannelGroup). Left out are groups whose call was cut
   short by a crash, could not be undone or did not learn that its request had been
   carried out, groups that an administrator activated, and groups that were
   activated while the listener or the reconciliation acted on an answer from
   before. *)
ActiveIsTracked ==
  job = Idle => Active \subseteq Tracked \cup excused

(* Between calls, every folder of the bot that is not archived belongs to exactly one
   row, and every row with a folder to one that is not archived: what fails is
   undone (rollbackCreatedChannelFolder, addChannelGroupFolder). Left out are the
   folders of deleted rows, of calls cut short or whose undo failed, those that were
   created or archived by a request whose answer was lost, and those that a failed
   folder add could not archive because a channel was in them. *)
FoldersAgree ==
  job = Idle =>
    /\ \A f \in open \ loose : Cardinality({g \in Tracked : folder[g] = f}) = 1
    /\ \A g \in Tracked : folder[g] \in {Nil} \cup open \cup loose

(* What is gone at Zulip goes from the rows, crashes included, unless its event
   was missed: handling it failed, the cache still had the group, the queue was
   replaced or first registered after the event, or a call wrote the row after
   it (initializeChannelGroups, handleChannelGroupEvent). *)
DeadGoes ==
  \A x \in Groups \cup Channels :
    x \in Dead \ missed ~> x \notin Dead \/ x \in missed \/ lst.at = "ended"
=============================================================================
