-------------------- MODULE ChannelGroupLifecycleProofs --------------------
(* Proofs about ChannelGroupLifecycle, for any groups and channels and any bounds:
   what calls that fail, crashes, restarts and late events leave of rows, active
   user groups and channel folders. *)
EXTENDS ChannelGroupLifecycle, FiniteSetTheorems, SequenceTheorems, TLAPS

AnyEvent == [kind : {"user_group"}, id : Groups] \cup [kind : {"channel"}, id : Channels]

Job == [op : {"create", "reuse", "delete", "update", "add", "remove", "unassign"},
        at : {"group", "folder", "assign", "row", "undo_folder", "undo", "subscribe",
              "create", "record", "check", "take", "archive", "forget"},
        group : Groups, channels : SUBSET Channels, folder : {Nil} \cup Nat, new : BOOLEAN]

AtStart == {"off", "reconcile", "ensure"}
Polling == [at : {"consume", "save", "replace"}, queue : Nat, cursor : Nat, polled : Nat] \cup
           [at : {"verified"}, queue : Nat, cursor : Nat, polled : Nat, id : Groups]

MustHaveFolder ==
  \/ job.op = "create" /\ job.at \in {"assign", "undo_folder"}
  \/ job.op = "add" /\ job.at \in {"assign", "record", "undo"}
  \/ job.op = "remove"

(* Calls begin when the process has started. *)
JobInv ==
  \/ job = Idle
  \/ /\ job \in Job /\ lst.at \notin AtStart
     /\ job.folder # Nil => job.folder \in 1 .. made
     /\ MustHaveFolder => job.folder # Nil

(* What the listener has in hand. *)
LstInv ==
  \/ lst = Off \/ lst.at = "ended"
  \/ /\ lst.at = "reconcile"
     /\ lst.groups \subseteq Groups /\ lst.subs \subseteq Channels /\ lst.rows = rows
  \/ lst.at = "ensure" /\ lst.seen \subseteq Groups \cup Channels
  \/ /\ lst \in Polling /\ lst.queue \in 1 .. queues
     /\ lst.at = "verified" => lst.polled < Len(log)

TypeInv ==
  /\ TypeOK
  /\ rows \in [Groups -> {Nil} \cup SUBSET Channels]
  /\ log \in Seq(AnyEvent)
  /\ queues \in Nat /\ made \in Nat
  /\ JobInv /\ LstInv

-----------------------------------------------------------------------------
(* Which steps there are, and what each kind leaves alone. *)

Others ==
  \/ \E g \in Groups : AdminDeactivates(g) \/ AdminActivates(g)
  \/ \E c \in Channels : ChannelGoes(c) \/ ChannelMoves(c)
  \/ QueueExpires \/ ViewExpires

Listen == StartStep \/ ListenerStep \/ Reconnect \/ ListenerEnds

(* Every step is one of others, of a call, or of the listener, or a crash. *)
LEMMA NextSplit ==
  ASSUME [Next]_vars
  PROVE  Others \/ Call \/ CallStep \/ Listen \/ Crash \/ UNCHANGED vars
BY DEF Next, Others, Listen

(* A call in progress has a group, channels and perhaps a folder. *)
LEMMA JobFacts ==
  ASSUME TypeInv, job # Idle
  PROVE  /\ job \in Job /\ job.group \in Groups /\ job.channels \subseteq Channels
         /\ job.folder \in {Nil} \cup 1 .. made
         /\ lst.at \notin AtStart
BY DEF TypeInv, JobInv, Job

LEMMA CallSteps ==
  ASSUME CallStep
  PROVE  job # Idle
BY DEF CallStep, CreateGroup, CreateGroupFolder, CreateAssign, CreateRow, UndoFolder,
       UndoCreate, Reactivate, Import, Deactivate, DeleteRow, UpdateSubscribe,
       UpdateFolder, UpdateRow, FolderCreate, FolderRecord, FolderAssign, FolderUndo,
       FolderCheck, FolderTake, FolderArchive, FolderForget, Idle

(* Others leave the rows, the listener and the call alone. *)
LEMMA OthersFrame ==
  ASSUME Others
  PROVE  /\ UNCHANGED <<table, stored, lst, job, loose, queues, made, open>>
         /\ live' \subseteq live
<1> USE DEF Changed, SetDeactivated, Event, Fault, Counted, zulip, ghosts, folders, table
<1>1. ASSUME NEW g \in Groups, AdminDeactivates(g) \/ AdminActivates(g)
      PROVE  /\ UNCHANGED <<table, stored, lst, job, loose, queues, made, open>>
             /\ live' \subseteq live
  BY <1>1 DEF AdminDeactivates, AdminActivates
<1>2. ASSUME NEW c \in Channels, ChannelGoes(c) \/ ChannelMoves(c)
      PROVE  /\ UNCHANGED <<table, stored, lst, job, loose, queues, made, open>>
             /\ live' \subseteq live
  BY <1>2 DEF ChannelGoes, ChannelMoves, Move
<1>3. CASE QueueExpires \/ ViewExpires
  BY <1>3 DEF QueueExpires, ViewExpires
<1> QED BY <1>1, <1>2, <1>3 DEF Others

(* A step of a call leaves the listener and what it reads alone. *)
LEMMA CallFrame ==
  ASSUME Call \/ CallStep
  PROVE  UNCHANGED <<view, stored, lst, subs, live, queues>>
BY DEF Call, CallStep, CreateGroup, CreateGroupFolder, CreateAssign, CreateRow, UndoFolder,
       UndoCreate, Reactivate, Import, Deactivate, DeleteRow, UpdateSubscribe,
       UpdateFolder, UpdateRow, FolderCreate, FolderRecord, FolderAssign, FolderUndo,
       FolderCheck, FolderTake, FolderArchive, FolderForget, Step

(* The listener leaves Zulip and the call alone. *)
LEMMA ListenFrame ==
  ASSUME Listen
  PROVE  UNCHANGED <<folders, ug, subs, log, job>>
BY DEF Listen, StartStep, ListenerStep, StartRead, Reconcile, ResumeQueue, RegisterAtStart,
       RemoveChannelFromChannelGroups, VerifyDeleted, DeleteVerified, SaveCursor,
       ReplaceQueue, ClearQueue, Reconnect, ListenerEnds, Listening, Register, zulip

LEMMA CrashFrame ==
  ASSUME Crash
  PROVE  UNCHANGED <<folders, ug, subs, log, live, queues, view, table, stored, missed>>
BY DEF Crash, zulip

-----------------------------------------------------------------------------
(* Types. *)

(* User groups change one at a time; the end of one, and of a channel, is an
   event. *)
LEMMA ZulipFrame ==
  ASSUME TypeInv, [Next]_vars
  PROVE  \/ ug' = ug /\ log' = log
         \/ \E g \in Groups : ug' = [ug EXCEPT ![g] = "active"] /\ log' = log
         \/ \E g \in Groups :
              /\ ug' = [ug EXCEPT ![g] = "deactivated"]
              /\ log' = Append(log, [kind |-> "user_group", id |-> g])
         \/ \E c \in Channels :
              /\ ug' = ug
              /\ log' = Append(log, [kind |-> "channel", id |-> c])
<1> USE DEF SetActive, SetDeactivated, Event
<1>1. CASE Others
  <2>1. ASSUME NEW g \in Groups, AdminDeactivates(g) PROVE SetDeactivated(g)
    BY <2>1 DEF AdminDeactivates
  <2>2. ASSUME NEW g \in Groups, AdminActivates(g)
        PROVE  ug' = [ug EXCEPT ![g] = "active"] /\ log' = log
    BY <2>2 DEF ActivatedUnawares, AdminActivates
  <2>3. ASSUME NEW c \in Channels, ChannelGoes(c)
        PROVE  ug' = ug /\ log' = Append(log, [kind |-> "channel", id |-> c])
    BY <2>3 DEF ChannelGoes
  <2>4. ASSUME NEW c \in Channels, ChannelMoves(c)
        PROVE  ug' = ug /\ log' = log
    BY <2>4 DEF ChannelMoves
  <2>5. CASE QueueExpires \/ ViewExpires
    BY <2>5 DEF QueueExpires, ViewExpires, zulip
  <2> QED BY <1>1, <2>1, <2>2, <2>3, <2>4, <2>5 DEF Others
<1>2. CASE CallStep
  <2>1. job.group \in Groups
    BY <1>2, JobFacts, CallSteps
  <2>2. CASE CreateGroup \/ CreateGroupFolder \/ CreateAssign \/ CreateRow \/ UndoFolder
    BY <2>1, <2>2 DEF ActivatedUnawares, StrayFolder, CreateGroup, CreateGroupFolder,
       CreateAssign, CreateRow, UndoFolder
  <2>3. CASE UndoCreate \/ Reactivate \/ Import \/ Deactivate \/ DeleteRow
    BY <2>1, <2>3 DEF ActivatedUnawares, UndoCreate, Reactivate, Import, Deactivate,
       DeleteRow
  <2>4. CASE \/ UpdateSubscribe \/ UpdateFolder \/ UpdateRow \/ FolderCreate
             \/ FolderRecord \/ FolderAssign \/ FolderUndo \/ FolderCheck
             \/ FolderTake \/ FolderArchive \/ FolderForget
    BY <2>4 DEF UpdateSubscribe, UpdateFolder, UpdateRow, FolderCreate, FolderRecord,
                FolderAssign, FolderUndo, FolderCheck, FolderTake, FolderArchive,
                FolderForget, NoChange
  <2> QED BY <1>2, <2>2, <2>3, <2>4 DEF CallStep
<1>3. CASE Call
  BY <1>3 DEF Call, NoChange
<1>4. CASE Listen \/ Crash
  BY <1>4, ListenFrame, CrashFrame
<1>5. CASE UNCHANGED vars
  BY <1>5 DEF vars, zulip
<1> QED BY <1>1, <1>2, <1>3, <1>4, <1>5, NextSplit

LEMMA ZulipTypes ==
  ASSUME TypeInv, [Next]_vars
  PROVE  /\ ug' \in [Groups -> {"none", "active", "deactivated"}]
         /\ log' \in Seq(AnyEvent)
         /\ Len(log) \in Nat /\ Len(log') \in Nat /\ Len(log) <= Len(log')
<1>1. Len(log) \in Nat
  BY LenProperties DEF TypeInv
<1>2. ug \in [Groups -> {"none", "active", "deactivated"}] /\ log \in Seq(AnyEvent)
  BY DEF TypeInv, TypeOK
<1>3. ASSUME NEW e \in AnyEvent, log' = Append(log, e)
      PROVE  /\ log' \in Seq(AnyEvent)
             /\ Len(log') \in Nat /\ Len(log) <= Len(log')
  BY <1>1, <1>2, <1>3, AppendProperties
<1>4. ASSUME NEW g \in Groups PROVE [kind |-> "user_group", id |-> g] \in AnyEvent
  BY DEF AnyEvent
<1>5. ASSUME NEW c \in Channels PROVE [kind |-> "channel", id |-> c] \in AnyEvent
  BY DEF AnyEvent
<1>6. log' = log \/ \E e \in AnyEvent : log' = Append(log, e)
  BY <1>4, <1>5, ZulipFrame
<1>7. ug' = ug \/ \E g \in Groups, st \in {"active", "deactivated"} : ug' = [ug EXCEPT ![g] = st]
  BY ZulipFrame
<1>8. ug' \in [Groups -> {"none", "active", "deactivated"}]
  BY <1>2, <1>7
<1>9. CASE log' = log
  BY <1>1, <1>2, <1>8, <1>9
<1> QED BY <1>1, <1>3, <1>6, <1>8, <1>9

LEMMA SubsAndView ==
  ASSUME TypeInv, [Next]_vars
  PROVE  /\ subs' \subseteq subs
         /\ view' = view \/ view' = Active
<1>1. CASE Others
  <2>1. ASSUME NEW g \in Groups, AdminDeactivates(g) \/ AdminActivates(g)
        PROVE  subs' = subs /\ view' = view
    BY <2>1 DEF AdminDeactivates, AdminActivates, Changed
  <2>2. ASSUME NEW c \in Channels, ChannelGoes(c) \/ ChannelMoves(c)
        PROVE  subs' \subseteq subs /\ view' = view
    BY <2>2 DEF ChannelGoes, ChannelMoves, Changed
  <2>3. CASE QueueExpires \/ ViewExpires
    BY <2>3 DEF QueueExpires, ViewExpires, zulip
  <2> QED BY <1>1, <2>1, <2>2, <2>3 DEF Others
<1>2. CASE Listen
  <2>1. subs' = subs
    BY <1>2, ListenFrame
  <2>2. view' = view \/ view' = Active
    BY <1>2 DEF Listen, StartStep, ListenerStep, StartRead, Reconcile, ResumeQueue,
         RegisterAtStart, RemoveChannelFromChannelGroups, VerifyDeleted, DeleteVerified,
         SaveCursor, ReplaceQueue, ClearQueue, Reconnect, ListenerEnds, Register
  <2> QED BY <2>1, <2>2
<1>3. CASE Call \/ CallStep \/ Crash \/ UNCHANGED vars
  BY <1>3, CallFrame, CrashFrame DEF vars, zulip
<1> QED BY <1>1, <1>2, <1>3, NextSplit

(* Folders are only made by a call; the others change where channels are or
   archive folders. *)
LEMMA FoldersFrame ==
  ASSUME TypeInv, [Next]_vars
  PROVE  \/ CreateFolder
         \/ /\ made' = made /\ open' \subseteq open
            /\ in' = in \/ \E cs \in SUBSET Channels, f \in {Nil} \cup 0..made : Move(cs, f)
<1>0. open \subseteq 1..made /\ made \in Nat
  BY DEF TypeInv, TypeOK, FoldersOK
<1>1. CASE Others
  <2>1. ASSUME NEW c \in Channels, ChannelMoves(c)
        PROVE  \E cs \in SUBSET Channels, f \in {Nil} \cup 0..made : Move(cs, f)
    <3>1. PICK f \in {Nil, Foreign} \cup open : Move({c}, f)
      BY <2>1 DEF ChannelMoves
    <3>2. f = Nil \/ f = 0 \/ f \in 1..made
      BY <1>0, <3>1 DEF Foreign
    <3>3. f \in {Nil} \cup 0..made
      BY <1>0, <3>2
    <3>4. {c} \in SUBSET Channels
      BY <2>1
    <3> QED BY <3>1, <3>3, <3>4
  <2>2. ASSUME NEW c \in Channels, ChannelGoes(c) PROVE UNCHANGED folders
    BY <2>2 DEF ChannelGoes
  <2>3. ASSUME NEW g \in Groups, AdminDeactivates(g) \/ AdminActivates(g)
        PROVE  UNCHANGED folders
    BY <2>3 DEF AdminDeactivates, AdminActivates
  <2>4. CASE QueueExpires \/ ViewExpires
    BY <2>4 DEF QueueExpires, ViewExpires, folders
  <2>5. made' = made /\ open' = open
    BY <1>1, OthersFrame
  <2> QED BY <1>1, <2>1, <2>2, <2>3, <2>4, <2>5 DEF Others, folders
<1>2. CASE CallStep
  <2>1. /\ job.channels \in SUBSET Channels /\ job.folder \in {Nil} \cup 0..made
        /\ Nil \in {Nil} \cup 0..made
    BY <1>2, JobFacts, CallSteps
  <2> USE DEF AddChannelsToFolder, AddingStops, RemoveChannelsFromFolder, RemovingStops,
              Inside, folders
  <2>2. CASE CreateGroup \/ CreateGroupFolder \/ CreateRow
    BY <2>2 DEF StrayFolder, CreateGroup, CreateGroupFolder, CreateRow
  <2>3. CASE CreateAssign
    BY <2>1, <2>3 DEF CreateAssign
  <2>4. CASE UndoFolder
    <3>1. CASE RollbackCreatedChannelFolder(job.channels, job.folder)
      <4>1. PICK done \in SUBSET Channels :
              Move(done, Nil) /\ open' \subseteq open /\ made' = made
        BY <2>1, <3>1 DEF RollbackCreatedChannelFolder, RollbackStops
      <4> QED BY <4>1, <2>1
    <3>2. CASE RollbackStops(job.channels, job.folder)
      <4>1. PICK done \in SUBSET Channels :
              Move(done, Nil) /\ open' \subseteq open /\ made' = made
        BY <2>1, <3>2 DEF RollbackStops
      <4> QED BY <4>1, <2>1
    <3> QED BY <2>4, <3>1, <3>2 DEF UndoFolder
  <2>5. CASE UndoCreate \/ Reactivate \/ Import \/ Deactivate \/ DeleteRow
             \/ UpdateSubscribe \/ UpdateRow
    BY <2>5 DEF UndoCreate, Reactivate, Import, Deactivate, DeleteRow, UpdateSubscribe,
                UpdateRow, NoChange
  <2>6. CASE UpdateFolder
    BY <2>1, <2>6 DEF UpdateFolder
  <2>7. CASE FolderAssign
    BY <2>1, <2>7 DEF FolderAssign
  <2>8. CASE FolderTake
    BY <2>1, <2>8 DEF FolderTake
  <2>9. CASE FolderCreate \/ FolderRecord \/ FolderUndo \/ FolderCheck \/ FolderForget
    BY <2>9 DEF StrayFolder, FolderCreate, FolderRecord, FolderUndo, FolderCheck,
       FolderForget,
                NoChange, ArchiveFolder
  <2>10. CASE FolderArchive
    BY <2>10 DEF FolderArchive, ArchiveFolder
  <2> QED BY <1>2, <2>2, <2>3, <2>4, <2>5, <2>6, <2>7, <2>8, <2>9, <2>10 DEF CallStep
<1>3. CASE Call
  BY <1>3 DEF Call, NoChange, folders
<1>4. CASE Listen \/ Crash \/ UNCHANGED vars
  BY <1>4, ListenFrame, CrashFrame DEF vars, folders
<1> QED BY <1>1, <1>2, <1>3, <1>4, NextSplit

LEMMA FolderTypes ==
  ASSUME TypeInv, [Next]_vars
  PROVE  /\ made \in Nat /\ made' \in Nat /\ made <= made'
         /\ FoldersOK'
<1>1. /\ made \in Nat /\ open \subseteq 1..made
      /\ in \in [Channels -> {Nil} \cup 0..made]
  BY DEF TypeInv, TypeOK, FoldersOK
<1>2. CASE CreateFolder
  BY <1>1, <1>2 DEF CreateFolder, FoldersOK
<1>3. ASSUME made' = made, open' \subseteq open,
             in' = in \/ \E cs \in SUBSET Channels, f \in {Nil} \cup 0..made : Move(cs, f)
      PROVE  made' \in Nat /\ made <= made' /\ FoldersOK'
  BY <1>1, <1>3 DEF Move, FoldersOK
<1> QED BY <1>1, <1>2, <1>3, FoldersFrame DEF CreateFolder

(* A row gets the folder of the call or loses its own. *)
LEMMA RowFolderFrame ==
  ASSUME [Next]_vars
  PROVE  \/ folder' = folder
         \/ job # Idle /\ folder' = [folder EXCEPT ![job.group] = job.folder]
         \/ job # Idle /\ folder' = [folder EXCEPT ![job.group] = Nil]
         \/ \E gs \in SUBSET Groups :
              folder' = [g \in Groups |-> IF g \in gs THEN Nil ELSE folder[g]]
<1>1. CASE Others \/ Crash \/ UNCHANGED vars
  BY <1>1, OthersFrame, CrashFrame DEF vars, table
<1>2. CASE CallStep
  <2>1. job # Idle
    BY <1>2, CallSteps
  <2>2. CASE DeleteRow
    <3>1. CASE DeleteRows({job.group})
      <4>1. folder' = [g \in Groups |-> IF g \in ({job.group} \cap Groups) THEN Nil ELSE folder[g]]
        BY <3>1 DEF DeleteRows
      <4>2. {job.group} \cap Groups \in SUBSET Groups
        OBVIOUS
      <4> QED BY <4>1, <4>2
    <3> QED BY <2>2, <3>1 DEF DeleteRow, table
  <2>3. CASE CreateGroup \/ CreateGroupFolder \/ CreateAssign \/ CreateRow \/ UndoFolder
             \/ UndoCreate \/ Reactivate \/ Import \/ Deactivate
    BY <2>1, <2>3 DEF CreateGroup, CreateGroupFolder, CreateAssign, CreateRow, UndoFolder,
         UndoCreate, Reactivate, Import, Deactivate, table
  <2>4. CASE UpdateSubscribe \/ UpdateFolder \/ UpdateRow \/ FolderCreate \/ FolderAssign
             \/ FolderCheck \/ FolderTake \/ FolderArchive
    BY <2>1, <2>4 DEF UpdateSubscribe, UpdateFolder, UpdateRow, FolderCreate, FolderAssign,
         FolderCheck, FolderTake, FolderArchive, NoChange, table
  <2>5. CASE FolderRecord \/ FolderUndo \/ FolderForget
    BY <2>1, <2>5 DEF FolderRecord, FolderUndo, FolderForget
  <2> QED BY <1>2, <2>2, <2>3, <2>4, <2>5 DEF CallStep
<1>3. CASE Call
  BY <1>3 DEF Call, NoChange, table
<1>4. CASE Listen
  <2>1. ASSUME NEW gs, DeleteRows(gs)
        PROVE  \E hs \in SUBSET Groups :
                 folder' = [g \in Groups |-> IF g \in hs THEN Nil ELSE folder[g]]
    <3>1. folder' = [g \in Groups |-> IF g \in (gs \cap Groups) THEN Nil ELSE folder[g]]
      BY <2>1 DEF DeleteRows
    <3>2. gs \cap Groups \in SUBSET Groups
      OBVIOUS
    <3> QED BY <3>1, <3>2
  <2>2. folder' = folder \/ \E gs : DeleteRows(gs)
    <3>1. CASE StartStep
      BY <3>1 DEF StartStep, StartRead, Reconcile, ResumeQueue, RegisterAtStart,
         Register, table
    <3>2. CASE ListenerStep \/ Reconnect \/ ListenerEnds
      BY <3>2 DEF ListenerStep, RemoveChannelFromChannelGroups, VerifyDeleted,
         DeleteVerified,
           SaveCursor, ReplaceQueue, ClearQueue, Reconnect, ListenerEnds, Register, table
    <3> QED BY <1>4, <3>1, <3>2 DEF Listen
  <2> QED BY <2>1, <2>2
<1> QED BY <1>1, <1>2, <1>3, <1>4, NextSplit

(* What becomes loose was the folder of a call or a row. *)
LEMMA LooseFrame ==
  ASSUME TypeInv, [Next]_vars
  PROVE  \A f \in loose' : \/ f \in loose
                           \/ job # Idle /\ f = job.folder /\ f # Nil
                           \/ \E g \in Groups : f = folder[g] /\ f # Nil
                           \/ CreateFolder /\ f = made'
<1>1. CASE Others \/ UNCHANGED vars
  BY <1>1, OthersFrame DEF vars, ghosts
<1>2. CASE Crash
  BY <1>2 DEF Crash
<1>3. CASE CallStep
  <2>1. job # Idle /\ job.group \in Groups /\ (MustHaveFolder => job.folder # Nil)
    BY <1>3, CallSteps, JobFacts DEF TypeInv, JobInv
  <2>2. CASE DeleteRow
    BY <2>1, <2>2 DEF DeleteRow, DeleteRows
  <2>3. CASE CreateGroup \/ CreateGroupFolder \/ CreateAssign \/ CreateRow
             \/ UndoCreate \/ Reactivate \/ Import \/ Deactivate
    BY <2>3 DEF StrayFolder, CreateGroup, CreateGroupFolder, CreateAssign, CreateRow,
         UndoCreate, Reactivate, Import, Deactivate, ghosts
  <2>4. CASE UpdateSubscribe \/ UpdateFolder \/ UpdateRow \/ FolderCreate \/ FolderAssign
             \/ FolderCheck \/ FolderTake
    BY <2>4 DEF StrayFolder, UpdateSubscribe, UpdateFolder, UpdateRow, FolderCreate,
       FolderAssign,
         FolderCheck, FolderTake, NoChange, ghosts
  <2>5. CASE UndoFolder \/ FolderRecord \/ FolderUndo \/ FolderArchive \/ FolderForget
    <3>1. loose' \subseteq loose \cup {job.folder}
      BY <2>5 DEF UndoFolder, FolderRecord, FolderUndo, FolderArchive, FolderForget
    <3>2. MustHaveFolder
      BY <2>5 DEF UndoFolder, FolderRecord, FolderUndo, FolderArchive, FolderForget,
                  MustHaveFolder
    <3> QED BY <2>1, <3>1, <3>2
  <2> QED BY <1>3, <2>2, <2>3, <2>4, <2>5 DEF CallStep
<1>4. CASE Call
  BY <1>4 DEF Call, NoChange, ghosts
<1>5. CASE Listen
  <2>1. ASSUME NEW gs \in SUBSET Groups, DeleteRows(gs)
        PROVE  \A f \in loose' : f \in loose \/ \E g \in Groups : f = folder[g] /\ f # Nil
    BY <2>1 DEF DeleteRows
  <2>2. loose' = loose \/ \E gs \in SUBSET Groups : DeleteRows(gs)
    <3>1. CASE Reconcile
      <4>1. Tracked \ lst.groups \in SUBSET Groups
        BY DEF Tracked
      <4> QED BY <3>1, <4>1 DEF Reconcile
    <3>2. CASE DeleteVerified
      <4>1. lst \in [at : {"verified"}, queue : Nat, cursor : Nat, polled : Nat, id : Groups]
        BY <3>2 DEF DeleteVerified, TypeInv, LstInv, Polling, Off
      <4>2. {lst.id} \in SUBSET Groups
        BY <4>1
      <4> QED BY <3>2, <4>2 DEF DeleteVerified
    <3>3. CASE StartRead \/ ResumeQueue \/ RegisterAtStart
      BY <3>3 DEF StartRead, ResumeQueue, RegisterAtStart, Register
    <3>4. CASE RemoveChannelFromChannelGroups \/ VerifyDeleted \/ SaveCursor
               \/ ClearQueue \/ ReplaceQueue \/ Reconnect \/ ListenerEnds
      BY <3>4 DEF RemoveChannelFromChannelGroups, VerifyDeleted, SaveCursor,
         ReplaceQueue, ClearQueue,
                  Reconnect, ListenerEnds, Register
    <3> QED BY <1>5, <3>1, <3>2, <3>3, <3>4 DEF Listen, StartStep, ListenerStep
  <2> QED BY <2>1, <2>2
<1> QED BY <1>1, <1>2, <1>3, <1>4, <1>5, NextSplit

LEMMA RowFolderTypes ==
  ASSUME TypeInv, [Next]_vars
  PROVE  /\ folder' \in [Groups -> {Nil} \cup 1..made']
         /\ loose' \subseteq 1..made'
<1>1. /\ made \in Nat /\ made' \in Nat /\ made <= made'
      /\ folder \in [Groups -> {Nil} \cup 1..made] /\ loose \subseteq 1..made
  BY FolderTypes DEF TypeInv, TypeOK
<1>2. job # Idle => job.group \in Groups /\ job.folder \in {Nil} \cup 1..made
  BY JobFacts
<1>3. folder' \in [Groups -> {Nil} \cup 1..made]
  BY <1>1, <1>2, RowFolderFrame
<1>4. loose' \subseteq 1..made'
  <2>1. CreateFolder => made' \in 1..made'
    BY <1>1 DEF CreateFolder
  <2>2. ASSUME NEW f \in loose' PROVE f \in 1..made'
    <3>1. \/ f \in loose
          \/ job # Idle /\ f = job.folder /\ f # Nil
          \/ \E g \in Groups : f = folder[g] /\ f # Nil
          \/ CreateFolder /\ f = made'
      BY LooseFrame
    <3>2. f \in 1..made \/ f \in 1..made'
      BY <1>1, <1>2, <2>1, <3>1
    <3> QED BY <1>1, <3>2
  <2> QED BY <2>2
<1>5. 1..made \subseteq 1..made'
  BY <1>1
<1> QED BY <1>3, <1>4, <1>5

LEMMA RowTypes ==
  ASSUME TypeInv, [Next]_vars
  PROVE  rows' \in [Groups -> {Nil} \cup SUBSET Channels]
<1>0. rows \in [Groups -> {Nil} \cup SUBSET Channels]
  BY DEF TypeInv
<1>1. CASE Others \/ Crash \/ UNCHANGED vars
  BY <1>0, <1>1, OthersFrame, CrashFrame DEF vars, table
<1>2. CASE CallStep
  <2>1. job.group \in Groups /\ job.channels \subseteq Channels
    BY <1>2, CallSteps, JobFacts
  <2>2. CASE CreateRow
    BY <1>0, <2>1, <2>2 DEF CreateRow, table
  <2>3. CASE Import
    BY <1>0, <2>1, <2>3 DEF Import
  <2>4. CASE DeleteRow
    BY <1>0, <2>1, <2>4 DEF DeleteRow, table
  <2>5. CASE UpdateRow
    BY <1>0, <2>1, <2>5 DEF UpdateRow, Tracked
  <2>6. CASE CreateGroup \/ CreateGroupFolder \/ CreateAssign \/ UndoFolder
             \/ UndoCreate \/ Reactivate \/ Deactivate
    BY <1>0, <2>6 DEF CreateGroup, CreateGroupFolder, CreateAssign, UndoFolder,
         UndoCreate, Reactivate, Deactivate, table
  <2>7. CASE UpdateSubscribe \/ UpdateFolder \/ FolderCreate \/ FolderRecord \/ FolderAssign
             \/ FolderUndo \/ FolderCheck \/ FolderTake \/ FolderArchive \/ FolderForget
    BY <1>0, <2>7 DEF UpdateSubscribe, UpdateFolder, FolderCreate, FolderRecord,
       FolderAssign,
         FolderUndo, FolderCheck, FolderTake, FolderArchive, FolderForget, NoChange, table
  <2> QED BY <1>2, <2>2, <2>3, <2>4, <2>5, <2>6, <2>7 DEF CallStep
<1>3. CASE Call
  BY <1>0, <1>3 DEF Call, NoChange, table
<1>4. CASE Listen
  <2>1. CASE Reconcile
    <3>1. lst.rows = rows
      BY <2>1 DEF Reconcile, TypeInv, LstInv, Off, Polling
    <3> QED BY <1>0, <2>1, <3>1 DEF Reconcile
  <2>2. CASE RemoveChannelFromChannelGroups
    BY <1>0, <2>2 DEF RemoveChannelFromChannelGroups
  <2>3. CASE DeleteVerified
    BY <1>0, <2>3 DEF DeleteVerified, table
  <2>4. CASE StartRead \/ ResumeQueue \/ RegisterAtStart \/ VerifyDeleted \/ SaveCursor
             \/ ClearQueue \/ ReplaceQueue \/ Reconnect \/ ListenerEnds
    BY <1>0, <2>4 DEF StartRead, ResumeQueue, RegisterAtStart, Register, VerifyDeleted,
         SaveCursor, ReplaceQueue, ClearQueue, Reconnect, ListenerEnds, table
  <2> QED BY <1>4, <2>1, <2>2, <2>3, <2>4 DEF Listen, StartStep, ListenerStep
<1> QED BY <1>1, <1>2, <1>3, <1>4, NextSplit

(* What the listener holds while it has a queue. *)
LEMMA Polls ==
  ASSUME TypeInv, lst.at \in {"consume", "verified", "save", "replace"}
  PROVE  /\ lst \in Polling /\ lst.queue \in 1..queues /\ queues \in Nat
         /\ lst.cursor \in Nat /\ lst.polled \in Nat /\ Len(log) \in Nat
         /\ lst.cursor <= lst.polled /\ lst.polled <= Len(log)
         /\ stored # Nil => stored.queue # lst.queue \/ stored.cursor <= lst.cursor
         /\ lst.at = "verified" => lst.polled < Len(log) /\ lst.id \in Groups
<1>1. Len(log) \in Nat
  BY LenProperties DEF TypeInv
<1>2. /\ lst \in Polling /\ lst.queue \in 1..queues
      /\ lst.at = "verified" => lst.polled < Len(log)
  BY DEF TypeInv, LstInv, Off
<1>3. /\ lst.cursor \in Nat /\ lst.polled \in Nat
      /\ lst.at = "verified" => lst.id \in Groups
  BY <1>2 DEF Polling
<1>4. /\ lst.cursor <= lst.polled /\ lst.polled <= Len(log)
      /\ stored # Nil => stored.queue # lst.queue \/ stored.cursor <= lst.cursor
  BY DEF TypeInv, TypeOK
<1> QED BY <1>1, <1>2, <1>3, <1>4 DEF TypeInv

(* The next event is one of the log. *)
LEMMA CurrentEvent ==
  ASSUME TypeInv, Consuming, HasEvent
  PROVE  /\ lst.polled + 1 \in 1..Len(log)
         /\ Current.kind = "user_group" => Current.id \in Groups
         /\ Current.kind = "channel" => Current.id \in Channels
<1>1. lst.polled + 1 \in 1..Len(log)
  BY Polls DEF Consuming, HasEvent
<1>2. log[lst.polled + 1] \in AnyEvent
  BY <1>1, ElementOfSeq DEF TypeInv
<1> QED BY <1>1, <1>2 DEF AnyEvent, Current

LEMMA DeadType ==
  ASSUME TypeInv
  PROVE  Dead \subseteq Groups \cup Channels
BY DEF TypeInv, Dead, Tracked, Listed

LEMMA GhostTypes ==
  ASSUME TypeInv, [Next]_vars
  PROVE  missed' \subseteq Groups \cup Channels /\ excused' \subseteq Groups
<1>0. missed \subseteq Groups \cup Channels /\ excused \subseteq Groups
  BY DEF TypeInv, TypeOK
<1>1. CASE Others
  <2>1. ASSUME NEW g \in Groups, AdminDeactivates(g) \/ AdminActivates(g)
        PROVE  missed' \subseteq Groups \cup Channels /\ excused' \subseteq Groups
    BY <1>0, <2>1 DEF ActivatedUnawares, AdminDeactivates, AdminActivates, SetDeactivated
  <2>2. ASSUME NEW c \in Channels, ChannelGoes(c) \/ ChannelMoves(c)
        PROVE  missed' \subseteq Groups \cup Channels /\ excused' \subseteq Groups
    BY <1>0, <2>2 DEF ChannelGoes, ChannelMoves
  <2>3. CASE QueueExpires \/ ViewExpires
    BY <1>0, <2>3 DEF QueueExpires, ViewExpires, ghosts
  <2> QED BY <1>1, <2>1, <2>2, <2>3 DEF Others
<1>2. CASE CallStep
  <2>1. job.group \in Groups /\ job.channels \subseteq Channels
    BY <1>2, CallSteps, JobFacts
  <2>2. CASE CreateGroup \/ Reactivate
    BY <1>0, <2>1, <2>2 DEF ActivatedUnawares, CreateGroup, Reactivate, SetActive
  <2>3. CASE CreateRow \/ Import \/ UpdateRow
    BY <1>0, <2>1, <2>3 DEF CreateRow, Import, UpdateRow, ghosts
  <2>4. CASE UndoCreate \/ Deactivate \/ DeleteRow
    BY <1>0, <2>1, <2>4 DEF UndoCreate, Deactivate, DeleteRow, SetDeactivated
  <2>5. CASE CreateGroupFolder \/ CreateAssign \/ UndoFolder \/ UpdateSubscribe \/ UpdateFolder
             \/ FolderCreate \/ FolderRecord \/ FolderAssign \/ FolderUndo \/ FolderCheck
             \/ FolderTake \/ FolderArchive \/ FolderForget
    BY <1>0, <2>5 DEF CreateGroupFolder, CreateAssign, UndoFolder, UpdateSubscribe,
         UpdateFolder, FolderCreate, FolderRecord, FolderAssign, FolderUndo, FolderCheck,
         FolderTake, FolderArchive, FolderForget, NoChange, ghosts
  <2> QED BY <1>2, <2>2, <2>3, <2>4, <2>5 DEF CallStep
<1>3. CASE Call
  BY <1>0, <1>3 DEF Call, NoChange, ghosts
<1>4. CASE Listen
  <2>1. CASE Reconcile
    BY <1>0, <2>1 DEF Reconcile, Active
  <2>2. CASE RemoveChannelFromChannelGroups
    BY <1>0, <2>2, CurrentEvent DEF RemoveChannelFromChannelGroups, Listening
  <2>3. CASE VerifyDeleted
    <3>1. Current.id \in Groups
      BY <2>3, CurrentEvent DEF VerifyDeleted
    <3> QED BY <1>0, <2>3, <3>1 DEF VerifyDeleted
  <2>4. CASE DeleteVerified
    <3>1. lst.id \in Groups
      BY <2>4, Polls DEF DeleteVerified
    <3> QED BY <1>0, <2>4, <3>1 DEF DeleteVerified, Listening
  <2>5. CASE StartRead \/ ResumeQueue \/ SaveCursor \/ Reconnect \/ ListenerEnds
    BY <1>0, <2>5 DEF StartRead, ResumeQueue, SaveCursor, Reconnect, ListenerEnds,
       Listening,
                      ghosts
  <2>6. CASE RegisterAtStart \/ ClearQueue \/ ReplaceQueue
    BY <1>0, <2>6, DeadType DEF RegisterAtStart, ReplaceQueue, ClearQueue, Register,
       Listening
  <2> QED BY <1>4, <2>1, <2>2, <2>3, <2>4, <2>5, <2>6 DEF Listen, StartStep, ListenerStep
<1>5. CASE Crash
  <2>1. job # Idle => job.group \in Groups
    BY JobFacts
  <2> QED BY <1>0, <1>5, <2>1 DEF Crash
<1>6. CASE UNCHANGED vars
  BY <1>0, <1>6 DEF vars, ghosts
<1> QED BY <1>1, <1>2, <1>3, <1>4, <1>5, <1>6, NextSplit

QueueInv ==
  /\ live \subseteq 1..queues /\ queues \in Nat
  /\ stored # Nil => stored.queue \in 1..queues /\ stored.cursor \in 0..Len(log)
  /\ lst.at \in {"consume", "verified", "save", "replace"} =>
       /\ lst.cursor <= lst.polled /\ lst.polled <= Len(log)
       /\ stored # Nil => stored.queue # lst.queue \/ stored.cursor <= lst.cursor
  /\ LstInv

(* Where a listener that has just connected is. *)
LEMMA JustConnected ==
  ASSUME NEW q \in Nat, NEW n \in Nat
  PROVE  /\ Connected(q, n) \in Polling
         /\ Connected(q, n).at = "consume" /\ Connected(q, n).queue = q
         /\ Connected(q, n).cursor = n /\ Connected(q, n).polled = n
BY DEF Connected, Polling

(* A queue that has just been registered is a new one. *)
LEMMA Registered ==
  ASSUME TypeInv, [Next]_vars, NEW seen, Register(seen)
  PROVE  /\ queues' \in 1..queues' /\ queues' \in Nat /\ live' \subseteq 1..queues'
         /\ 1..queues \subseteq 1..queues' /\ queues' \notin 1..queues
         /\ Len(log) \in Nat /\ log' = log
<1>1. queues \in Nat /\ live \subseteq 1..queues /\ Len(log) \in Nat
  BY LenProperties DEF TypeInv, TypeOK
<1>2. queues' = queues + 1 /\ live' = live \cup {queues'} /\ log' = log
  BY DEF Register
<1> QED BY <1>1, <1>2

LEMMA QueueTypes ==
  ASSUME TypeInv, [Next]_vars
  PROVE  QueueInv'
<1>0. /\ QueueInv
      /\ queues \in Nat /\ Len(log) \in Nat /\ Len(log') \in Nat /\ Len(log) <= Len(log')
      /\ Nil \notin Nat
      /\ stored # Nil => stored.cursor \in Nat /\ stored.queue \in Nat
  <2>1. queues \in Nat /\ Len(log) \in Nat /\ Len(log') \in Nat /\ Len(log) <= Len(log')
    BY ZulipTypes DEF TypeInv
  <2>2. live \subseteq 1..queues /\ LstInv
        /\ (stored # Nil => stored.queue \in 1..queues /\ stored.cursor \in 0..Len(log))
        /\ (lst.at \in {"consume", "verified", "save", "replace"} =>
              /\ lst.cursor <= lst.polled /\ lst.polled <= Len(log)
              /\ stored # Nil => stored.queue # lst.queue \/ stored.cursor <= lst.cursor)
    BY DEF TypeInv, TypeOK
  <2>3. stored # Nil => stored.cursor \in Nat /\ stored.queue \in Nat
    BY <2>1, <2>2
  <2>4. Nil \notin Nat
    BY NilAssumption
  <2>5. QueueInv
    BY <2>1, <2>2 DEF QueueInv
  <2> QED BY <2>1, <2>3, <2>4, <2>5
<1>1. ASSUME UNCHANGED <<stored, lst, queues>>, live' \subseteq live,
             rows' = rows \/ lst.at \notin AtStart
      PROVE  QueueInv'
  <2>1. LstInv'
    <3>1. CASE lst.at \in {"consume", "verified", "save", "replace"}
      <4>1. lst.at = "verified" => lst.polled < Len(log')
        BY <1>0, <3>1, Polls
      <4>2. lst \in Polling /\ lst.queue \in 1..queues
        BY <3>1, Polls
      <4> QED BY <1>1, <4>1, <4>2 DEF LstInv
    <3>2. CASE lst.at \notin {"consume", "verified", "save", "replace"}
      BY <1>0, <1>1, <3>2 DEF LstInv, QueueInv, Polling, Off, AtStart
    <3> QED BY <3>1, <3>2
  <2>2. lst.at \in {"consume", "verified", "save", "replace"} =>
          /\ lst.cursor <= lst.polled /\ lst.polled <= Len(log')
          /\ stored # Nil => stored.queue # lst.queue \/ stored.cursor <= lst.cursor
    BY <1>0, Polls
  <2>3. stored # Nil => stored.cursor \in 0..Len(log')
    BY <1>0 DEF QueueInv
  <2> QED BY <1>0, <1>1, <2>1, <2>2, <2>3 DEF QueueInv
<1>2. CASE Others
  BY <1>1, <1>2, OthersFrame DEF table
<1>3. CASE Call \/ CallStep
  <2>1. CASE CallStep
    BY <1>1, <2>1, CallFrame, CallSteps, JobFacts
  <2>2. CASE Call
    BY <1>1, <2>2, CallFrame DEF Call, NoChange, table
  <2> QED BY <1>3, <2>1, <2>2
<1>4. CASE Crash \/ StartRead \/ Reconcile \/ ListenerEnds
  <2>1. /\ UNCHANGED <<live, queues, stored, log>>
        /\ lst'.at \notin {"consume", "verified", "save", "replace"}
    BY <1>4, CrashFrame DEF Crash, StartRead, Reconcile, ListenerEnds, Listening, zulip, Off
  <2>2. LstInv'
    <3>1. CASE Crash \/ ListenerEnds
      BY <3>1 DEF Crash, ListenerEnds, LstInv
    <3>2. CASE StartRead
      BY <3>2 DEF StartRead, LstInv, Active, TypeInv, TypeOK, table
    <3>3. CASE Reconcile
      <4>1. lst.groups \subseteq Groups /\ lst.subs \subseteq Channels
        BY <3>3 DEF Reconcile, TypeInv, LstInv, Off, Polling
      <4> QED BY <3>3, <4>1 DEF Reconcile, LstInv
    <3> QED BY <1>4, <3>1, <3>2, <3>3
  <2> QED BY <1>0, <2>1, <2>2 DEF QueueInv
<1>5. CASE ResumeQueue
  <2>1. /\ stored # Nil /\ lst' = Connected(stored.queue, stored.cursor)
        /\ UNCHANGED <<live, queues, stored, log>>
    BY <1>5 DEF ResumeQueue, Listening, zulip
  <2>2. /\ lst' \in Polling /\ lst'.at = "consume" /\ lst'.queue = stored.queue
        /\ lst'.cursor = stored.cursor /\ lst'.polled = stored.cursor
    BY <1>0, <2>1, JustConnected
  <2>3. stored.queue \in 1..queues /\ stored.cursor \in 0..Len(log)
    BY <1>0, <2>1 DEF QueueInv
  <2>4. LstInv'
    BY <2>1, <2>2, <2>3 DEF LstInv
  <2> QED BY <1>0, <2>1, <2>2, <2>3, <2>4 DEF QueueInv
<1>6. ASSUME NEW seen, Register(seen),
             stored' = [queue |-> queues', cursor |-> Len(log)],
             lst' = Connected(queues', Len(log))
      PROVE  QueueInv'
  <2>1. /\ lst' \in Polling /\ lst'.at = "consume" /\ lst'.queue = queues'
        /\ lst'.cursor = Len(log) /\ lst'.polled = Len(log)
    BY <1>0, <1>6, Registered, JustConnected
  <2>2. stored'.queue = queues' /\ stored'.cursor = Len(log)
    BY <1>6
  <2>3. LstInv'
    BY <1>6, <2>1, Registered DEF LstInv
  <2> QED BY <1>6, <1>0, <2>1, <2>2, <2>3, Registered DEF QueueInv
<1>7. CASE RegisterAtStart
  <2>1. Register(lst.seen)
    BY <1>7 DEF RegisterAtStart
  <2>2. CASE lst' = Off /\ UNCHANGED stored
    <3>1. stored' = Nil /\ lst'.at = "off" /\ LstInv'
      BY <1>7, <2>2 DEF RegisterAtStart, Off, LstInv
    <3> QED BY <2>1, <3>1, Registered DEF QueueInv
  <2> QED BY <1>6, <1>7, <2>1, <2>2 DEF RegisterAtStart
<1>8. CASE ClearQueue
  <2>1. /\ lst.at = "consume" /\ lst' = [lst EXCEPT !.at = "replace"]
        /\ stored' = stored \/ stored' = Nil
        /\ UNCHANGED <<live, queues, log>>
    BY <1>8 DEF ClearQueue, Listening, zulip
  <2>2. /\ lst' \in Polling /\ lst'.at = "replace" /\ lst'.queue = lst.queue
        /\ lst'.cursor = lst.cursor /\ lst'.polled = lst.polled
    BY <2>1, Polls DEF Polling
  <2>3. LstInv'
    BY <2>1, <2>2, Polls DEF LstInv
  <2> QED BY <1>0, <2>1, <2>2, <2>3, Polls DEF QueueInv
<1>r. CASE ReplaceQueue
  <2>1. CASE /\ Register(Groups \cup Channels)
             /\ stored' = [queue |-> queues', cursor |-> Len(log)]
             /\ lst' = Connected(queues', Len(log))
    BY <1>6, <2>1
  <2>2. CASE stored' = stored /\ Listening /\ lst' = [lst EXCEPT !.at = "consume"]
    <3>1. lst.at = "replace" /\ UNCHANGED <<live, queues, log>>
      BY <1>r, <2>2 DEF ReplaceQueue, Listening, zulip
    <3>2. /\ lst' \in Polling /\ lst'.at = "consume" /\ lst'.queue = lst.queue
          /\ lst'.cursor = lst.cursor /\ lst'.polled = lst.polled
      BY <2>2, <3>1, Polls DEF Polling
    <3>3. LstInv'
      BY <3>1, <3>2, Polls DEF LstInv
    <3> QED BY <1>0, <2>2, <3>1, <3>2, <3>3, Polls DEF QueueInv
  <2> QED BY <1>r, <2>1, <2>2 DEF ReplaceQueue
<1>9. ASSUME UNCHANGED <<live, queues, log>>,
             lst.at \in {"consume", "verified", "save", "replace"},
             lst' \in Polling, lst'.queue = lst.queue,
             lst'.cursor \in Nat, lst'.polled \in Nat,
             lst.cursor <= lst'.cursor, lst'.cursor <= lst'.polled, lst'.polled <= Len(log),
             lst'.at = "verified" => lst'.polled < Len(log),
             \/ stored' = stored
             \/ stored' = [queue |-> lst.queue, cursor |-> lst.cursor]
      PROVE  QueueInv'
  <2>1. LstInv'
    BY <1>9, Polls DEF LstInv
  <2>2. CASE stored' = stored
    BY <1>0, <1>9, <2>1, <2>2, Polls DEF QueueInv
  <2>3. CASE stored' = [queue |-> lst.queue, cursor |-> lst.cursor]
    <3>1. stored'.queue = lst.queue /\ stored'.cursor = lst.cursor
      BY <2>3
    <3>2. lst.cursor \in 0..Len(log)
      BY Polls, <1>9
    <3> QED BY <1>0, <1>9, <2>1, <3>1, <3>2, Polls DEF QueueInv
  <2> QED BY <1>9, <2>2, <2>3
<1>10. CASE RemoveChannelFromChannelGroups \/ VerifyDeleted
  <2>1. Consuming /\ HasEvent /\ lst.at = "consume"
    BY <1>10 DEF RemoveChannelFromChannelGroups, VerifyDeleted, Consuming
  <2>2. lst \in Polling /\ Next1 \in Nat /\ Next1 = lst.polled + 1 /\ lst.polled < Len(log)
    BY <2>1, Polls DEF Next1, HasEvent
  <2>3. CASE lst' = Handled
    <3>1. /\ lst' \in Polling /\ lst'.at = "save" /\ lst'.queue = lst.queue
          /\ lst'.cursor = Next1 /\ lst'.polled = Next1
      BY <2>1, <2>2, <2>3 DEF Handled, Polling
    <3> QED BY <1>9, <1>10, <2>1, <2>2, <3>1, Polls, ListenFrame
         DEF RemoveChannelFromChannelGroups, VerifyDeleted, Listening, zulip
  <2>4. CASE lst' = Failed
    <3>1. /\ lst' \in Polling /\ lst'.at = "consume" /\ lst'.queue = lst.queue
          /\ lst'.cursor = lst.cursor /\ lst'.polled = Next1
      BY <2>1, <2>2, <2>4 DEF Failed, Polling
    <3> QED BY <1>9, <1>10, <2>1, <2>2, <3>1, Polls
         DEF RemoveChannelFromChannelGroups, VerifyDeleted, Listening, zulip
  <2>5. CASE VerifyDeleted /\ lst' = [at |-> "verified", queue |-> lst.queue,
              cursor |-> lst.cursor, polled |-> lst.polled, id |-> Current.id]
    <3>1. Current.id \in Groups
      BY <2>1, <2>5, CurrentEvent DEF VerifyDeleted
    <3>2. /\ lst' \in Polling /\ lst'.queue = lst.queue
          /\ lst'.cursor = lst.cursor /\ lst'.polled = lst.polled
      BY <2>1, <2>2, <2>5, <3>1 DEF Polling
    <3> QED BY <1>9, <2>1, <2>2, <2>5, <3>2, Polls DEF VerifyDeleted, zulip
  <2> QED BY <1>10, <2>3, <2>4, <2>5 DEF RemoveChannelFromChannelGroups, VerifyDeleted
<1>11. CASE DeleteVerified
  <2>1. lst.at = "verified" /\ UNCHANGED <<live, queues, log, stored>>
    BY <1>11 DEF DeleteVerified, Listening, zulip
  <2>2. lst \in Polling /\ Next1 \in Nat /\ Next1 = lst.polled + 1 /\ lst.polled < Len(log)
    BY <2>1, Polls DEF Next1
  <2>3. PICK n \in {Next1, lst.cursor}, at \in {"save", "consume"} :
          lst' = [at |-> at, queue |-> lst.queue, cursor |-> n, polled |-> Next1]
    BY <1>11 DEF DeleteVerified
  <2>4. n \in Nat /\ lst.cursor <= n /\ n <= Next1
    BY <2>1, <2>2, Polls
  <2>5. /\ lst' \in Polling /\ lst'.queue = lst.queue /\ lst'.at # "verified"
        /\ lst'.cursor = n /\ lst'.polled = Next1
    BY <2>1, <2>2, <2>3, <2>4, Polls DEF Polling
  <2> QED BY <1>9, <2>1, <2>2, <2>4, <2>5, Polls
<1>12. CASE SaveCursor
  <2>1. /\ lst.at = "save" /\ UNCHANGED <<live, queues, log>>
        /\ lst' = [lst EXCEPT !.at = "consume"]
        /\ stored' = stored \/ stored' = [queue |-> lst.queue, cursor |-> lst.cursor]
    BY <1>12 DEF SaveCursor, Listening, zulip
  <2>2. /\ lst' \in Polling /\ lst'.queue = lst.queue /\ lst'.at = "consume"
        /\ lst'.cursor = lst.cursor /\ lst'.polled = lst.polled
    BY <2>1, Polls DEF Polling
  <2> QED BY <1>9, <2>1, <2>2, Polls
<1>13. CASE Reconnect
  <2>1. /\ lst.at = "consume" /\ UNCHANGED <<live, queues, log, stored>>
        /\ lst' = Connected(lst.queue, lst.cursor)
    BY <1>13 DEF Reconnect, Listening, zulip, Consuming
  <2>2. /\ lst' \in Polling /\ lst'.queue = lst.queue /\ lst'.at = "consume"
        /\ lst'.cursor = lst.cursor /\ lst'.polled = lst.cursor
    BY <2>1, Polls, JustConnected
  <2> QED BY <1>9, <2>1, <2>2, Polls
<1>14. CASE UNCHANGED vars
  BY <1>1, <1>14 DEF vars, zulip, table
<1> QED BY <1>2, <1>3, <1>4, <1>5, <1>7, <1>8, <1>r, <1>10, <1>11, <1>12, <1>13, <1>14, NextSplit
     DEF Listen, StartStep, ListenerStep

Ats == {"group", "folder", "assign", "row", "undo_folder", "undo", "subscribe",
        "create", "record", "check", "take", "archive", "forget"}

(* A call returns or goes on, to a step of its own, perhaps with a new folder. *)
LEMMA JobFrame ==
  ASSUME TypeInv, CallStep
  PROVE  \/ job' = Idle
         \/ \E at \in Ats :
              /\ job' = [job EXCEPT !.at = at]
              /\ job.op = "create" /\ at \in {"assign", "undo_folder"} => job.folder # Nil
              /\ job.op = "add" /\ at \in {"assign", "record", "undo"} => job.folder # Nil
         \/ \E at \in Ats : CreateFolder /\ job' = [job EXCEPT !.at = at, !.folder = made']
<1>1. MustHaveFolder => job.folder # Nil
  BY CallSteps DEF TypeInv, JobInv
<1> USE DEF Goto, Return, Ats
<1>2. CASE CreateGroup
  BY <1>2 DEF CreateGroup
<1>3. CASE CreateGroupFolder
  BY <1>3 DEF CreateGroupFolder
<1>4. CASE CreateAssign
  BY <1>1, <1>4 DEF CreateAssign, MustHaveFolder
<1>5. CASE CreateRow
  <2>1. \/ job' = Idle
        \/ job.folder = Nil /\ job' = [job EXCEPT !.at = "undo"]
        \/ job.folder # Nil /\ job' = [job EXCEPT !.at = "undo_folder"]
    BY <1>5 DEF CreateRow
  <2> QED BY <1>5, <2>1 DEF CreateRow
<1>6. CASE UndoFolder \/ UndoCreate \/ Reactivate \/ Import \/ Deactivate \/ DeleteRow
  BY <1>6 DEF UndoFolder, UndoCreate, Reactivate, Import, Deactivate, DeleteRow
<1>7. CASE UpdateSubscribe
  <2>1. \E at \in {"row", "folder"} : job' = Idle \/ job' = [job EXCEPT !.at = at]
    BY <1>7 DEF UpdateSubscribe
  <2> QED BY <1>7, <2>1 DEF UpdateSubscribe
<1>8. CASE UpdateFolder \/ UpdateRow
  BY <1>8 DEF UpdateFolder, UpdateRow
<1>9. CASE FolderCreate
  BY <1>9 DEF FolderCreate
<1>10. CASE FolderRecord
  BY <1>1, <1>10 DEF FolderRecord, MustHaveFolder
<1>11. CASE FolderAssign
  BY <1>1, <1>11 DEF FolderAssign, MustHaveFolder
<1>12. CASE FolderUndo \/ FolderCheck \/ FolderTake \/ FolderArchive \/ FolderForget
  BY <1>12 DEF FolderUndo, FolderCheck, FolderTake, FolderArchive, FolderForget
<1> QED BY <1>2, <1>3, <1>4, <1>5, <1>6, <1>7, <1>8, <1>9, <1>10, <1>11, <1>12 DEF CallStep

(* What a call begins with. *)
LEMMA CallBegins ==
  ASSUME TypeInv, Call
  PROVE  /\ job = Idle /\ lst.at \notin AtStart
         /\ job' \in Job /\ job' # Idle
         /\ job'.folder \in {Nil, folder[job'.group]}
         /\ job'.op \in {"create", "reuse"} \/ job'.group \in Tracked
         /\ \/ /\ ug[job'.group] = "none"
               /\ job'.op = "create" /\ job'.at = "group" /\ job'.folder = Nil
            \/ /\ ug[job'.group] = "deactivated"
               /\ job'.op = "reuse" /\ job'.at = "group" /\ job'.folder = Nil
            \/ /\ job'.op = "delete" /\ job'.at = "group" /\ job'.folder = folder[job'.group]
            \/ /\ job'.op = "update" /\ job'.at \in {"subscribe", "row"}
               /\ job'.folder = folder[job'.group]
            \/ /\ job'.op = "add" /\ job'.folder = folder[job'.group]
               /\ job'.at = IF job'.folder = Nil THEN "create" ELSE "assign"
            \/ /\ job'.op = "remove" /\ job'.at = "check"
               /\ job'.folder = folder[job'.group] /\ job'.folder # Nil
            \/ /\ job'.op = "unassign" /\ job'.at = "take"
               /\ job'.folder = folder[job'.group] /\ job'.folder # Nil
<1>1. job = Idle /\ lst.at \notin AtStart
  BY DEF Call, Running, AtStart
<1>2. PICK g \in Groups :
       LET Begin(op, at, cs, f) ==
             job' = [op |-> op, at |-> at, group |-> g, channels |-> cs, folder |-> f,
                     new |-> f = Nil]
       IN
       \/ ug[g] = "none" /\ \E cs \in SUBSET Channels : Begin("create", "group", cs, Nil)
       \/ ug[g] = "deactivated" /\ Begin("reuse", "group", {}, Nil)
       \/ g \in Active \cap Tracked /\ Begin("delete", "group", {}, folder[g])
       \/ /\ g \in Tracked
          /\ \/ \E c \in Channels :
                  Begin("update", IF c \in rows[g] THEN "row" ELSE "subscribe", {c}, folder[g])
             \/ Begin("add", IF folder[g] = Nil THEN "create" ELSE "assign",
                      rows[g], folder[g])
             \/ folder[g] # Nil /\ \E op \in {"remove", "unassign"} :
                  Begin(op, IF op = "remove" THEN "check" ELSE "take", rows[g], folder[g])
  BY DEF Call
<1>3. PICK op, at, cs, f :
        /\ \E b \in BOOLEAN : job' = [op |-> op, at |-> at, group |-> g, channels |-> cs,
                                      folder |-> f, new |-> b]
        /\ \/ ug[g] = "none" /\ op = "create" /\ at = "group" /\ cs \in SUBSET Channels /\ f = Nil
           \/ ug[g] = "deactivated" /\ op = "reuse" /\ at = "group" /\ cs = {} /\ f = Nil
           \/ /\ op = "delete" /\ at = "group" /\ cs = {}
              /\ g \in Tracked /\ f = folder[g]
           \/ /\ op = "update" /\ at \in {"subscribe", "row"} /\ (\E c \in Channels : cs = {c})
              /\ g \in Tracked /\ f = folder[g]
           \/ /\ op = "add" /\ at = (IF folder[g] = Nil THEN "create" ELSE "assign")
              /\ g \in Tracked /\ cs = rows[g] /\ f = folder[g]
           \/ /\ op = "remove" /\ at = "check" /\ folder[g] # Nil
              /\ g \in Tracked /\ cs = rows[g] /\ f = folder[g]
           \/ /\ op = "unassign" /\ at = "take" /\ folder[g] # Nil
              /\ g \in Tracked /\ cs = rows[g] /\ f = folder[g]
  <2>0. ASSUME NEW x PROVE (x = Nil) \in BOOLEAN
    OBVIOUS
  <2>1. CASE ug[g] = "none" /\ \E cs \in SUBSET Channels :
               job' = [op |-> "create", at |-> "group", group |-> g, channels |-> cs,
                       folder |-> Nil, new |-> Nil = Nil]
    BY <2>0, <2>1, Zenon
  <2>2. CASE ug[g] = "deactivated" /\
               job' = [op |-> "reuse", at |-> "group", group |-> g, channels |-> {},
                       folder |-> Nil, new |-> Nil = Nil]
    BY <2>0, <2>2, Zenon
  <2>3. CASE g \in Tracked /\
             job' = [op |-> "delete", at |-> "group", group |-> g, channels |-> {},
                     folder |-> folder[g], new |-> folder[g] = Nil]
    BY <2>0, <2>3, Zenon
  <2>4. CASE g \in Tracked /\ \E c \in Channels :
               job' = [op |-> "update", at |-> IF c \in rows[g] THEN "row" ELSE "subscribe",
                       group |-> g, channels |-> {c},
                       folder |-> folder[g], new |-> folder[g] = Nil]
    <3>1. PICK c \in Channels :
               job' = [op |-> "update", at |-> IF c \in rows[g] THEN "row" ELSE "subscribe",
                       group |-> g, channels |-> {c},
                       folder |-> folder[g], new |-> folder[g] = Nil]
      BY <2>4
    <3>2. (IF c \in rows[g] THEN "row" ELSE "subscribe") \in {"subscribe", "row"}
      OBVIOUS
    <3>3. PICK a \in {"subscribe", "row"} :
               job' = [op |-> "update", at |-> a, group |-> g, channels |-> {c},
                       folder |-> folder[g], new |-> folder[g] = Nil]
      BY <3>1, <3>2, Zenon
    <3>4. \E b \in BOOLEAN :
               job' = [op |-> "update", at |-> a, group |-> g, channels |-> {c},
                       folder |-> folder[g], new |-> b]
      BY <2>0, <3>3, Zenon
    <3>5. \E x \in Channels : {c} = {x}
      OBVIOUS
    <3>6. g \in Tracked
      BY <2>4
    <3>7. PICK op, at, cs, f :
               op = "update" /\ at = a /\ cs = {c} /\ f = folder[g]
      OBVIOUS
    <3> QED BY <3>4, <3>5, <3>6, <3>7, Zenon
  <2>5. CASE g \in Tracked /\
               job' = [op |-> "add", at |-> IF folder[g] = Nil THEN "create" ELSE "assign",
                       group |-> g, channels |-> rows[g],
                       folder |-> folder[g], new |-> folder[g] = Nil]
    BY <2>0, <2>5, Zenon
  <2>6. CASE g \in Tracked /\ folder[g] # Nil /\ \E op \in {"remove", "unassign"} :
               job' = [op |-> op, at |-> IF op = "remove" THEN "check" ELSE "take",
                       group |-> g, channels |-> rows[g],
                       folder |-> folder[g], new |-> folder[g] = Nil]
    <3>1. PICK op \in {"remove", "unassign"} :
               job' = [op |-> op, at |-> IF op = "remove" THEN "check" ELSE "take",
                       group |-> g, channels |-> rows[g],
                       folder |-> folder[g], new |-> folder[g] = Nil]
      BY <2>6
    <3>2. CASE op = "remove"
      <4>1. (IF op = "remove" THEN "check" ELSE "take") = "check"
        BY <3>2
      <4> QED BY <2>0, <2>6, <3>1, <3>2, <4>1, Zenon
    <3>3. CASE op = "unassign"
      <4>1. (IF op = "remove" THEN "check" ELSE "take") = "take"
        BY <3>3
      <4> QED BY <2>0, <2>6, <3>1, <3>3, <4>1, Zenon
    <3> QED BY <3>2, <3>3
  <2>7. Active \cap Tracked \subseteq Tracked
    OBVIOUS
  <2> QED BY <1>2, <2>1, <2>2, <2>3, <2>4, <2>5, <2>6, <2>7, Zenon
<1>4. PICK b \in BOOLEAN : job' = [op |-> op, at |-> at, group |-> g, channels |-> cs,
                                   folder |-> f, new |-> b]
  BY <1>3
<1>5. \A h \in Tracked : rows[h] \in SUBSET Channels
  BY DEF TypeInv, Tracked
<1>6. folder[g] \in {Nil} \cup Nat
  BY DEF TypeInv, TypeOK
<1>7. op \in {"create", "reuse", "delete", "update", "add", "remove", "unassign"} /\ at \in Ats
  BY <1>3 DEF Ats
<1>8. cs \in SUBSET Channels
  BY <1>3, <1>5
<1>9. f \in {Nil} \cup Nat /\ f \in {Nil, folder[g]}
  BY <1>3, <1>6
<1>10. job' \in Job
  BY <1>4, <1>7, <1>8, <1>9 DEF Job, Ats
<1>11. job'.op = op /\ job'.at = at /\ job'.group = g /\ job'.folder = f
  BY <1>4
<1>12. job' # Idle
  BY <1>7, <1>11 DEF Idle
<1>13. \/ ug[g] = "none" /\ op = "create" /\ at = "group" /\ f = Nil
       \/ ug[g] = "deactivated" /\ op = "reuse" /\ at = "group" /\ f = Nil
       \/ op = "delete" /\ at = "group" /\ f = folder[g]
       \/ op = "update" /\ at \in {"subscribe", "row"} /\ f = folder[g]
       \/ op = "add" /\ at = (IF f = Nil THEN "create" ELSE "assign") /\ f = folder[g]
       \/ op = "remove" /\ at = "check" /\ f # Nil /\ f = folder[g]
       \/ op = "unassign" /\ at = "take" /\ f # Nil /\ f = folder[g]
  BY <1>3
<1>14. op \in {"create", "reuse"} \/ g \in Tracked
  BY <1>3
<1> QED BY <1>1, <1>9, <1>10, <1>11, <1>12, <1>13, <1>14

LEMMA JobTypes ==
  ASSUME TypeInv, [Next]_vars
  PROVE  JobInv'
<1>0. made \in Nat /\ made' \in Nat /\ made <= made' /\ Nil \notin Nat
  BY FolderTypes, NilAssumption
<1>1. ASSUME job' = job, job = Idle \/ lst'.at \notin AtStart PROVE JobInv'
  <2>1. CASE job = Idle
    BY <1>1, <2>1 DEF JobInv
  <2>2. CASE job # Idle
    <3>1. job.folder # Nil => job.folder \in 1..made'
      BY <1>0, <2>2, JobFacts
    <3>2. MustHaveFolder' => job.folder # Nil
      BY <1>1, <2>2 DEF TypeInv, JobInv, MustHaveFolder
    <3> QED BY <1>1, <2>2, <3>1, <3>2, JobFacts DEF JobInv
  <2> QED BY <2>1, <2>2
<1>2. CASE Others
  BY <1>1, <1>2, OthersFrame, JobFacts
<1>3. CASE Listen
  <2>1. ASSUME lst.at \notin AtStart PROVE lst'.at \notin AtStart
    <3>1. ~StartStep
      BY <2>1 DEF StartStep, StartRead, Reconcile, ResumeQueue, RegisterAtStart, AtStart,
         Off
    <3>2. CASE ListenerEnds
      BY <3>2 DEF ListenerEnds, AtStart
    <3>3. ASSUME ClearQueue \/ ReplaceQueue \/ Reconnect
          PROVE  lst'.at \in {"consume", "replace"}
      <4>1. CASE ClearQueue
        BY <4>1, Polls DEF ClearQueue, Polling
      <4>2. CASE ReplaceQueue
        BY <4>2, Polls DEF ReplaceQueue, Connected, Polling
      <4>3. CASE Reconnect
        BY <4>3 DEF Reconnect, Connected
      <4> QED BY <3>3, <4>1, <4>2, <4>3
    <3>4. ASSUME RemoveChannelFromChannelGroups \/ VerifyDeleted
          PROVE  lst'.at \in {"consume", "save", "verified"}
      <4>1. lst \in Polling
        BY <3>4, Polls DEF RemoveChannelFromChannelGroups, VerifyDeleted, Consuming
      <4>2. Handled.at = "save" /\ Failed.at = "consume"
        BY <4>1 DEF Polling, Handled, Failed
      <4> QED BY <3>4, <4>2 DEF RemoveChannelFromChannelGroups, VerifyDeleted
    <3>5. ASSUME DeleteVerified PROVE lst'.at \in {"consume", "save"}
      <4>1. \E n, m : lst' = [at |-> "save", queue |-> lst.queue, cursor |-> n, polled |-> m]
                    \/ lst' = [at |-> "consume", queue |-> lst.queue, cursor |-> n, polled |-> m]
        BY <3>5 DEF DeleteVerified
      <4> QED BY <4>1
    <3>6. ASSUME SaveCursor PROVE lst'.at = "consume"
      BY <3>6, Polls DEF SaveCursor, Polling
    <3> QED BY <1>3, <2>1, <3>1, <3>2, <3>3, <3>4, <3>5, <3>6 DEF Listen, ListenerStep,
       AtStart
  <2> QED BY <1>1, <1>3, <2>1, ListenFrame, JobFacts
<1>4. CASE CallStep
  <2>0. job # Idle /\ job \in Job /\ lst'.at \notin AtStart /\ (MustHaveFolder => job.folder # Nil)
    BY <1>4, CallFrame, CallSteps, JobFacts DEF TypeInv, JobInv
  <2>1. CASE job' = Idle
    BY <2>1 DEF JobInv
  <2>2. ASSUME NEW at \in Ats, job' = [job EXCEPT !.at = at],
               job.op = "create" /\ at \in {"assign", "undo_folder"} => job.folder # Nil,
               job.op = "add" /\ at \in {"assign", "record", "undo"} => job.folder # Nil
        PROVE  JobInv'
    <3>1. /\ job' \in Job /\ job'.op = job.op /\ job'.at = at /\ job'.folder = job.folder
      BY <2>0, <2>2 DEF Job, Ats
    <3>2. job'.folder # Nil => job'.folder \in 1..made'
      BY <1>0, <2>0, <3>1, JobFacts
    <3>3. MustHaveFolder' => job'.folder # Nil
      BY <2>0, <2>2, <3>1 DEF MustHaveFolder
    <3> QED BY <2>0, <3>1, <3>2, <3>3 DEF JobInv
  <2>3. ASSUME NEW at \in Ats, CreateFolder, job' = [job EXCEPT !.at = at, !.folder = made']
        PROVE  JobInv'
    <3>0. PICK j \in Job : job' = [j EXCEPT !.folder = made']
      <4>1. [job EXCEPT !.at = at] \in Job
        BY <2>0 DEF Job, Ats
      <4> QED BY <2>3, <4>1
    <3>1. job' \in Job /\ job'.folder = made'
      BY <1>0, <3>0 DEF Job
    <3>2. made' \in 1..made' /\ made' # Nil
      BY <1>0, <2>3 DEF CreateFolder
    <3> QED BY <2>0, <3>1, <3>2 DEF JobInv
  <2> QED BY <1>4, <2>1, <2>2, <2>3, JobFrame
<1>5. CASE Call
  <2>1. /\ job' \in Job /\ lst'.at \notin AtStart
        /\ job'.folder \in {Nil, folder[job'.group]} /\ job'.group \in Groups
    BY <1>5, CallBegins, CallFrame DEF Job
  <2>2. folder[job'.group] \in {Nil} \cup 1..made
    BY <2>1 DEF TypeInv, TypeOK
  <2>3. job'.folder # Nil => job'.folder \in 1..made'
    BY <1>0, <2>1, <2>2
  <2>4. MustHaveFolder' => job'.folder # Nil
    BY <1>5, CallBegins DEF MustHaveFolder
  <2> QED BY <2>1, <2>3, <2>4 DEF JobInv
<1>6. CASE Crash
  BY <1>6 DEF Crash, JobInv
<1>7. CASE UNCHANGED vars
  BY <1>1, <1>7, JobFacts DEF vars
<1> QED BY <1>2, <1>3, <1>4, <1>5, <1>6, <1>7, NextSplit

THEOREM TypeStep ==
  ASSUME TypeInv, [Next]_vars
  PROVE  TypeInv'
<1>1. TypeOK'
  <2>1. subs' \subseteq Channels /\ view' \subseteq Groups
    BY SubsAndView DEF TypeInv, TypeOK, Active
  <2>2. \A g \in Tracked' : rows'[g] \subseteq Channels
    BY RowTypes DEF Tracked
  <2> QED BY <2>1, <2>2, ZulipTypes, FolderTypes, RowFolderTypes, GhostTypes, QueueTypes
       DEF TypeOK, QueueInv
<1> QED BY <1>1, ZulipTypes, FolderTypes, RowTypes, QueueTypes, JobTypes DEF TypeInv,
   QueueInv

THEOREM TypeStart ==
  ASSUME Init
  PROVE  TypeInv
<1> USE DEF Init, InitFolders
<1>1. TypeOK
  BY NilAssumption DEF TypeOK, FoldersOK, Tracked, Active, Off
<1>2. log \in Seq(AnyEvent)
  BY EmptySeq
<1> QED BY <1>1, <1>2 DEF TypeInv, JobInv, LstInv

THEOREM TypesHold == Spec => []TypeInv
BY TypeStart, TypeStep, PTL DEF Spec

(* Types, and that the cursor of the listener never runs ahead of what it polled,
   nor the stored one ahead of the listener: an event is not handled twice by a
   cursor that moved past what was seen, and none is skipped. *)
THEOREM TypeCorrect == Spec => []TypeOK
BY TypesHold, PTL DEF TypeInv

-----------------------------------------------------------------------------
(* The group that a call has activated and will give a row or deactivate. *)
Pending ==
  IF /\ job # Idle
     /\ \/ job.op = "create" /\ job.at # "group"
        \/ job.op = "reuse" /\ job.at = "row"
  THEN {job.group} ELSE {}

(* An active group that the listener is about to forget is known to be lost. *)
TrackedInv ==
  /\ Active \subseteq Tracked \cup excused \cup Pending
  /\ lst.at = "verified" /\ lst.id \in Active => lst.id \in excused

(* It is enough that every active group is, as it was, tracked, excused or pending,
   or has become so, and that a listener that is about to delete a row keeps its
   excuse. *)
LEMMA StillTracked ==
  ASSUME TrackedInv,
         \A g \in Active' : g \notin Active => g \in Tracked' \cup excused' \cup Pending',
         \A g \in Active' : g \in Tracked => g \in Tracked' \cup excused' \cup Pending',
         \A g \in Active' : g \in excused => g \in excused',
         \A g \in Active' : g \in Pending => g \in Tracked' \cup excused' \cup Pending',
         lst'.at = "verified" /\ lst'.id \in Active' => lst'.id \in excused'
  PROVE  TrackedInv'
BY DEF TrackedInv

(* The listener when the group that it is about to forget does not change. *)
LEMMA StillVerified ==
  ASSUME TrackedInv, lst' = lst,
         \A g \in Active' : g \notin Active /\ Verified(g) => g \in excused',
         \A g \in Active' : g \in excused => g \in excused'
  PROVE  lst'.at = "verified" /\ lst'.id \in Active' => lst'.id \in excused'
BY DEF TrackedInv, Verified

LEMMA PendingIdle == job = Idle => Pending = {}
BY DEF Pending

LEMMA PendingGoes ==
  ASSUME TypeInv, job # Idle, NEW at \in Ats,
         \/ job' = [job EXCEPT !.at = at]
         \/ job' = [job EXCEPT !.at = at, !.folder = made'],
         \/ job.op = "create" /\ at # "group"
         \/ job.op = "reuse" /\ at = "row"
  PROVE  Pending' = {job.group}
<1>1. job \in Job
  BY JobFacts
<1>2. job'.op = job.op /\ job'.at = at /\ job'.group = job.group
  <2>1. PICK j \in Job : j = [job EXCEPT !.at = at]
    BY <1>1 DEF Job, Ats
  <2>2. j.op = job.op /\ j.at = at /\ j.group = job.group
    BY <1>1, <2>1 DEF Job
  <2>3. job' = j \/ job' = [j EXCEPT !.folder = made']
    BY <2>1
  <2> QED BY <2>2, <2>3 DEF Job
<1>3. job' # Idle
  BY <1>2 DEF Idle
<1> QED BY <1>2, <1>3 DEF Pending

(* Calls: an active group without a row is the one whose call goes on. *)
LEMMA TrackedCall ==
  ASSUME TypeInv, TrackedInv, [Next]_vars, CallStep
  PROVE  TrackedInv'
<1>0. /\ job # Idle /\ job \in Job /\ job.group \in Groups /\ lst' = lst
      /\ \A cs \in SUBSET Channels : cs # Nil
      /\ rows \in [Groups -> {Nil} \cup SUBSET Channels]
      /\ ug \in [Groups -> {"none", "active", "deactivated"}]
      /\ job.channels \subseteq Channels /\ Pending \subseteq {job.group}
  BY CallSteps, JobFacts, CallFrame, NilAssumption DEF TypeInv, TypeOK, Pending
<1>1. CASE CreateGroup
  <2>1. CASE /\ SetActive(job.group)
             /\ job' = [job EXCEPT !.at = "folder"] \/ job' = [job EXCEPT !.at = "row"]
    <3>1. Pending' = {job.group}
      BY <1>0, <1>1, <2>1, PendingGoes DEF CreateGroup, Ats
    <3>2. rows' = rows /\ \A g \in Active' : g \in Active \/ g = job.group
      BY <1>0, <1>1, <2>1 DEF CreateGroup, SetActive, Active, table
    <3>3. /\ excused \subseteq excused'
          /\ Verified(job.group) => job.group \in excused'
      BY <1>0, <2>1 DEF SetActive
    <3>4. lst'.at = "verified" /\ lst'.id \in Active' => lst'.id \in excused'
      BY <1>0, <3>2, <3>3, StillVerified
    <3> QED BY <1>0, <3>1, <3>2, <3>3, <3>4, StillTracked DEF Tracked
  <2>2. CASE UNCHANGED <<ug, excused>>
    <3>1. Pending = {} /\ rows' = rows
      BY <1>1 DEF CreateGroup, Pending, table
    <3> QED BY <1>0, <2>2, <3>1, StillTracked, StillVerified DEF Active, Tracked
  <2>3. CASE ActivatedUnawares(job.group)
    <3>1. Pending = {} /\ rows' = rows
      BY <1>1 DEF CreateGroup, Pending, table
    <3>2. /\ excused' = excused \cup {job.group}
          /\ \A g \in Active' : g \in Active \/ g = job.group
      BY <1>0, <2>3 DEF ActivatedUnawares, Active
    <3> QED BY <1>0, <3>1, <3>2, StillTracked, StillVerified DEF Tracked
  <2> QED BY <1>1, <2>1, <2>2, <2>3 DEF CreateGroup, Goto
<1>2. ASSUME UNCHANGED <<ug, rows, excused>>, NEW at \in Ats \ {"group"}, job.op = "create",
             \/ job' = [job EXCEPT !.at = at]
             \/ job' = [job EXCEPT !.at = at, !.folder = made']
      PROVE  TrackedInv'
  <2>1. Pending' = {job.group}
    BY <1>0, <1>2, PendingGoes
  <2> QED BY <1>0, <1>2, <2>1, StillTracked, StillVerified DEF Active, Tracked
<1>3. CASE CreateGroupFolder \/ CreateAssign \/ UndoFolder
  BY <1>2, <1>3 DEF CreateGroupFolder, CreateAssign, UndoFolder, Goto, table, ghosts, Ats
<1>4. CASE CreateRow
  <2>1. CASE rows' = [rows EXCEPT ![job.group] = job.channels]
    <3>1. Tracked' = Tracked \cup {job.group}
      BY <1>0, <2>1 DEF Tracked
    <3>2. UNCHANGED <<ug, excused>>
      BY <1>4 DEF CreateRow
    <3> QED BY <1>0, <3>1, <3>2, StillTracked, StillVerified DEF Active
  <2>2. CASE Goto(IF job.folder = Nil THEN "undo" ELSE "undo_folder") /\ UNCHANGED table
    <3>1. job' = [job EXCEPT !.at = "undo"] \/ job' = [job EXCEPT !.at = "undo_folder"]
      BY <2>2 DEF Goto
    <3> QED BY <1>2, <1>4, <2>2, <3>1 DEF CreateRow, table, Ats
  <2> QED BY <1>4, <2>1, <2>2 DEF CreateRow
<1>5. CASE UndoCreate
  <2>1. rows' = rows
    BY <1>5 DEF UndoCreate, table
  <2>2. CASE SetDeactivated(job.group)
    <3>1. Active' = Active \ {job.group} /\ excused' = excused \ {job.group}
      BY <1>0, <2>2 DEF SetDeactivated, Active
    <3> QED BY <1>0, <2>1, <3>1, StillTracked, StillVerified DEF Tracked
  <2>3. CASE excused' = excused \cup {job.group} /\ UNCHANGED ug
    BY <1>0, <2>1, <2>3, StillTracked, StillVerified DEF Tracked, Active
  <2> QED BY <1>5, <2>2, <2>3 DEF UndoCreate
<1>6. CASE Reactivate
  <2>1. CASE SetActive(job.group) /\ job' = [job EXCEPT !.at = "row"]
    <3>1. Pending' = {job.group}
      BY <1>0, <1>6, <2>1, PendingGoes DEF Reactivate, Ats
    <3>2. rows' = rows /\ \A g \in Active' : g \in Active \/ g = job.group
      BY <1>0, <1>6, <2>1 DEF Reactivate, SetActive, Active, table
    <3>3. /\ excused \subseteq excused'
          /\ Verified(job.group) => job.group \in excused'
      BY <1>0, <2>1 DEF SetActive
    <3>4. lst'.at = "verified" /\ lst'.id \in Active' => lst'.id \in excused'
      BY <1>0, <3>2, <3>3, StillVerified
    <3> QED BY <1>0, <3>1, <3>2, <3>3, <3>4, StillTracked DEF Tracked
  <2>2. CASE UNCHANGED <<ug, excused>>
    <3>1. Pending = {} /\ rows' = rows
      BY <1>6 DEF Reactivate, Pending, table
    <3> QED BY <1>0, <2>2, <3>1, StillTracked, StillVerified DEF Active, Tracked
  <2>3. CASE ActivatedUnawares(job.group)
    <3>1. Pending = {} /\ rows' = rows
      BY <1>6 DEF Reactivate, Pending, table
    <3>2. /\ excused' = excused \cup {job.group}
          /\ \A g \in Active' : g \in Active \/ g = job.group
      BY <1>0, <2>3 DEF ActivatedUnawares, Active
    <3> QED BY <1>0, <3>1, <3>2, StillTracked, StillVerified DEF Tracked
  <2> QED BY <1>6, <2>1, <2>2, <2>3 DEF Reactivate, Goto
<1>7. CASE Import
  <2>0. ug' = ug
    BY <1>7 DEF Import
  <2>1. CASE rows' = (IF rows[job.group] = Nil THEN [rows EXCEPT ![job.group] = {}] ELSE rows)
             /\ UNCHANGED excused
    <3>1. {} # Nil
      BY <1>0
    <3>2. Tracked' = Tracked \cup {job.group}
      BY <1>0, <2>1, <3>1 DEF Tracked
    <3> QED BY <1>0, <2>0, <2>1, <3>2, StillTracked, StillVerified DEF Active
  <2>2. CASE excused' = excused \cup {job.group} /\ UNCHANGED rows
    BY <1>0, <2>0, <2>2, StillTracked, StillVerified DEF Active, Tracked
  <2> QED BY <1>7, <2>1, <2>2 DEF Import
<1>8. CASE Deactivate
  <2>1. rows' = rows /\ Pending = {}
    BY <1>8 DEF Deactivate, table, Pending
  <2>2. CASE SetDeactivated(job.group)
    <3>1. Active' = Active \ {job.group} /\ excused' = excused \ {job.group}
      BY <1>0, <2>2 DEF SetDeactivated, Active
    <3> QED BY <1>0, <2>1, <3>1, StillTracked, StillVerified DEF Tracked
  <2>3. CASE UNCHANGED <<ug, excused>>
    BY <1>0, <2>1, <2>3, StillTracked, StillVerified DEF Tracked, Active
  <2> QED BY <1>8, <2>2, <2>3 DEF Deactivate
<1>9. CASE DeleteRow
  <2>1. ug' = ug /\ Pending = {}
    BY <1>9 DEF DeleteRow, Pending
  <2>2. CASE /\ rows' = [rows EXCEPT ![job.group] = Nil]
             /\ excused' = excused \cup ({job.group} \cap Active)
    <3>1. Tracked' = Tracked \ {job.group}
      BY <1>0, <2>2 DEF Tracked
    <3> QED BY <1>0, <2>1, <2>2, <3>1, StillTracked, StillVerified DEF Active
  <2>3. CASE UNCHANGED <<rows, excused>>
    BY <1>0, <2>1, <2>3, StillTracked, StillVerified DEF Active, Tracked
  <2> QED BY <1>9, <2>2, <2>3 DEF DeleteRow, table
<1>10. CASE UpdateRow
  <2>1. UNCHANGED <<ug, excused>> /\ Pending = {}
    BY <1>10 DEF UpdateRow, Pending
  <2>2. CASE /\ job.group \in Tracked
             /\ rows' = [rows EXCEPT ![job.group] = @ \cup job.channels]
    <3>1. rows[job.group] \cup job.channels \in SUBSET Channels
      BY <1>0, <2>2 DEF Tracked
    <3>2. Tracked' = Tracked
      BY <1>0, <2>2, <3>1 DEF Tracked
    <3> QED BY <1>0, <2>1, <3>2, StillTracked, StillVerified DEF Active
  <2>3. CASE UNCHANGED rows
    BY <1>0, <2>1, <2>3, StillTracked, StillVerified DEF Active, Tracked
  <2> QED BY <1>10, <2>2, <2>3 DEF UpdateRow
<1>11. CASE \/ UpdateSubscribe \/ UpdateFolder \/ FolderCreate
            \/ FolderRecord \/ FolderAssign \/ FolderUndo \/ FolderCheck
            \/ FolderTake \/ FolderArchive \/ FolderForget
  <2>1. UNCHANGED <<ug, rows, excused>> /\ job.op \notin {"create", "reuse"}
    BY <1>11 DEF UpdateSubscribe, UpdateFolder, FolderCreate, FolderRecord, FolderAssign,
         FolderUndo, FolderCheck, FolderTake, FolderArchive, FolderForget, NoChange, table,
         ghosts
  <2>2. Pending = {}
    BY <2>1 DEF Pending
  <2> QED BY <1>0, <2>1, <2>2, StillTracked, StillVerified DEF Active, Tracked
<1> QED BY <1>1, <1>3, <1>4, <1>5, <1>6, <1>7, <1>8, <1>9, <1>10, <1>11 DEF CallStep

(* The listener and the reconciliation: who is active and loses a row has an
   excuse. *)
LEMMA TrackedListen ==
  ASSUME TypeInv, TrackedInv, [Next]_vars, Listen
  PROVE  TrackedInv'
<1>0. /\ Pending' = Pending /\ Active' = Active
      /\ \A cs \in SUBSET Channels : cs # Nil
      /\ rows \in [Groups -> {Nil} \cup SUBSET Channels]
  BY ListenFrame, NilAssumption DEF Pending, TypeInv, Active
<1>1. ASSUME Tracked \subseteq Tracked', excused \subseteq excused',
             lst'.at = "verified" => lst' = lst
      PROVE  TrackedInv'
  <2>1. lst'.at = "verified" /\ lst'.id \in Active' => lst'.id \in excused'
    BY <1>0, <1>1 DEF TrackedInv
  <2> QED BY <1>0, <1>1, <2>1, StillTracked
<1>2. CASE StartRead \/ ResumeQueue \/ RegisterAtStart \/ ListenerEnds
         \/ ClearQueue \/ ReplaceQueue \/ Reconnect
  <2>1. UNCHANGED <<rows, excused>>
    BY <1>2 DEF StartRead, ResumeQueue, RegisterAtStart, ListenerEnds, ReplaceQueue,
       ClearQueue, Reconnect,
         Register, Listening, table
  <2>2. lst'.at # "verified"
    <3>1. CASE StartRead \/ ResumeQueue \/ RegisterAtStart \/ ListenerEnds \/ Reconnect
      BY <3>1 DEF StartRead, ResumeQueue, RegisterAtStart, ListenerEnds, Reconnect,
         Connected, Off
    <3>2. CASE ClearQueue
      BY <3>2, Polls DEF ClearQueue, Polling
    <3>3. CASE ReplaceQueue
      BY <3>3, Polls DEF ReplaceQueue, Connected, Polling
    <3> QED BY <1>2, <3>1, <3>2, <3>3
  <2> QED BY <1>1, <2>1, <2>2 DEF Tracked
<1>3. CASE SaveCursor
  <2>1. lst'.at = "consume"
    BY <1>3, Polls DEF SaveCursor, Polling
  <2> QED BY <1>1, <1>3, <2>1 DEF SaveCursor, Listening, Tracked, table
<1>4. CASE Reconcile
  <2>1. lst.rows = rows /\ lst'.at = "ensure"
    BY <1>4 DEF Reconcile, TypeInv, LstInv, Off, Polling
  <2>2. \A g \in Groups : g \in Tracked' <=> g \in Tracked /\ g \in lst.groups
    BY <1>0, <1>4, <2>1 DEF Reconcile, Tracked
  <2>3. excused' = excused \cup {g \in Active : g \notin lst.groups}
    BY <1>4 DEF Reconcile
  <2> QED BY <1>0, <2>1, <2>2, <2>3, StillTracked DEF Active, Tracked
<1>5. CASE RemoveChannelFromChannelGroups \/ VerifyDeleted
  <2>0. lst \in Polling /\ excused \subseteq excused'
    BY <1>5, Polls DEF RemoveChannelFromChannelGroups, VerifyDeleted, Consuming, Listening
  <2>1. Handled.at = "save" /\ Failed.at = "consume"
    BY <2>0 DEF Handled, Failed, Polling
  <2>2. Tracked \subseteq Tracked'
    <3>1. CASE VerifyDeleted
      BY <3>1 DEF VerifyDeleted, table, Tracked
    <3>2. CASE RemoveChannelFromChannelGroups
      <4>1. CASE rows' = [g \in Groups |-> IF rows[g] = Nil THEN Nil ELSE rows[g] \ {Current.id}]
        BY <1>0, <4>1 DEF Tracked
      <4>2. CASE UNCHANGED rows
        BY <4>2 DEF Tracked
      <4> QED BY <3>2, <4>1, <4>2 DEF RemoveChannelFromChannelGroups
    <3> QED BY <1>5, <3>1, <3>2
  <2>3. CASE lst'.at # "verified"
    BY <1>1, <2>0, <2>2, <2>3
  <2>4. CASE lst'.at = "verified"
    <3>1. lst'.id = Current.id /\ (Current.id \in Active => Current.id \in excused')
      BY <1>5, <2>1, <2>4 DEF RemoveChannelFromChannelGroups, VerifyDeleted
    <3> QED BY <1>0, <2>0, <2>2, <3>1, StillTracked
  <2> QED BY <2>3, <2>4
<1>6. CASE DeleteVerified
  <2>1. lst.at = "verified" /\ lst'.at # "verified" /\ excused' = excused
    <3>1. \E n, m : lst' = [at |-> "save", queue |-> lst.queue, cursor |-> n, polled |-> m]
                  \/ lst' = [at |-> "consume", queue |-> lst.queue, cursor |-> n, polled |-> m]
      BY <1>6 DEF DeleteVerified
    <3> QED BY <1>6, <3>1 DEF DeleteVerified, Listening
  <2>2. \A g \in Tracked : g \in Tracked' \/ g = lst.id
    BY <1>0, <1>6 DEF DeleteVerified, Tracked, table
  <2>3. lst.id \in Active => lst.id \in excused
    BY <2>1 DEF TrackedInv
  <2> QED BY <1>0, <2>1, <2>2, <2>3, StillTracked
<1> QED BY <1>2, <1>3, <1>4, <1>5, <1>6 DEF Listen, StartStep, ListenerStep

LEMMA TrackedStep ==
  ASSUME TypeInv, TrackedInv, [Next]_vars
  PROVE  TrackedInv'
<1>0. ug \in [Groups -> {"none", "active", "deactivated"}]
  BY DEF TypeInv, TypeOK
<1>1. CASE Others
  <2>0. UNCHANGED <<lst, job>> /\ Pending' = Pending /\ Tracked' = Tracked
    BY <1>1, OthersFrame DEF Pending, Tracked, table
  <2>1. ASSUME NEW g \in Groups, AdminDeactivates(g) PROVE TrackedInv'
    <3>1. Active' = Active \ {g} /\ excused' = excused \ {g}
      BY <1>0, <2>1 DEF AdminDeactivates, SetDeactivated, Active
    <3> QED BY <2>0, <3>1, StillTracked, StillVerified
  <2>2. ASSUME NEW g \in Groups, AdminActivates(g) PROVE TrackedInv'
    <3>1. Active' = Active \cup {g} /\ excused' = excused \cup {g}
      BY <1>0, <2>2 DEF ActivatedUnawares, AdminActivates, Active
    <3> QED BY <2>0, <3>1, StillTracked, StillVerified
  <2>3. ASSUME UNCHANGED <<ug, excused>> PROVE TrackedInv'
    BY <2>0, <2>3, StillTracked, StillVerified DEF Active
  <2>4. ASSUME NEW c \in Channels, ChannelGoes(c) \/ ChannelMoves(c) PROVE TrackedInv'
    BY <2>3, <2>4 DEF ChannelGoes, ChannelMoves
  <2>5. CASE QueueExpires \/ ViewExpires
    BY <2>3, <2>5 DEF QueueExpires, ViewExpires, zulip, ghosts
  <2> QED BY <1>1, <2>1, <2>2, <2>4, <2>5 DEF Others
<1>2. CASE CallStep
  BY <1>2, TrackedCall
<1>3. CASE Listen
  BY <1>3, TrackedListen
<1>4. CASE Call
  <2>1. UNCHANGED <<ug, rows, excused, lst>> /\ Pending = {}
    BY <1>4, CallFrame, PendingIdle DEF Call, NoChange, table, ghosts
  <2> QED BY <2>1, StillTracked, StillVerified DEF Active, Tracked
<1>5. CASE Crash
  <2>1. UNCHANGED <<ug, rows>> /\ lst'.at = "off"
    BY <1>5 DEF Crash, zulip, table, Off
  <2>2. excused \subseteq excused' /\ Pending \subseteq excused'
    BY <1>5 DEF Crash, Pending
  <2> QED BY <2>1, <2>2, StillTracked DEF Active, Tracked
<1>6. CASE UNCHANGED vars
  BY <1>6 DEF vars, zulip, table, ghosts, TrackedInv, Active, Tracked, Pending
<1> QED BY <1>1, <1>2, <1>3, <1>4, <1>5, <1>6, NextSplit

LEMMA TrackedStart ==
  ASSUME Init
  PROVE  TrackedInv
BY DEF Init, TrackedInv, Active, Tracked, Pending, Off

(* Between calls, every active user group of the bot has a row, whatever calls fail
   and are undone, however late or often events come, and whenever the process
   dies and is started again (CreateChannelGroupExecute, NewClient,
   removeDeletedUserGroupChannelGroup). *)
THEOREM GroupsAreTracked == Spec => []ActiveIsTracked
<1>1. TypeInv /\ TrackedInv /\ [Next]_vars => TrackedInv'
  BY TrackedStep
<1>2. TrackedInv => ActiveIsTracked
  BY PendingIdle DEF TrackedInv, ActiveIsTracked
<1> QED BY <1>1, <1>2, TrackedStart, TypesHold, PTL DEF Spec

-----------------------------------------------------------------------------
(* Folders belong to rows, each to one. A group is new until its call has made it.
   Only the row of its group has the folder of a call. *)
OwnersInv ==
  /\ \A g \in Groups \ Tracked : folder[g] = Nil
  /\ \A g, h \in Groups : folder[g] = folder[h] /\ folder[g] # Nil => g = h
  /\ \A g \in Groups : ug[g] = "none" => g \notin Tracked

NoFolderYet ==
  \/ job.op = "create" /\ job.at \in {"group", "folder"}
  \/ job.op = "add" /\ job.at = "create"

CallInv ==
  job # Idle =>
    /\ job.op = "create" => job.group \notin Tracked
    /\ ug[job.group] = "none" <=> job.op = "create" /\ job.at = "group"
    /\ NoFolderYet => job.folder = Nil
    /\ job.op \notin {"create", "reuse"} => folder[job.group] \in {Nil, job.folder}
    /\ \A h \in Groups : job.folder # Nil /\ folder[h] = job.folder => h = job.group

(* A folder that a call has made and not recorded, or is about to undo, *)
Unrecorded(f) ==
  /\ job # Idle /\ job.folder = f
  /\ \/ job.op = "create" /\ job.at \in {"assign", "row", "undo_folder"}
     \/ job.op = "add" /\ job.at \in {"record", "undo"}

(* or is about to record, *)
Recording(f) ==
  /\ job # Idle /\ job.folder = f
  /\ \/ job.op = "create" /\ job.at \in {"assign", "row"}
     \/ job.op = "add" /\ job.at = "record"

(* and the folder of a row that a call has archived. *)
Archived(f) == job # Idle /\ job.op = "remove" /\ job.at = "forget" /\ job.folder = f

FoldersInv ==
  /\ \A f \in open \ loose : Unrecorded(f) \/ \E g \in Groups : folder[g] = f
  /\ \A f \in Nat : Recording(f) => f \in open
  /\ \A g \in Groups : folder[g] # Nil =>
       folder[g] \in open \cup loose \/ Archived(folder[g])
  /\ \A f \in open : ~Archived(f)
  /\ count \in [calls : Nat, changes : Nat, faults : Nat, crashes : Nat]

(* A step that gives no row and no folder: what a row loses becomes loose. *)
Loses ==
  /\ Tracked' \subseteq Tracked /\ loose \subseteq loose'
  /\ \A g \in Groups :
       /\ folder'[g] \in {Nil, folder[g]}
       /\ g \notin Tracked' => g \notin Tracked \/ folder'[g] = Nil
       /\ folder'[g] # folder[g] => folder[g] \in loose'
  /\ \A g \in Groups : ug'[g] = "none" => ug[g] = "none"

LEMMA LosesNothing ==
  ASSUME UNCHANGED <<rows, folder, ug>>, loose \subseteq loose'
  PROVE  Loses
BY DEF Loses, Tracked

LEMMA LosesRows ==
  ASSUME TypeInv, NEW gs, DeleteRows(gs), UNCHANGED ug,
         \A g \in Groups : g \in Tracked' <=> g \in Tracked /\ g \notin gs
  PROVE  Loses
<1>1. folder \in [Groups -> {Nil} \cup 1..made]
  BY DEF TypeInv, TypeOK
<1>2. Tracked' \subseteq Tracked
  BY DEF Tracked
<1>3. loose \subseteq loose'
  BY DEF DeleteRows
<1>4. ASSUME NEW g \in Groups
      PROVE  /\ folder'[g] \in {Nil, folder[g]}
             /\ g \notin Tracked' => g \notin Tracked \/ folder'[g] = Nil
             /\ folder'[g] # folder[g] => folder[g] \in loose'
  BY DEF DeleteRows
<1> QED BY <1>2, <1>3, <1>4 DEF Loses

(* Others, the listener and a crash. *)
LEMMA OthersLose ==
  ASSUME TypeInv, [Next]_vars, Others \/ Listen \/ Crash \/ UNCHANGED vars
  PROVE  Loses
<1>0. /\ ug \in [Groups -> {"none", "active", "deactivated"}]
      /\ rows \in [Groups -> {Nil} \cup SUBSET Channels]
      /\ \A cs \in SUBSET Channels : cs # Nil
  BY NilAssumption DEF TypeInv, TypeOK
<1>1. CASE Others
  <2>1. UNCHANGED <<rows, folder, loose>>
    BY <1>1, OthersFrame DEF table
  <2>2. \A g \in Groups : ug'[g] = "none" => ug[g] = "none"
    BY <1>0, ZulipFrame
  <2> QED BY <2>1, <2>2 DEF Loses, Tracked
<1>2. CASE Crash \/ UNCHANGED vars
  BY <1>2, LosesNothing DEF Crash, vars, zulip, table, ghosts
<1>3. CASE Reconcile
  <2>1. lst.rows = rows
    BY <1>3 DEF Reconcile, TypeInv, LstInv, Off, Polling
  <2>2. \A g \in Groups : g \in Tracked' <=> g \in Tracked /\ g \notin (Tracked \ lst.groups)
    BY <1>0, <1>3, <2>1 DEF Reconcile, Tracked
  <2> QED BY <1>3, <2>2, LosesRows DEF Reconcile, zulip
<1>4. CASE DeleteVerified
  <2>0. ug' = ug
    BY <1>4, ListenFrame DEF Listen, ListenerStep
  <2>1. CASE rows' = [rows EXCEPT ![lst.id] = Nil] /\ DeleteRows({lst.id})
    <3>1. \A g \in Groups : g \in Tracked' <=> g \in Tracked /\ g \notin {lst.id}
      BY <1>0, <2>1 DEF Tracked
    <3> QED BY <2>0, <2>1, <3>1, LosesRows
  <2>2. CASE UNCHANGED <<table, loose>>
    BY <2>0, <2>2, LosesNothing DEF table
  <2> QED BY <1>4, <2>1, <2>2 DEF DeleteVerified
<1>5. CASE RemoveChannelFromChannelGroups
  <2>1. UNCHANGED <<folder, loose, ug>>
    BY <1>5, ListenFrame DEF Listen, ListenerStep, RemoveChannelFromChannelGroups
  <2>2. Tracked' = Tracked
    <3>1. CASE rows' = [g \in Groups |-> IF rows[g] = Nil THEN Nil ELSE rows[g] \ {Current.id}]
      BY <1>0, <3>1 DEF Tracked
    <3>2. CASE UNCHANGED rows
      BY <3>2 DEF Tracked
    <3> QED BY <1>5, <3>1, <3>2 DEF RemoveChannelFromChannelGroups
  <2> QED BY <2>1, <2>2 DEF Loses
<1>6. CASE \/ StartRead \/ ResumeQueue \/ RegisterAtStart \/ VerifyDeleted
           \/ SaveCursor \/ ClearQueue \/ ReplaceQueue \/ Reconnect \/ ListenerEnds
  <2>1. UNCHANGED <<rows, folder, loose, ug>>
    BY <1>6 DEF StartRead, ResumeQueue, RegisterAtStart, VerifyDeleted, SaveCursor,
       ReplaceQueue, ClearQueue,
         Reconnect, ListenerEnds, Register, Listening, table, zulip
  <2> QED BY <2>1, LosesNothing
<1> QED BY <1>1, <1>2, <1>3, <1>4, <1>5, <1>6 DEF Listen, StartStep, ListenerStep

(* The steps of a call that give no row and no folder. *)
LEMMA CallLoses ==
  ASSUME TypeInv, [Next]_vars, CallStep, ~CreateRow, ~Import, ~FolderRecord,
         ~FolderUndo, ~FolderForget
  PROVE  Loses
<1>0. /\ ug \in [Groups -> {"none", "active", "deactivated"}]
      /\ rows \in [Groups -> {Nil} \cup SUBSET Channels]
      /\ \A cs \in SUBSET Channels : cs # Nil
      /\ job.group \in Groups /\ job.channels \subseteq Channels
  BY NilAssumption, CallSteps, JobFacts DEF TypeInv, TypeOK
<1>1. CASE DeleteRow
  <2>0. ug' = ug
    BY <1>1 DEF DeleteRow
  <2>1. CASE rows' = [rows EXCEPT ![job.group] = Nil] /\ DeleteRows({job.group})
    <3>1. \A g \in Groups : g \in Tracked' <=> g \in Tracked /\ g \notin {job.group}
      BY <1>0, <2>1 DEF Tracked
    <3> QED BY <2>0, <2>1, <3>1, LosesRows
  <2>2. CASE UNCHANGED <<table, loose>>
    BY <2>0, <2>2, LosesNothing DEF table
  <2> QED BY <1>1, <2>1, <2>2 DEF DeleteRow
<1>2. CASE UpdateRow
  <2>1. UNCHANGED <<folder, loose, ug>>
    BY <1>2 DEF UpdateRow
  <2>2. CASE /\ job.group \in Tracked
             /\ rows' = [rows EXCEPT ![job.group] = @ \cup job.channels]
    <3>1. rows[job.group] \cup job.channels \in SUBSET Channels
      BY <1>0, <2>2 DEF Tracked
    <3>2. Tracked' = Tracked
      BY <1>0, <2>2, <3>1 DEF Tracked
    <3> QED BY <2>1, <3>2 DEF Loses
  <2>3. CASE UNCHANGED rows
    BY <2>1, <2>3, LosesNothing
  <2> QED BY <1>2, <2>2, <2>3 DEF UpdateRow
<1>3. ASSUME UNCHANGED <<rows, folder>>, loose \subseteq loose' PROVE Loses
  <2>1. \A g \in Groups : ug'[g] = "none" => ug[g] = "none"
    BY <1>0, ZulipFrame
  <2> QED BY <1>3, <2>1 DEF Loses, Tracked
<1>4. CASE \/ CreateGroup \/ CreateGroupFolder \/ CreateAssign \/ UndoFolder \/ UndoCreate
           \/ Reactivate \/ Deactivate
  BY <1>3, <1>4 DEF ActivatedUnawares, StrayFolder, CreateGroup, CreateGroupFolder,
     CreateAssign, UndoFolder, UndoCreate,
     Reactivate, Deactivate, table, ghosts
<1>5. CASE \/ UpdateSubscribe \/ UpdateFolder \/ FolderCreate \/ FolderAssign
           \/ FolderCheck \/ FolderTake \/ FolderArchive
  BY <1>3, <1>5 DEF StrayFolder, UpdateSubscribe, UpdateFolder, FolderCreate,
     FolderAssign, FolderCheck,
     FolderTake, FolderArchive, NoChange, table, ghosts
<1> QED BY <1>1, <1>2, <1>4, <1>5 DEF CallStep

(* The job after a step that goes on. *)
LEMMA JobGoes ==
  ASSUME TypeInv, job # Idle, NEW at \in Ats, job' = [job EXCEPT !.at = at]
  PROVE  /\ job' # Idle /\ job'.op = job.op /\ job'.at = at
         /\ job'.group = job.group /\ job'.folder = job.folder /\ job'.new = job.new
         /\ job'.channels = job.channels
<1>1. job \in Job
  BY JobFacts
<1>2. /\ job'.op = job.op /\ job'.at = at /\ job'.group = job.group
      /\ job'.folder = job.folder /\ job'.channels = job.channels
  BY <1>1 DEF Job
<1>3. job'.new = job.new
  BY <1>1, Zenon DEF Job
<1> QED BY <1>1, <1>2, <1>3 DEF Job, Idle

LEMMA JobMakes ==
  ASSUME TypeInv, job # Idle, NEW at \in Ats,
         job' = [job EXCEPT !.at = at, !.folder = made']
  PROVE  /\ job' # Idle /\ job'.op = job.op /\ job'.at = at
         /\ job'.group = job.group /\ job'.folder = made'
<1>1. job \in Job
  BY JobFacts
<1>2. PICK j \in Job : j = [job EXCEPT !.at = at]
  BY <1>1 DEF Job, Ats
<1>3. j.op = job.op /\ j.at = at /\ j.group = job.group
  BY <1>1, <1>2 DEF Job
<1>4. job' = [j EXCEPT !.folder = made']
  BY <1>2
<1>5. job'.op = job.op /\ job'.at = at /\ job'.group = job.group /\ job'.folder = made'
  BY <1>3, <1>4 DEF Job
<1> QED BY <1>1, <1>5 DEF Job, Idle

-----------------------------------------------------------------------------
(* Folders belong to rows. *)

LEMMA OwnersKept ==
  ASSUME OwnersInv, Loses
  PROVE  OwnersInv'
BY DEF OwnersInv, Loses

LEMMA CallKept ==
  ASSUME CallInv, Loses, job # Idle,
         job'.op = job.op, job'.group = job.group, job'.folder = job.folder,
         ug'[job.group] = "none" <=> job.op = "create" /\ job'.at = "group",
         NoFolderYet' => job.folder = Nil,
         job.group \in Groups
  PROVE  CallInv'
BY DEF CallInv, Loses

(* A call begins. *)
LEMMA OwnersCall ==
  ASSUME TypeInv, OwnersInv, CallInv, [Next]_vars, Call
  PROVE  OwnersInv' /\ CallInv'
<1>1. UNCHANGED <<ug, rows, folder, loose>>
  BY DEF Call, NoChange, table, ghosts
<1>2. OwnersInv'
  BY <1>1, LosesNothing, OwnersKept
<1>3. job' \in Job /\ job'.group \in Groups
  BY CallBegins DEF Job
<1>4. ug[job'.group] = "none" <=> job'.op = "create" /\ job'.at = "group"
  BY <1>3, CallBegins DEF OwnersInv
<1>5. job'.op = "create" => job'.group \notin Tracked
  BY <1>3, <1>4, CallBegins DEF OwnersInv
<1>6. /\ NoFolderYet' => job'.folder = Nil
      /\ job'.op \notin {"create", "reuse"} => folder[job'.group] \in {Nil, job'.folder}
      /\ \A h \in Groups : job'.folder # Nil /\ folder[h] = job'.folder => h = job'.group
  BY <1>3, CallBegins DEF OwnersInv, NoFolderYet
<1> QED BY <1>1, <1>2, <1>4, <1>5, <1>6 DEF CallInv, Tracked

(* A row is written. *)
LEMMA OwnersWritten ==
  ASSUME TypeInv, OwnersInv, CallInv, job # Idle, ug' = ug,
         \A g \in Groups : g \in Tracked' <=> g \in Tracked \/ g = job.group,
         \/ folder' = folder
         \/ folder' = [folder EXCEPT ![job.group] = job.folder],
         ug[job.group] # "none"
  PROVE  OwnersInv'
<1>1. /\ job.group \in Groups /\ folder \in [Groups -> {Nil} \cup 1..made]
  BY JobFacts DEF TypeInv, TypeOK
<1>2. CASE folder' = folder
  BY <1>1, <1>2 DEF OwnersInv
<1>3. CASE folder' = [folder EXCEPT ![job.group] = job.folder]
  <2>1. \A g \in Groups : folder'[g] = IF g = job.group THEN job.folder ELSE folder[g]
    BY <1>1, <1>3
  <2> QED BY <1>1, <2>1 DEF OwnersInv, CallInv
<1> QED BY <1>2, <1>3

LEMMA OwnersCallStep ==
  ASSUME TypeInv, OwnersInv, CallInv, [Next]_vars, CallStep
  PROVE  OwnersInv' /\ CallInv'
<1>0. /\ job # Idle /\ job \in Job /\ job.group \in Groups
      /\ ug \in [Groups -> {"none", "active", "deactivated"}]
      /\ rows \in [Groups -> {Nil} \cup SUBSET Channels]
      /\ folder \in [Groups -> {Nil} \cup 1..made] /\ made \in Nat
      /\ \A cs \in SUBSET Channels : cs # Nil
      /\ job.channels \subseteq Channels
  BY NilAssumption, CallSteps, JobFacts DEF TypeInv, TypeOK
<1>1. ASSUME job' = Idle PROVE CallInv'
  BY <1>1 DEF CallInv
<1>2. CASE CreateRow
  <2>1. ug[job.group] # "none" /\ ug' = ug
    BY <1>0, <1>2 DEF CreateRow, CallInv
  <2>2. CASE /\ rows' = [rows EXCEPT ![job.group] = job.channels]
             /\ folder' = [folder EXCEPT ![job.group] = job.folder]
             /\ job' = Idle
    <3>1. \A g \in Groups : g \in Tracked' <=> g \in Tracked \/ g = job.group
      BY <1>0, <2>2 DEF Tracked
    <3> QED BY <1>0, <1>1, <2>1, <2>2, <3>1, OwnersWritten
  <2>3. CASE UNCHANGED table /\ Goto(IF job.folder = Nil THEN "undo" ELSE "undo_folder")
    <3>1. PICK at \in {"undo", "undo_folder"} : job' = [job EXCEPT !.at = at]
      BY <2>3 DEF Goto
    <3>2. at \in Ats
      BY DEF Ats
    <3>3. Loses
      BY <1>2, <2>1, <2>3, LosesNothing DEF CreateRow, table
    <3>4. job.op = "create"
      BY <1>2 DEF CreateRow
    <3>5. job'.at = at /\ job'.op = "create" /\ job'.group = job.group /\ job'.folder = job.folder
      BY <1>0, <3>1, <3>2, <3>4, JobGoes
    <3>6. ~NoFolderYet'
      BY <3>1, <3>5 DEF NoFolderYet
    <3> QED BY <1>0, <2>1, <3>1, <3>3, <3>4, <3>5, <3>6, OwnersKept, CallKept
  <2> QED BY <1>2, <2>2, <2>3 DEF CreateRow, Return
<1>3. CASE Import
  <2>1. ug[job.group] # "none" /\ ug' = ug /\ folder' = folder /\ job' = Idle
    BY <1>0, <1>3 DEF Import, CallInv, Return
  <2>2. CASE rows' = (IF rows[job.group] = Nil THEN [rows EXCEPT ![job.group] = {}] ELSE rows)
    <3>1. {} # Nil
      BY <1>0
    <3>2. \A g \in Groups : g \in Tracked' <=> g \in Tracked \/ g = job.group
      BY <1>0, <2>2, <3>1 DEF Tracked
    <3> QED BY <1>0, <1>1, <2>1, <3>2, OwnersWritten
  <2>3. CASE UNCHANGED rows
    BY <1>1, <1>3, <2>1, <2>3, LosesNothing, OwnersKept DEF Import
  <2> QED BY <1>3, <2>2, <2>3 DEF Import
<1>4. CASE FolderRecord
  <2>1. PICK at \in {"assign", "undo"} : job' = [job EXCEPT !.at = at]
    BY <1>4 DEF FolderRecord, Goto
  <2>2. at \in Ats
    BY DEF Ats
  <2>3. /\ job'.op = "add" /\ job'.at = at /\ job'.group = job.group /\ job'.folder = job.folder
        /\ job.op = "add" /\ UNCHANGED <<ug, rows>>
    BY <1>0, <1>4, <2>1, <2>2, JobGoes DEF FolderRecord
  <2>4. CASE folder' = folder
    <3>1. Loses
      BY <1>4, <2>3, <2>4, LosesNothing DEF FolderRecord
    <3> QED BY <1>0, <2>3, <3>1, OwnersKept, CallKept DEF CallInv, NoFolderYet
  <2>5. CASE job.group \in Tracked /\ folder' = [folder EXCEPT ![job.group] = job.folder]
    <3>1. \A g \in Groups : g \in Tracked' <=> g \in Tracked \/ g = job.group
      BY <2>3, <2>5 DEF Tracked
    <3>2. ug[job.group] # "none"
      BY <1>0, <2>3 DEF CallInv
    <3>3. OwnersInv'
      BY <1>0, <2>3, <2>5, <3>1, <3>2, OwnersWritten
    <3>4. \A g \in Groups : folder'[g] = IF g = job.group THEN job.folder ELSE folder[g]
      BY <1>0, <2>5
    <3>5. CallInv'
      BY <1>0, <2>3, <3>2, <3>4 DEF CallInv, NoFolderYet
    <3> QED BY <3>3, <3>5
  <2> QED BY <1>4, <2>4, <2>5 DEF FolderRecord
<1>5. CASE FolderUndo \/ FolderForget
  <2>1. job' = Idle /\ UNCHANGED <<ug, rows>>
    BY <1>5 DEF FolderUndo, FolderForget, Return
  <2>2. folder' = folder \/ folder' = [folder EXCEPT ![job.group] = Nil]
    BY <1>5 DEF FolderUndo, FolderForget
  <2>3. \A g \in Groups : folder'[g] \in {Nil, folder[g]}
    BY <1>0, <2>2
  <2>4. OwnersInv'
    BY <2>1, <2>3 DEF OwnersInv, Tracked
  <2> QED BY <1>1, <2>1, <2>4
<1>6. CASE ~(CreateRow \/ Import \/ FolderRecord \/ FolderUndo \/ FolderForget)
  <2>1. Loses
    BY <1>6, CallLoses
  <2> SUFFICES CallInv'
    BY <2>1, OwnersKept
  <2>2. ASSUME NEW at \in Ats, job' = [job EXCEPT !.at = at],
               ug'[job.group] = "none" <=> job.op = "create" /\ at = "group",
               job.op = "add" => at # "create",
               job.op = "create" /\ at \in {"group", "folder"} => job.folder = Nil
        PROVE  CallInv'
    BY <1>0, <2>1, <2>2, JobGoes, CallKept DEF NoFolderYet
  <2>3. CASE CreateGroup
    <3>1. CASE SetActive(job.group) /\ (Goto("folder") \/ Goto("row"))
      <4>1. PICK at \in {"folder", "row"} : job' = [job EXCEPT !.at = at]
        BY <3>1 DEF Goto
      <4>2. /\ ug'[job.group] # "none" /\ job.op = "create" /\ at \in Ats
            /\ job.folder = Nil
        BY <1>0, <2>3, <3>1 DEF CreateGroup, SetActive, Ats, CallInv, NoFolderYet
      <4> QED BY <2>2, <4>1, <4>2
    <3> QED BY <1>1, <2>3, <3>1 DEF CreateGroup, Return
  <2>4. ASSUME NEW at \in Ats, CreateFolder, job' = [job EXCEPT !.at = at, !.folder = made'],
               UNCHANGED <<ug, rows, folder>>, at \in {"assign", "record"},
               job.op = "add" => folder[job.group] = Nil,
               job.op \in {"create", "add"}, job.op = "create" => job.at # "group"
        PROVE  CallInv'
    <3>1. /\ job'.op = job.op /\ job'.at = at /\ job'.group = job.group /\ job'.folder = made'
      BY <1>0, <2>4, JobMakes
    <3>2. \A h \in Groups : folder[h] # made'
      BY <1>0, <2>4, NilAssumption DEF CreateFolder
    <3>3. ug[job.group] # "none"
      BY <1>0, <2>4 DEF CallInv
    <3> QED BY <1>0, <2>4, <3>1, <3>2, <3>3 DEF CallInv, Tracked, NoFolderYet
  <2>5. CASE CreateGroupFolder
    <3>1. UNCHANGED <<ug, rows, folder>> /\ job.op = "create" /\ job.at = "folder"
      BY <2>5 DEF CreateGroupFolder, table
    <3>2. CASE CreateFolder /\ job' = [job EXCEPT !.at = "assign", !.folder = made']
      BY <2>4, <3>1, <3>2 DEF Ats
    <3>3. CASE job' = [job EXCEPT !.at = "undo"]
      BY <1>0, <2>2, <3>1, <3>3 DEF Ats, CallInv
    <3> QED BY <2>5, <3>2, <3>3 DEF CreateGroupFolder, Goto
  <2>6. CASE FolderCreate
    <3>1. /\ UNCHANGED <<ug, rows, folder>> /\ job.op = "add" /\ job.at = "create"
          /\ folder[job.group] = Nil
      BY <1>0, <2>6 DEF FolderCreate, table, CallInv, NoFolderYet
    <3>2. CASE CreateFolder /\ job' = [job EXCEPT !.at = "record", !.folder = made']
      BY <2>4, <3>1, <3>2 DEF Ats
    <3> QED BY <1>1, <2>6, <3>2 DEF FolderCreate, Return
  <2>7. ASSUME ug' = ug \/ ug' = [ug EXCEPT ![job.group] = "deactivated"]
                        \/ ug' = [ug EXCEPT ![job.group] = "active"],
               job.at # "group" \/ job.op # "create",
               NEW at \in Ats \ {"group", "create"}, job' = [job EXCEPT !.at = at],
               at # "folder" \/ job.op # "create"
        PROVE  CallInv'
    <3>1. ug'[job.group] # "none"
      BY <1>0, <2>7 DEF CallInv
    <3> QED BY <2>2, <2>7, <3>1
  <2>8. CASE CreateAssign \/ UndoFolder \/ UndoCreate \/ Reactivate \/ Deactivate
    <3>1. ug' = ug \/ ug' = [ug EXCEPT ![job.group] = "deactivated"]
                   \/ ug' = [ug EXCEPT ![job.group] = "active"]
      BY <2>8 DEF ActivatedUnawares, CreateAssign, UndoFolder, UndoCreate, Reactivate,
         Deactivate, SetActive,
                  SetDeactivated
    <3>2. \/ job' = Idle
          \/ \E at \in Ats \ {"group", "create", "folder"} : job' = [job EXCEPT !.at = at]
      BY <2>8 DEF CreateAssign, UndoFolder, UndoCreate, Reactivate, Deactivate, Goto,
         Return, Ats
    <3>3. job.at # "group" \/ job.op # "create"
      BY <2>8 DEF CreateAssign, UndoFolder, UndoCreate, Reactivate, Deactivate
    <3> QED BY <1>1, <2>7, <3>1, <3>2, <3>3
  <2>9. CASE DeleteRow \/ UpdateRow
    BY <1>1, <2>9 DEF DeleteRow, UpdateRow, Return
  <2>10. CASE \/ UpdateSubscribe \/ UpdateFolder \/ FolderAssign
              \/ FolderCheck \/ FolderTake \/ FolderArchive
    <3>1. ug' = ug /\ job.op # "create"
      BY <2>10 DEF UpdateSubscribe, UpdateFolder, FolderAssign, FolderCheck, FolderTake,
         FolderArchive, NoChange
    <3>2. job' = Idle \/ \E at \in Ats \ {"group", "create"} : job' = [job EXCEPT !.at = at]
      <4>1. CASE UpdateSubscribe
        <5>1. \/ job' = Idle \/ job' = [job EXCEPT !.at = "row"]
              \/ job' = [job EXCEPT !.at = "folder"]
          BY <4>1 DEF UpdateSubscribe, Goto, Return
        <5> QED BY <5>1 DEF Ats
      <4>2. CASE UpdateFolder \/ FolderAssign \/ FolderCheck \/ FolderTake \/ FolderArchive
        BY <4>2 DEF UpdateFolder, FolderAssign, FolderCheck, FolderTake, FolderArchive,
           Goto,
           Return, Ats
      <4> QED BY <2>10, <4>1, <4>2
    <3> QED BY <1>1, <2>7, <3>1, <3>2
  <2> QED BY <1>6, <2>1, <2>3, <2>5, <2>6, <2>8, <2>9, <2>10 DEF CallStep
<1> QED BY <1>2, <1>3, <1>4, <1>5, <1>6

LEMMA OwnersStep ==
  ASSUME TypeInv, OwnersInv, CallInv, [Next]_vars
  PROVE  OwnersInv' /\ CallInv'
<1>1. CASE CallStep
  BY <1>1, OwnersCallStep
<1>2. CASE Call
  BY <1>2, OwnersCall
<1>3. CASE Others \/ Listen \/ Crash \/ UNCHANGED vars
  <2>1. Loses /\ OwnersInv'
    BY <1>3, OthersLose, OwnersKept
  <2>2. CASE job' = Idle
    BY <2>1, <2>2 DEF CallInv
  <2>3. CASE job' = job /\ job # Idle
    <3>1. job.group \in Groups
      BY <2>3, JobFacts
    <3>2. ug'[job.group] = "none" <=> ug[job.group] = "none"
      <4>1. ug \in [Groups -> {"none", "active", "deactivated"}]
        BY DEF TypeInv, TypeOK
      <4>2. ug' = ug \/ \E g \in Groups, st \in {"active", "deactivated"} :
                          ug' = [ug EXCEPT ![g] = st] /\ ug[g] # "none"
        <5>1. CASE Others
          BY <4>1, <5>1 DEF ActivatedUnawares, Others, AdminDeactivates, AdminActivates,
             SetDeactivated, Active,
             ChannelGoes, ChannelMoves, QueueExpires, ViewExpires, zulip
        <5>2. CASE Listen \/ Crash \/ UNCHANGED vars
          BY <5>2, ListenFrame, CrashFrame DEF vars, zulip
        <5> QED BY <1>3, <5>1, <5>2
      <4> QED BY <3>1, <4>1, <4>2
    <3> QED BY <2>1, <2>3, <3>1, <3>2, CallKept DEF CallInv, NoFolderYet
  <2>4. job' = Idle \/ job' = job
    BY <1>3, OthersFrame, ListenFrame DEF Crash, vars
  <2> QED BY <2>1, <2>2, <2>3, <2>4
<1> QED BY <1>1, <1>2, <1>3, NextSplit

-----------------------------------------------------------------------------
(* Folders are open while they belong to a row or a call. *)

CountType == count \in [calls : Nat, changes : Nat, faults : Nat, crashes : Nat]

LEMMA CountFrame ==
  ASSUME [Next]_vars
  PROVE  \/ count' = count
         \/ count' = [count EXCEPT !.calls = @ + 1]
         \/ count' = [count EXCEPT !.changes = @ + 1]
         \/ count' = [count EXCEPT !.faults = @ + 1]
         \/ count' = [count EXCEPT !.crashes = @ + 1]
<1> USE DEF Fault, Counted, Refused
<1>1. CASE Others
  <2>1. ASSUME NEW g \in Groups, AdminDeactivates(g) \/ AdminActivates(g)
        PROVE  count' = [count EXCEPT !.changes = @ + 1]
    BY <2>1 DEF AdminDeactivates, AdminActivates
  <2>2. ASSUME NEW c \in Channels, ChannelGoes(c) \/ ChannelMoves(c)
        PROVE  count' = [count EXCEPT !.changes = @ + 1]
    BY <2>2 DEF ChannelGoes, ChannelMoves
  <2>3. CASE QueueExpires \/ ViewExpires
    BY <2>3 DEF QueueExpires, ViewExpires
  <2> QED BY <1>1, <2>1, <2>2, <2>3 DEF Others
<1>2. CASE CallStep
  <2>1. count' = count \/ Fault
    <3> HIDE DEF Fault
    <3>1. CASE \/ CreateGroup \/ CreateGroupFolder \/ CreateAssign \/ CreateRow \/ UndoFolder
               \/ UndoCreate \/ Reactivate \/ Import \/ Deactivate \/ DeleteRow
      BY <3>1 DEF CreateGroup, CreateGroupFolder, CreateAssign, CreateRow, UndoFolder,
         UndoCreate, Reactivate, Import, Deactivate, DeleteRow
    <3>2. CASE \/ UpdateSubscribe \/ UpdateFolder \/ UpdateRow \/ FolderCreate
               \/ FolderRecord \/ FolderAssign \/ FolderUndo \/ FolderCheck
               \/ FolderTake \/ FolderArchive \/ FolderForget
      BY <3>2 DEF UpdateSubscribe, UpdateFolder, UpdateRow, FolderCreate, FolderRecord,
         FolderAssign, FolderUndo, FolderCheck, FolderTake, FolderArchive, FolderForget
    <3> QED BY <1>2, <3>1, <3>2 DEF CallStep
  <2> QED BY <2>1
<1>3. CASE Listen
  <2>1. count' = count \/ Fault
    <3> HIDE DEF Fault
    <3>1. CASE StartStep
      BY <3>1 DEF StartStep, StartRead, Reconcile, ResumeQueue, RegisterAtStart
    <3>2. CASE ListenerStep \/ Reconnect \/ ListenerEnds
      BY <3>2 DEF ListenerStep, RemoveChannelFromChannelGroups, VerifyDeleted,
         DeleteVerified,
         SaveCursor, ReplaceQueue, ClearQueue, Reconnect, ListenerEnds
    <3> QED BY <1>3, <3>1, <3>2 DEF Listen
  <2> QED BY <2>1
<1>4. CASE Call
  BY <1>4 DEF Call
<1>5. CASE Crash
  BY <1>5 DEF Crash
<1>6. CASE UNCHANGED vars
  BY <1>6 DEF vars
<1> QED BY <1>1, <1>2, <1>3, <1>4, <1>5, <1>6, NextSplit

LEMMA CountStep ==
  ASSUME CountType, [Next]_vars
  PROVE  CountType'
BY CountFrame DEF CountType

(* A step that fails counts. *)
LEMMA FaultCounts ==
  ASSUME CountType, Fault
  PROVE  count' # count
<1>1. count' = [count EXCEPT !.faults = @ + 1] /\ count.faults \in Nat
  BY DEF Fault, Counted, CountType
<1>2. count'.faults = count.faults + 1
  BY <1>1 DEF CountType
<1>3. count.faults + 1 # count.faults
  BY <1>1
<1> QED BY <1>2, <1>3, Zenon

(* No folder is given, and one that is taken becomes loose. *)
Spares ==
  /\ loose \subseteq loose'
  /\ \A g \in Groups : /\ folder'[g] \in {Nil, folder[g]}
                       /\ folder'[g] # folder[g] => folder[g] \in loose'

LEMMA LosesSpares == Loses => Spares
BY DEF Loses, Spares

LEMMA SparesAll == folder' = folder /\ loose \subseteq loose' => Spares
BY DEF Spares

LEMMA FoldersKept ==
  ASSUME TypeInv, FoldersInv, Spares, open' = open,
         \A f \in Nat : Unrecorded(f) => Unrecorded(f)' \/ f \in loose',
         \A f \in Nat : Recording(f)' => Recording(f),
         \A f \in Nat : Archived(f) => Archived(f)' \/ f \in loose',
         \A f \in Nat : Archived(f)' => Archived(f),
         CountType'
  PROVE  FoldersInv'
<1>0. /\ open \subseteq Nat /\ Nil \notin Nat
      /\ \A g \in Groups : folder[g] \in {Nil} \cup Nat
  BY NilAssumption DEF TypeInv, TypeOK, FoldersOK
<1>1. ASSUME NEW f \in open' \ loose'
      PROVE  Unrecorded(f)' \/ \E g \in Groups : folder'[g] = f
  <2>1. f \in open \ loose /\ f \in Nat /\ f # Nil
    BY <1>0 DEF Spares
  <2>2. Unrecorded(f) \/ \E g \in Groups : folder[g] = f
    BY <2>1 DEF FoldersInv
  <2> QED BY <2>1, <2>2 DEF Spares
<1>2. ASSUME NEW f \in Nat, Recording(f)' PROVE f \in open'
  BY <1>2 DEF FoldersInv
<1>3. ASSUME NEW g \in Groups, folder'[g] # Nil
      PROVE  folder'[g] \in open' \cup loose' \/ Archived(folder[g])'
  <2>1. folder'[g] = folder[g] /\ folder[g] # Nil /\ folder[g] \in Nat
    BY <1>0, <1>3 DEF Spares
  <2>2. folder[g] \in open \cup loose \/ Archived(folder[g])
    BY <2>1 DEF FoldersInv
  <2>3. CASE folder[g] \in open \cup loose
    BY <2>1, <2>3 DEF Spares
  <2>4. CASE Archived(folder[g])
    <3>1. PICK f \in Nat : f = folder[g]
      BY <2>1
    <3>2. Archived(f)' \/ f \in loose'
      BY <2>4, <3>1
    <3>3. folder'[g] = f
      BY <2>1, <3>1
    <3>4. Archived(f)' => Archived(folder[g])'
      BY <3>3 DEF Archived
    <3> QED BY <3>2, <3>3, <3>4
  <2> QED BY <2>2, <2>3, <2>4
<1>4. ASSUME NEW f \in open' PROVE ~Archived(f)'
  BY <1>0 DEF FoldersInv
<1> QED BY <1>1, <1>2, <1>3, <1>4 DEF FoldersInv, CountType

(* Calls. *)
LEMMA FoldersCallStep ==
  ASSUME TypeInv, OwnersInv, CallInv, FoldersInv, [Next]_vars, CallStep
  PROVE  FoldersInv'
<1>0. /\ job # Idle /\ job \in Job /\ job.group \in Groups /\ job.channels \subseteq Channels
      /\ open \subseteq Nat /\ Nil \notin Nat /\ open \subseteq 1..made /\ made \in Nat
      /\ folder \in [Groups -> {Nil} \cup 1..made]
      /\ job.folder \in {Nil} \cup 1..made
      /\ MustHaveFolder => job.folder # Nil
  BY NilAssumption, CallSteps, JobFacts DEF TypeInv, TypeOK, FoldersOK, JobInv
<1>c. CountType /\ CountType'
  BY CountStep DEF FoldersInv, CountType
(* Steps that return, and steps that go on, without a folder given or taken. *)
<1>1. ASSUME Spares, open' = open, job' = Idle, \A f \in Nat : ~Unrecorded(f) /\ ~Archived(f)
      PROVE  FoldersInv'
  BY <1>1, <1>c, FoldersKept DEF Recording, Archived
<1>2. ASSUME Spares, open' = open, NEW at \in Ats, job' = [job EXCEPT !.at = at],
             job.op = "create" /\ job.at \in {"assign", "row", "undo_folder"}
               => at \in {"row", "undo_folder"} \/ job.folder = Nil,
             job.op = "create" /\ at \in {"assign", "row"}
               => job.at = "assign" \/ job.folder = Nil,
             job.op = "add"
               => at # "record" /\ (job.at \in {"record", "undo"} => at = "undo"),
             job.op = "remove" => job.at # "forget" /\ at # "forget"
      PROVE  FoldersInv'
  <2>1. /\ job' # Idle /\ job'.op = job.op /\ job'.at = at /\ job'.folder = job.folder
    BY <1>0, <1>2, JobGoes
  <2>2. \A f \in Nat : Unrecorded(f) => Unrecorded(f)'
    BY <1>0, <1>2, <2>1 DEF Unrecorded
  <2>3. \A f \in Nat : Recording(f)' => Recording(f)
    BY <1>0, <1>2, <2>1 DEF Recording
  <2>4. \A f \in Nat : ~Archived(f) /\ ~Archived(f)'
    BY <1>2, <2>1 DEF Archived
  <2> QED BY <1>2, <1>c, <2>2, <2>3, <2>4, FoldersKept
<1>3. ASSUME NEW at \in Ats, CreateFolder, job' = [job EXCEPT !.at = at, !.folder = made'],
             UNCHANGED <<folder, loose>>,
             \/ job.op = "create" /\ at = "assign" /\ job.at = "folder"
             \/ job.op = "add" /\ at = "record" /\ job.at = "create"
      PROVE  FoldersInv'
  <2>1. /\ job' # Idle /\ job'.op = job.op /\ job'.at = at /\ job'.folder = made'
    BY <1>0, <1>3, JobMakes
  <2>2. open' = open \cup {made'}
    BY <1>3 DEF CreateFolder
  <2>3. \A f \in Nat : ~Unrecorded(f) /\ ~Archived(f) /\ ~Archived(f)'
    BY <1>3, <2>1 DEF Unrecorded, Archived
  <2>4. /\ \A f \in open' : f = made' => Unrecorded(f)'
        /\ \A f \in Nat : Recording(f)' => f \in open'
    BY <1>3, <2>1, <2>2 DEF Unrecorded, Recording
  <2>5. \A g \in Groups : folder[g] # Nil => folder[g] \in Nat /\ folder[g] \in open \cup loose
    <3>1. \A g \in Groups : folder[g] # Nil => folder[g] \in Nat
      BY <1>0
    <3> QED BY <3>1, <2>3 DEF FoldersInv
  <2>6. \A f \in open' : ~Archived(f)'
    BY <1>3, <2>1 DEF Archived
  <2>7. \A f \in open' \ loose' : Unrecorded(f)' \/ \E g \in Groups : folder'[g] = f
    <3>1. ASSUME NEW f \in open \ loose PROVE \E g \in Groups : folder'[g] = f
      BY <1>0, <1>3, <2>3 DEF FoldersInv
    <3> QED BY <1>3, <2>2, <2>4, <3>1
  <2>8. \A g \in Groups : folder'[g] # Nil => folder'[g] \in open' \cup loose'
    BY <1>3, <2>2, <2>5
  <2> QED BY <1>c, <2>4, <2>6, <2>7, <2>8 DEF FoldersInv, CountType
(* A folder that nobody knows of. *)
<1>s. ASSUME StrayFolder, folder' = folder, \A f \in Nat : ~Unrecorded(f) /\ ~Archived(f),
             job' = Idle \/ (job.op = "create" /\ job' = [job EXCEPT !.at = "undo"])
      PROVE  FoldersInv'
  <2>1. open' = open \cup {made'} /\ loose' = loose \cup {made'}
    BY <1>s DEF StrayFolder, CreateFolder
  <2>2. job' = Idle \/ (job'.op = "create" /\ job'.at = "undo")
    BY <1>0, <1>s, JobGoes DEF Ats
  <2>3. \A f \in Nat : ~Recording(f)'
    BY <2>2 DEF Recording
  <2>4. \A f \in open' : ~Archived(f)'
    BY <2>2 DEF Archived
  <2>5. \A f \in open' \ loose' : \E g \in Groups : folder'[g] = f
    BY <1>0, <1>s, <2>1 DEF FoldersInv
  <2>6. \A g \in Groups : folder'[g] # Nil => folder'[g] \in open' \cup loose'
    <3>1. \A g \in Groups : folder[g] # Nil => folder[g] \in Nat
      BY <1>0
    <3> QED BY <1>s, <2>1, <3>1 DEF FoldersInv
  <2> QED BY <1>c, <2>3, <2>4, <2>5, <2>6 DEF FoldersInv, CountType
<1>4. CASE CreateGroup
  <2>1. Spares /\ open' = open /\ job.op = "create" /\ job.at = "group" /\ job.folder = Nil
    BY <1>0, <1>4, SparesAll DEF CreateGroup, table, folders, CallInv, NoFolderYet
  <2>2. CASE job' = Idle
    BY <1>1, <2>1, <2>2 DEF Unrecorded, Archived
  <2>3. ASSUME NEW at \in {"folder", "row"}, job' = [job EXCEPT !.at = at]
        PROVE  FoldersInv'
    BY <1>2, <2>1, <2>3 DEF Ats
  <2> QED BY <1>4, <2>2, <2>3 DEF CreateGroup, Goto, Return
<1>5. CASE CreateGroupFolder
  <2>1. folder' = folder /\ job.op = "create" /\ job.at = "folder"
    BY <1>5 DEF CreateGroupFolder, table
  <2>2. CASE CreateFolder /\ loose' = loose
             /\ job' = [job EXCEPT !.at = "assign", !.folder = made']
    BY <1>3, <2>1, <2>2 DEF Ats
  <2>3. CASE job' = [job EXCEPT !.at = "undo"] /\ UNCHANGED <<folders, loose>>
    BY <1>2, <2>1, <2>3, SparesAll DEF Ats, folders
  <2>4. CASE job' = [job EXCEPT !.at = "undo"] /\ StrayFolder
    BY <1>s, <2>1, <2>4 DEF Unrecorded, Archived
  <2> QED BY <1>5, <2>2, <2>3, <2>4 DEF CreateGroupFolder, Goto
<1>6. CASE CreateAssign
  <2>1. Spares /\ open' = open /\ job.op = "create" /\ job.at = "assign"
    BY <1>6, SparesAll DEF CreateAssign, table, ghosts, AddChannelsToFolder, AddingStops
  <2>2. PICK at \in {"row", "undo_folder"} : job' = [job EXCEPT !.at = at]
    BY <1>6 DEF CreateAssign, Goto
  <2> QED BY <1>2, <2>1, <2>2 DEF Ats
<1>7. CASE CreateRow
  <2>1. /\ job.op = "create" /\ job.at = "row" /\ UNCHANGED <<open, loose>>
        /\ folder[job.group] = Nil
    BY <1>0, <1>7 DEF CreateRow, folders, CallInv, OwnersInv
  <2>2. CASE UNCHANGED table /\ Goto(IF job.folder = Nil THEN "undo" ELSE "undo_folder")
    <3>1. \/ job.folder = Nil /\ job' = [job EXCEPT !.at = "undo"]
          \/ job.folder # Nil /\ job' = [job EXCEPT !.at = "undo_folder"]
      BY <2>2 DEF Goto
    <3> QED BY <1>2, <2>1, <2>2, <3>1, SparesAll DEF Ats, table
  <2>3. CASE folder' = [folder EXCEPT ![job.group] = job.folder] /\ job' = Idle
    <3>1. \A g \in Groups : folder'[g] = IF g = job.group THEN job.folder ELSE folder[g]
      BY <1>0, <2>3
    <3>2. ASSUME NEW f \in open \ loose PROVE \E g \in Groups : folder'[g] = f
      <4>1. CASE Unrecorded(f)
        BY <1>0, <3>1, <4>1 DEF Unrecorded
      <4>2. ASSUME NEW g \in Groups, folder[g] = f PROVE folder'[g] = f
        BY <1>0, <2>1, <3>1, <4>2
      <4> QED BY <4>1, <4>2 DEF FoldersInv
    <3>3. ASSUME NEW g \in Groups, folder'[g] # Nil PROVE folder'[g] \in open \cup loose
      <4>1. CASE g = job.group
        <5>1. job.folder \in Nat /\ Recording(job.folder)
          BY <1>0, <2>1, <3>1, <3>3, <4>1 DEF Recording
        <5> QED BY <3>1, <4>1, <5>1 DEF FoldersInv
      <4>2. CASE g # job.group
        BY <2>1, <3>1, <3>3, <4>2 DEF FoldersInv, Archived
      <4> QED BY <4>1, <4>2
    <3> QED BY <1>c, <2>1, <2>3, <3>2, <3>3 DEF FoldersInv, CountType, Recording, Archived
  <2> QED BY <1>7, <2>2, <2>3 DEF CreateRow, Return
<1>8. CASE UndoFolder
  <2> DEFINE f == job.folder
  <2>1. /\ job.op = "create" /\ job.at = "undo_folder" /\ UNCHANGED folder
        /\ folder[job.group] = Nil /\ f # Nil /\ loose \subseteq loose'
    BY <1>0, <1>8 DEF UndoFolder, table, CallInv, OwnersInv, MustHaveFolder
  <2>2. /\ job' # Idle /\ job'.op = "create" /\ job'.at = "undo"
    BY <1>0, <1>8, <2>1, JobGoes DEF UndoFolder, Goto, Ats
  <2>3. open' \subseteq open /\ open \subseteq open' \cup {f} /\ (f \in open' => f \in loose')
    <3>1. CASE RollbackCreatedChannelFolder(job.channels, f)
      <4>1. PICK done \in (IF Conflicts(job.channels, f) = {} THEN {job.channels}
                           ELSE SUBSET (job.channels \cap Inside(f))) :
              open' = IF Inside(f) \subseteq done THEN open \ {f} ELSE open
        BY <3>1 DEF RollbackCreatedChannelFolder
      <4>2. CASE Conflicts(job.channels, f) = {} /\ Inside(f) \subseteq job.channels
        BY <4>1, <4>2
      <4>3. CASE ~(Conflicts(job.channels, f) = {} /\ Inside(f) \subseteq job.channels)
        BY <1>8, <4>1, <4>3 DEF UndoFolder
      <4> QED BY <4>2, <4>3
    <3>2. CASE Fault /\ RollbackStops(job.channels, f)
      <4>1. count' # count
        BY <1>c, <3>2, FaultCounts
      <4>2. open' = open \/ open' = open \ {f}
        BY <3>2 DEF RollbackStops
      <4>3. f \in loose'
        BY <1>8, <4>1 DEF UndoFolder
      <4> QED BY <4>2, <4>3
    <3> QED BY <1>8, <3>1, <3>2 DEF UndoFolder
  <2>4. \A h \in Groups : folder[h] # f
    BY <1>0, <2>1 DEF CallInv
  <2>5. \A x \in Nat : ~Recording(x)' /\ ~Archived(x)' /\ ~Archived(x)
    BY <2>1, <2>2 DEF Recording, Archived
  <2>6. ASSUME NEW x \in open' \ loose' PROVE \E g \in Groups : folder'[g] = x
    <3>1. x \in open \ loose /\ x # f
      BY <2>1, <2>3
    <3> QED BY <2>1, <3>1 DEF FoldersInv, Unrecorded
  <2>7. ASSUME NEW g \in Groups, folder'[g] # Nil PROVE folder'[g] \in open' \cup loose'
    <3>1. folder[g] \in open \cup loose
      BY <2>1, <2>7 DEF FoldersInv, Archived
    <3> QED BY <2>1, <2>3, <2>4, <3>1
  <2>8. \A x \in open' : ~Archived(x)'
    BY <2>2 DEF Archived
  <2> QED BY <1>c, <2>5, <2>6, <2>7, <2>8 DEF FoldersInv, CountType
<1>9. CASE UndoCreate
  BY <1>1, <1>9, SparesAll DEF UndoCreate, table, folders, Return, Unrecorded, Archived
<1>10. CASE Reactivate
  <2>1. Spares /\ open' = open /\ job.op = "reuse"
    BY <1>10, SparesAll DEF Reactivate, table, folders
  <2>2. job' = Idle \/ job' = [job EXCEPT !.at = "row"]
    BY <1>10 DEF Reactivate, Return, Goto
  <2> QED BY <1>1, <1>2, <2>1, <2>2 DEF Ats, Unrecorded, Archived
<1>11. CASE Import
  BY <1>1, <1>11, SparesAll DEF Import, folders, Return, Unrecorded, Archived
<1>12. CASE Deactivate
  <2>1. Spares /\ open' = open /\ job.op = "delete"
    BY <1>12, SparesAll DEF Deactivate, table, folders
  <2>2. job' = Idle \/ job' = [job EXCEPT !.at = "row"]
    BY <1>12 DEF Deactivate, Return, Goto
  <2> QED BY <1>1, <1>2, <2>1, <2>2 DEF Ats, Unrecorded, Archived
<1>13. CASE DeleteRow
  <2>1. Spares
    BY <1>13, CallLoses, LosesSpares
       DEF CreateRow, Import, FolderRecord, FolderUndo, FolderForget, DeleteRow
  <2> QED BY <1>1, <1>13, <2>1 DEF DeleteRow, folders, Return, Unrecorded, Archived
<1>14. CASE UpdateSubscribe \/ UpdateFolder \/ UpdateRow
  <2>1. Spares /\ open' = open /\ job.op = "update"
    BY <1>14, SparesAll DEF UpdateSubscribe, UpdateFolder, UpdateRow, table, folders,
       ghosts,
       NoChange, AddChannelsToFolder, AddingStops
  <2>2. \/ job' = Idle \/ job' = [job EXCEPT !.at = "row"]
        \/ job' = [job EXCEPT !.at = "folder"]
    BY <1>14 DEF UpdateSubscribe, UpdateFolder, UpdateRow, Return, Goto
  <2> QED BY <1>1, <1>2, <2>1, <2>2 DEF Ats, Unrecorded, Archived
<1>15. CASE FolderCreate
  <2>1. folder' = folder /\ job.op = "add" /\ job.at = "create"
    BY <1>15 DEF FolderCreate, table
  <2>2. CASE CreateFolder /\ loose' = loose
             /\ job' = [job EXCEPT !.at = "record", !.folder = made']
    BY <1>3, <2>1, <2>2 DEF Ats
  <2>3. CASE job' = Idle /\ UNCHANGED <<folders, loose>>
    BY <1>1, <2>1, <2>3, SparesAll DEF folders, Unrecorded, Archived
  <2>4. CASE job' = Idle /\ StrayFolder
    BY <1>s, <2>1, <2>4 DEF Unrecorded, Archived
  <2> QED BY <1>15, <2>2, <2>3, <2>4 DEF FolderCreate, Return
<1>16. CASE FolderRecord
  <2>1. job.op = "add" /\ job.at = "record" /\ open' = open /\ job.folder # Nil
    BY <1>0, <1>16 DEF FolderRecord, folders, MustHaveFolder
  <2>2. CASE job' = [job EXCEPT !.at = "undo"] /\ UNCHANGED <<folder, loose>>
    BY <1>2, <2>1, <2>2, SparesAll DEF Ats
  <2>3. CASE /\ job' = [job EXCEPT !.at = "assign"]
             /\ IF job.group \in Tracked
                THEN folder' = [folder EXCEPT ![job.group] = job.folder] /\ UNCHANGED loose
                ELSE loose' = loose \cup {job.folder} /\ UNCHANGED folder
    <3>0. job' # Idle /\ job'.op = "add" /\ job'.at = "assign"
      BY <1>0, <2>1, <2>3, JobGoes DEF Ats
    <3>1. \A x \in Nat : ~Recording(x)' /\ ~Archived(x)' /\ ~Archived(x)
      BY <2>1, <3>0 DEF Recording, Archived
    <3>2. job.folder \in Nat /\ job.folder \in open
      <4>1. job.folder \in Nat /\ Recording(job.folder)
        BY <1>0, <2>1 DEF Recording
      <4> QED BY <4>1 DEF FoldersInv
    <3>3. \A g \in Groups : /\ folder'[g] \in {folder[g], job.folder}
                            /\ folder'[g] # folder[g] => g = job.group
                            /\ loose \subseteq loose'
      BY <1>0, <2>3
    <3>4. job.folder \in loose' \/ folder'[job.group] = job.folder
      BY <1>0, <2>3
    <3>5. ASSUME NEW x \in open' \ loose' PROVE \E g \in Groups : folder'[g] = x
      <4>0. x \in open \ loose /\ x # Nil
        BY <1>0, <2>1, <3>3, <3>5
      <4>1. CASE x = job.folder
        BY <1>0, <3>4, <3>5, <4>1
      <4>2. CASE x # job.folder
        <5>1. PICK g \in Groups : folder[g] = x
          BY <4>0, <4>2 DEF FoldersInv, Unrecorded
        <5>2. g # job.group
          BY <1>0, <2>1, <4>0, <4>2, <5>1 DEF CallInv
        <5> QED BY <3>3, <5>1, <5>2
      <4> QED BY <4>1, <4>2
    <3>6. ASSUME NEW g \in Groups, folder'[g] # Nil PROVE folder'[g] \in open' \cup loose'
      <4>1. CASE folder'[g] = job.folder
        BY <2>1, <3>2, <4>1
      <4>2. CASE folder'[g] # job.folder
        <5>1. folder'[g] = folder[g] /\ loose \subseteq loose'
          BY <3>3, <4>2
        <5>2. folder[g] \in open \cup loose
          BY <2>1, <3>6, <5>1 DEF FoldersInv, Archived
        <5> QED BY <2>1, <5>1, <5>2
      <4> QED BY <4>1, <4>2
    <3>7. \A x \in open' : ~Archived(x)'
      BY <3>0 DEF Archived
    <3> QED BY <1>c, <3>1, <3>5, <3>6, <3>7 DEF FoldersInv, CountType
  <2> QED BY <1>16, <2>2, <2>3 DEF FolderRecord, Goto
<1>17. CASE FolderAssign
  <2>1. Spares /\ open' = open /\ job.op = "add" /\ job.at = "assign"
    BY <1>17, SparesAll DEF FolderAssign, table, ghosts, AddChannelsToFolder, AddingStops
  <2>2. job' = Idle \/ job' = [job EXCEPT !.at = "undo"]
    BY <1>17 DEF FolderAssign, Return, Goto
  <2> QED BY <1>1, <1>2, <2>1, <2>2 DEF Ats, Unrecorded, Archived
<1>18. CASE FolderUndo
  <2> DEFINE f == job.folder
  <2>1. /\ job.op = "add" /\ job.at = "undo" /\ job' = Idle /\ f # Nil /\ loose \subseteq loose'
    BY <1>0, <1>18 DEF FolderUndo, Return, MustHaveFolder
  <2>2. /\ open' = open \/ open' = open \ {f}
        /\ f \in open' => f \in loose'
        /\ \/ folder' = [folder EXCEPT ![job.group] = Nil]
           \/ folder' = folder /\ f \in loose'
    <3>1. CASE count' # count
      <4>1. open' = open \/ open' = open \ {f}
        BY <1>18 DEF FolderUndo, ArchiveFolder, folders
      <4>2. f \in loose'
        BY <1>18, <3>1 DEF FolderUndo
      <4>3. folder' = [folder EXCEPT ![job.group] = Nil] \/ folder' = folder
        BY <1>18 DEF FolderUndo
      <4> QED BY <4>1, <4>2, <4>3
    <3>2. CASE ~Fault /\ count' = count
      BY <1>18, <3>2 DEF FolderUndo, ArchiveFolder, folders
    <3> QED BY <1>c, <3>1, <3>2, FaultCounts
  <2>3. /\ \A g \in Groups : folder'[g] \in {Nil, folder[g]}
        /\ \A g \in Groups : folder'[g] # folder[g] => g = job.group
        /\ f \in loose' \/ folder'[job.group] = Nil
    BY <1>0, <2>2
  <2>4. ASSUME NEW x \in open' \ loose' PROVE \E g \in Groups : folder'[g] = x
    <3>1. x \in open \ loose /\ x # f /\ x # Nil
      BY <1>0, <2>1, <2>2
    <3>2. PICK g \in Groups : folder[g] = x
      BY <3>1 DEF FoldersInv, Unrecorded
    <3>3. g # job.group
      BY <1>0, <2>1, <3>1, <3>2 DEF CallInv
    <3> QED BY <2>3, <3>2, <3>3
  <2>5. ASSUME NEW g \in Groups, folder'[g] # Nil PROVE folder'[g] \in open' \cup loose'
    <3>1. folder'[g] = folder[g] /\ folder[g] \in open \cup loose
      BY <2>1, <2>3, <2>5 DEF FoldersInv, Archived
    <3>2. CASE folder[g] = f
      <4>1. g = job.group
        BY <1>0, <2>1, <3>2 DEF CallInv
      <4> QED BY <2>3, <2>5, <3>1, <3>2, <4>1
    <3>3. CASE folder[g] # f
      BY <2>1, <2>2, <3>1, <3>3
    <3> QED BY <3>2, <3>3
  <2> QED BY <1>c, <2>1, <2>4, <2>5 DEF FoldersInv, CountType, Recording, Archived
<1>19. CASE FolderCheck \/ FolderTake
  <2>1. Spares /\ open' = open /\ job.op \in {"remove", "unassign"} /\ job.at \in {"check", "take"}
    BY <1>19, SparesAll DEF FolderCheck, FolderTake, table, ghosts, folders, NoChange,
       RemoveChannelsFromFolder, RemovingStops
  <2>2. job' = Idle \/ \E at \in {"take", "archive"} : job' = [job EXCEPT !.at = at]
    BY <1>19 DEF FolderCheck, FolderTake, Return, Goto
  <2> QED BY <1>1, <1>2, <2>1, <2>2 DEF Ats, Unrecorded, Archived
<1>20. CASE FolderArchive
  <2> DEFINE f == job.folder
  <2>1. /\ job.op = "remove" /\ job.at = "archive" /\ folder' = folder
    BY <1>20 DEF FolderArchive, table
  <2>2. CASE job' = Idle /\ UNCHANGED <<folders, loose>>
    BY <1>1, <2>1, <2>2, SparesAll DEF folders, Unrecorded, Archived
  <2>4. CASE job' = Idle /\ open' = open \ {f} /\ loose' = loose \cup {f}
    <3>1. \A x \in Nat : ~Recording(x)' /\ ~Archived(x)'
      BY <2>4 DEF Recording, Archived
    <3>2. \A x \in open' : ~Archived(x)'
      BY <2>4 DEF Archived
    <3>3. \A x \in open' \ loose' : \E g \in Groups : folder'[g] = x
      BY <2>1, <2>4 DEF FoldersInv, Unrecorded
    <3>4. \A g \in Groups : folder'[g] # Nil => folder'[g] \in open' \cup loose'
      BY <2>1, <2>4 DEF FoldersInv, Archived
    <3> QED BY <1>c, <3>1, <3>2, <3>3, <3>4 DEF FoldersInv, CountType
  <2>3. CASE open' = open \ {f} /\ loose' = loose /\ job' = [job EXCEPT !.at = "forget"]
    <3>1. job' # Idle /\ job'.op = "remove" /\ job'.at = "forget" /\ job'.folder = f
      BY <1>0, <2>1, <2>3, JobGoes DEF Ats
    <3>2. \A x \in Nat : ~Recording(x)'
      BY <3>1 DEF Recording
    <3>3. \A x \in open' : ~Archived(x)'
      BY <2>3, <3>1 DEF Archived
    <3>4. \A x \in open' \ loose' : \E g \in Groups : folder'[g] = x
      BY <2>1, <2>3 DEF FoldersInv, Unrecorded
    <3>5. \A g \in Groups : folder'[g] # Nil =>
             folder'[g] \in open' \cup loose' \/ Archived(folder[g])'
      BY <2>1, <2>3, <3>1 DEF FoldersInv, Archived
    <3> QED BY <1>c, <3>2, <3>3, <3>4, <3>5 DEF FoldersInv, CountType
  <2> QED BY <1>20, <2>2, <2>3, <2>4 DEF FolderArchive, ArchiveFolder, Return, Goto
<1>21. CASE FolderForget
  <2> DEFINE f == job.folder
  <2>1. /\ job.op = "remove" /\ job.at = "forget" /\ job' = Idle /\ f # Nil /\ open' = open
        /\ loose \subseteq loose'
    BY <1>0, <1>21 DEF FolderForget, Return, MustHaveFolder, folders
  <2>2. \/ folder' = [folder EXCEPT ![job.group] = Nil]
        \/ folder' = folder /\ f \in loose'
    BY <1>21 DEF FolderForget
  <2>3. /\ \A g \in Groups : folder'[g] \in {Nil, folder[g]}
        /\ \A g \in Groups : folder'[g] # folder[g] => g = job.group
        /\ f \in loose' \/ folder'[job.group] = Nil
    BY <1>0, <2>2
  <2>4. ASSUME NEW x \in open' \ loose' PROVE \E g \in Groups : folder'[g] = x
    <3>1. x \in open \ loose /\ x # f /\ x # Nil
      BY <1>0, <2>1 DEF FoldersInv, Archived
    <3>2. PICK g \in Groups : folder[g] = x
      BY <2>1, <3>1 DEF FoldersInv, Unrecorded
    <3>3. g # job.group
      BY <1>0, <2>1, <3>1, <3>2 DEF CallInv
    <3> QED BY <2>3, <3>2, <3>3
  <2>5. ASSUME NEW g \in Groups, folder'[g] # Nil PROVE folder'[g] \in open' \cup loose'
    <3>1. folder'[g] = folder[g] /\ (folder[g] \in open \cup loose \/ folder[g] = f)
      BY <2>1, <2>3, <2>5 DEF FoldersInv, Archived
    <3>2. CASE folder[g] = f
      <4>1. g = job.group
        BY <1>0, <2>1, <3>2 DEF CallInv
      <4> QED BY <2>3, <2>5, <3>1, <3>2, <4>1
    <3>3. CASE folder[g] # f
      BY <2>1, <3>1, <3>3
    <3> QED BY <3>2, <3>3
  <2> QED BY <1>c, <2>1, <2>4, <2>5 DEF FoldersInv, CountType, Recording, Archived
<1> QED BY <1>4, <1>5, <1>6, <1>7, <1>8, <1>9, <1>10, <1>11, <1>12, <1>13, <1>14, <1>15,
           <1>16, <1>17, <1>18, <1>19, <1>20, <1>21 DEF CallStep

LEMMA FoldersStep ==
  ASSUME TypeInv, OwnersInv, CallInv, FoldersInv, [Next]_vars
  PROVE  FoldersInv'
<1>0. CountType'
  BY CountStep DEF FoldersInv, CountType
<1>1. CASE CallStep
  BY <1>1, FoldersCallStep
<1>2. CASE Call
  <2>1. Spares /\ open' = open
    BY <1>2, SparesAll DEF Call, NoChange, table, ghosts, folders
  <2>2. \A f \in Nat : ~Unrecorded(f) /\ ~Archived(f)
    BY <1>2 DEF Call, Unrecorded, Archived
  <2>3. \A f \in Nat : ~Recording(f)' /\ ~Archived(f)'
    BY <1>2, CallBegins DEF Recording, Archived
  <2> QED BY <1>0, <2>1, <2>2, <2>3, FoldersKept
<1>3. CASE Others \/ Listen \/ Crash \/ UNCHANGED vars
  <2>1. Spares /\ open' = open
    BY <1>3, OthersLose, LosesSpares, OthersFrame, ListenFrame, CrashFrame
       DEF folders, vars
  <2>2. CASE job' = job
    BY <1>0, <2>1, <2>2, FoldersKept DEF Unrecorded, Recording, Archived
  <2>3. CASE Crash
    <3>1. job' = Idle /\ (job # Idle => job.folder = Nil \/ job.folder \in loose')
      BY <2>3 DEF Crash
    <3>2. \A f \in Nat : /\ Unrecorded(f) => f \in loose'
                         /\ Archived(f) => f \in loose'
      BY <3>1, NilAssumption DEF Unrecorded, Archived
    <3>3. \A f \in Nat : ~Recording(f)' /\ ~Archived(f)'
      BY <3>1 DEF Recording, Archived
    <3> QED BY <1>0, <2>1, <3>2, <3>3, FoldersKept
  <2> QED BY <1>3, <2>2, <2>3, OthersFrame, ListenFrame DEF vars
<1> QED BY <1>1, <1>2, <1>3, NextSplit

LEMMA FoldersStart ==
  ASSUME Init
  PROVE  OwnersInv /\ CallInv /\ FoldersInv
BY NilAssumption DEF Init, InitFolders, OwnersInv, CallInv, FoldersInv, Tracked, Recording,
   Archived

(* What the invariants say between calls. *)
LEMMA FoldersImply ==
  ASSUME TypeInv, OwnersInv, FoldersInv
  PROVE  FoldersAgree
<1>1. ASSUME job = Idle, NEW f \in open \ loose
      PROVE  Cardinality({g \in Tracked : folder[g] = f}) = 1
  <2>a. open \subseteq Nat
    BY DEF TypeInv, TypeOK, FoldersOK
  <2>0. f # Nil
    BY <2>a, NilAssumption
  <2>1. PICK g \in Groups : folder[g] = f
    BY <1>1 DEF FoldersInv, Unrecorded
  <2>2. {h \in Tracked : folder[h] = f} = {g}
    BY <2>0, <2>1 DEF OwnersInv, Tracked
  <2> QED BY <2>2, FS_Singleton
<1>2. ASSUME job = Idle, NEW g \in Tracked PROVE folder[g] \in {Nil} \cup open \cup loose
  BY <1>2 DEF FoldersInv, Archived, Tracked
<1> QED BY <1>1, <1>2, Zenon DEF FoldersAgree

(* Between calls, every folder of the bot belongs to one row and every row's folder
   is there: no call, failed and undone or not, and no late event of the listener
   leaves a folder that nobody has, or that two have, or a row with a folder that
   is archived (CreateChannelGroupExecute, UpdateChannelGroupFolderExecute,
   rollbackCreatedChannelFolder). *)
THEOREM FoldersBelong == Spec => []FoldersAgree
<1> DEFINE IInv == OwnersInv /\ CallInv /\ FoldersInv
<1>1. TypeInv /\ IInv /\ [Next]_vars => IInv'
  BY OwnersStep, FoldersStep
<1>2. TypeInv /\ IInv => FoldersAgree
  BY FoldersImply
<1>3. Init => IInv
  BY FoldersStart
<1> QED BY <1>1, <1>2, <1>3, TypesHold, PTL DEF Spec

=============================================================================
