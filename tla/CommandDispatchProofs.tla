----------------------- MODULE CommandDispatchProofs -----------------------
(* Proofs about CommandDispatch and GroupCommands, for any groups, emojis,
   channels, users and roles and any bounds: what chains, failures, crashes and
   changes by others leave true of mappings, channels and the announcement. *)
EXTENDS CommandDispatch, SequenceTheorems, TLAPS

(* Commands that act on a group, and those that name an emoji or a channel. *)
OnAGroup == {"create", "set", "disable", "remove", "addFolder", "removeFolder", "assignFolder",
             "subscribe", "unsubscribe", "addChannel", "removeChannel", "createChannel"}
OnAChannel == {"addChannel", "removeChannel", "createChannel", "archive", "newChannel"}

AnyRequest ==
  [cmd : {"create"}, g : Groups, e : Emojis] \cup
  [cmd : {"set"}, name : Groups, g : Groups, e : Emojis] \cup
  [cmd : {"disable", "addFolder", "removeFolder", "assignFolder", "subscribe", "unsubscribe"},
   g : Groups] \cup
  [cmd : {"remove"}, g : Groups, force : BOOLEAN] \cup
  [cmd : {"announce"}] \cup
  [cmd : {"setMessage"}, m : Nat \cup {Foreign}] \cup
  [cmd : {"addChannel", "removeChannel", "createChannel"}, g : Groups, c : Channels] \cup
  [cmd : {"archive", "newChannel"}, c : Channels]

Publishing == {"announce", "send", "edit", "record", "react"}
Places == {"handle", "map", "empty", "archive", "delete", "unmap", "add"} \cup Publishing

AnyMapping == [emoji : Emojis, on : BOOLEAN]
AnyContent == SUBSET [name : Groups \cup {Missing}, emoji : Emojis]
AnyPost == [content : AnyContent, own : SUBSET Emojis]
Job == [at : Places, req : AnyRequest, user : Users, todo : SUBSET Channels,
        c : Channels \cup Nat \cup {Nil, Foreign}, restore : BOOLEAN, content : AnyContent]

(* Where a command can be. *)
Fits(at, cmd) ==
  /\ at = "map" => cmd \in {"create", "set"}
  /\ at \in Publishing => cmd \in Announcing
  /\ at \in {"empty", "archive"} => cmd \in {"remove", "archive"}
  /\ at \in {"delete", "unmap"} => cmd = "remove"
  /\ at = "add" => cmd = "createChannel"

PlaceInv ==
  /\ Fits(job.at, job.req.cmd)
  /\ job.at = "archive" => job.c \in Channels
  /\ job.at = "edit" => ann.msg # Nil
  /\ job.at = "record" => job.c \in DOMAIN posts
  /\ job.at = "handle" /\ job.req.cmd = "setMessage" => job.req.m \in DOMAIN posts \cup {Foreign}

TypeInv ==
  /\ TypeOK
  /\ rows \in [Groups -> {Nil} \cup SUBSET Channels]
  /\ mapping \in [Groups -> {Nil} \cup AnyMapping]
  /\ posts \in Seq(AnyPost)
  /\ ann = [msg |-> ann.msg, hash |-> ann.hash] /\ ann.hash \in {Nil} \cup AnyContent
  /\ job = Idle \/ (job \in Job /\ PlaceInv)
  /\ chain = Nil \/ chain \in [user : Users, ops : Seq(Operators)]
  /\ succeeded \in BOOLEAN /\ results \in Seq(BOOLEAN) /\ wasAdmin \in BOOLEAN

-----------------------------------------------------------------------------
(* Administrators. *)
AdminInv == job # Idle /\ job.req.cmd \in GroupAdmin \cup ChannelAdmin => wasAdmin

(* The emoji that a command is about to map is free. *)
MapInv ==
  ~aliased =>
    /\ \A g, h \in Enabled : g # h => mapping[g].emoji # mapping[h].emoji
    /\ At("map") => \A h \in Enabled : mapping[h].emoji = job.req.e => h = Target

(* Enabled mappings have groups but for what is under way. *)
RowsInv ==
  /\ Enabled \subseteq Tracked \cup excused \cup (IF At("unmap") THEN {Target} ELSE {})
  /\ At("map") => /\ Target \in Tracked \cup excused
                  /\ job.req.cmd = "create" /\ Target \in Enabled => Target \in excused

(* A channel that is emptied to be archived. *)
ChannelsInv ==
  \A c \in Channels : chan[c] = "emptied" =>
    c \in excused \/ (At("archive") /\ job.c = c /\ job.restore)

(* What is sent is recorded, unless that is lost. *)
PostsInv ==
  /\ Len(posts) > 1 => doubled
  /\ ann.msg = Nil => posts = <<>> \/ doubled \/ At("record")
  /\ At("send") => ann.msg = Nil

(* What the bot knows of the announcement. *)
ShownInv ==
  /\ ann.hash # Nil => ann.msg \in DOMAIN posts
  /\ ann.hash # Nil /\ ~torn /\ ~At("record") => posts[ann.msg].content = ann.hash
  /\ job.at \in {"send", "edit", "record", "react"} /\ ~behind => job.content = Shown
  /\ At("send") => ann.hash = Nil
  /\ At("record") => posts[job.c].content = job.content
  /\ At("record") /\ ann.msg # Nil => job.c = ann.msg
  /\ At("react") => ann.hash = job.content
  /\ job.at \notin Publishing \cup {"map", "unmap"} /\ ann.hash # Nil /\ ~behind /\ ~torn
       => posts[ann.msg] = UpToDate(Shown)

(* The outcomes of a chain of one operator: all but the last are the same, and the
   last too as long as a command runs. *)
Later(ops) == {ops[i] : i \in 2 .. Len(ops)}
AllButLast(ok, rs) == \A i \in DOMAIN rs : rs[i] = ok \/ i = Len(rs)
All(ok, rs) == \A i \in DOMAIN rs : rs[i] = ok

Stops(op, ok) ==
  Later(chain.ops) \subseteq {op} =>
    AllButLast(ok, results) /\ (job = Idle \/ All(ok, results))
RunsAll ==
  Later(chain.ops) \subseteq {"then"} =>
    Len(results) = Len(chain.ops) - (IF job = Idle THEN 0 ELSE 1)

ChainInv ==
  /\ chain = Nil => results = <<>> /\ job = Idle
  /\ results # <<>> => succeeded = results[Len(results)]
  /\ chain # Nil /\ chain.ops = <<>> => results = <<>> /\ job = Idle
  /\ chain # Nil => Stops("and", TRUE) /\ Stops("or", FALSE) /\ RunsAll

-----------------------------------------------------------------------------
(* Types. *)

LEMMA RequestFields ==
  ASSUME NEW req \in AnyRequest
  PROVE  /\ req.cmd \in Commands
         /\ req.cmd \in OnAGroup => req.g \in Groups
         /\ req.cmd \in {"create", "set"} => req.e \in Emojis
         /\ req.cmd = "set" => req.name \in Groups
         /\ req.cmd \in OnAChannel => req.c \in Channels
         /\ req.cmd = "setMessage" => req.m \in Nat \cup {Foreign}
BY DEF AnyRequest, Commands, GroupAdmin, Announcing, ChannelAdmin, OpenToAll, OnAGroup, OnAChannel

LEMMA ShownType ==
  ASSUME mapping \in [Groups -> {Nil} \cup AnyMapping]
  PROVE  Shown \in AnyContent /\ \A content \in AnyContent : EmojisOf(content) \in SUBSET Emojis
BY DEF Shown, NameOf, Enabled, Tracked, AnyMapping, AnyContent, EmojisOf

LEMMA JobType ==
  ASSUME job \in Job, NEW at \in Places
  PROVE  [job EXCEPT !.at = at] \in Job
BY DEF Job

(* What the steps of handlers may change. *)
LEMMA HandlerFrame ==
  ASSUME HandlerStep
  PROVE  /\ UNCHANGED <<role, configured>>
         /\ \/ UNCHANGED <<rows, folder>>
            \/ CreateGroup \/ SetImports \/ UpsertFails \/ Archived \/ DeleteGroup
            \/ ModifyFolder \/ AddChannel \/ RemoveChannel \/ AddCreatedChannel
         /\ \/ UNCHANGED <<ug, members>>
            \/ CreateGroup \/ CreateGroupFails \/ UpsertFails \/ DeleteGroup
            \/ DeleteGroupHalf \/ Subscribe \/ Unsubscribe
         /\ \/ UNCHANGED chan
            \/ UnsubscribeAll \/ UnsubscribeUnanswered \/ ArchiveChannel \/ ArchiveFails
            \/ CreateChannel \/ NewChannel
         /\ UNCHANGED posts \/ SendAnnouncement \/ EditAnnouncement \/ SyncReactions
         /\ UNCHANGED mapping \/ UpsertMapping \/ DisableMapping \/ DeleteMapping
         /\ UNCHANGED ann \/ SaveAnnouncementState \/ SetMessage
         /\ \/ UNCHANGED behind
            \/ UpsertFails \/ DeleteMappingFails \/ ReadMappings \/ EditRefused
            \/ AnnouncingFails \/ SyncReactions
         /\ UNCHANGED <<torn, doubled>> \/ SaveAnnouncementState \/ AnnouncingFails
         /\ UNCHANGED aliased \/ SetImports
         /\ \/ UNCHANGED excused
            \/ UpsertMapping \/ UnsubscribeUnanswered \/ ArchiveFails \/ DeleteMappingFails
<1> USE DEF HandlerStep, HandlerDenied, HandlerFails, Unknown, CreateRefused, CreateGroup,
      CreateGroupFails, SetRefused, SetImports, UpsertMapping, UpsertFails, DisableRefused,
      DisableMapping, RemoveRefused, RemoveBegins, ArchiveRefused, ArchiveBegins, UnsubscribeAll,
      UnsubscribeUnanswered, DeleteChannelGroup, DeleteChannelGroupStops, ArchiveChannel,
      ArchiveFails, Archived, RemoveFails, DeleteGroup, DeleteGroupHalf,
      DeleteMapping, DeleteMappingFails, AnnounceRefused, AnnounceBegins, NoTarget, ReadMappings,
      SendAnnouncement, EditAnnouncement, EditRefused, SaveAnnouncementState, AnnouncingFails,
      SyncReactions, SetMessage, Subscribe, Unsubscribe, AddChannel, RemoveChannel, SetChannels,
      CreateChannel, AddCreatedChannel, AddCreatedChannelFails, ModifyFolder, NewChannel, Refuse,
      zulip, table, ghosts
<1>1. UNCHANGED <<role, configured>>
  OBVIOUS
<1>2. \/ UNCHANGED <<rows, folder>>
      \/ CreateGroup \/ SetImports \/ UpsertFails \/ Archived \/ DeleteGroup
      \/ ModifyFolder \/ AddChannel \/ RemoveChannel \/ AddCreatedChannel
  OBVIOUS
<1>3. \/ UNCHANGED <<ug, members>>
      \/ CreateGroup \/ CreateGroupFails \/ UpsertFails \/ DeleteGroup
      \/ DeleteGroupHalf \/ Subscribe \/ Unsubscribe
  OBVIOUS
<1>4. \/ UNCHANGED chan
      \/ UnsubscribeAll \/ UnsubscribeUnanswered \/ ArchiveChannel \/ ArchiveFails
      \/ CreateChannel \/ NewChannel
  OBVIOUS
<1>5. UNCHANGED posts \/ SendAnnouncement \/ EditAnnouncement \/ SyncReactions
  OBVIOUS
<1>6. UNCHANGED mapping \/ UpsertMapping \/ DisableMapping \/ DeleteMapping
  OBVIOUS
<1>7. UNCHANGED ann \/ SaveAnnouncementState \/ SetMessage
  OBVIOUS
<1>8. \/ UNCHANGED behind
      \/ UpsertFails \/ DeleteMappingFails \/ ReadMappings \/ EditRefused
      \/ AnnouncingFails \/ SyncReactions
  OBVIOUS
<1>9. UNCHANGED <<torn, doubled>> \/ SaveAnnouncementState \/ AnnouncingFails
  OBVIOUS
<1>10. UNCHANGED aliased \/ SetImports
  OBVIOUS
<1>11. \/ UNCHANGED excused
       \/ UpsertMapping \/ UnsubscribeUnanswered \/ ArchiveFails \/ DeleteMappingFails
  OBVIOUS
<1> HIDE DEF HandlerStep, HandlerDenied, HandlerFails, Unknown, CreateRefused, CreateGroup,
      CreateGroupFails, SetRefused, SetImports, UpsertMapping, UpsertFails, DisableRefused,
      DisableMapping, RemoveRefused, RemoveBegins, ArchiveRefused, ArchiveBegins, UnsubscribeAll,
      UnsubscribeUnanswered, DeleteChannelGroup, DeleteChannelGroupStops, ArchiveChannel,
      ArchiveFails, Archived, RemoveFails, DeleteGroup, DeleteGroupHalf,
      DeleteMapping, DeleteMappingFails, AnnounceRefused, AnnounceBegins, NoTarget, ReadMappings,
      SendAnnouncement, EditAnnouncement, EditRefused, SaveAnnouncementState, AnnouncingFails,
      SyncReactions, SetMessage, Subscribe, Unsubscribe, AddChannel, RemoveChannel, SetChannels,
      CreateChannel, AddCreatedChannel, AddCreatedChannelFails, ModifyFolder, NewChannel, Refuse,
      zulip, table, ghosts
<1>12. QED
  BY <1>1, <1>2, <1>3, <1>4, <1>5, <1>6, <1>7, <1>8, <1>9, <1>10, <1>11

(* The steps of a handler either end its command or go on with it. *)
Ends == job' = Idle /\ results' = Append(results, succeeded') /\ succeeded' \in BOOLEAN
GoesOn == /\ job'.at # "idle" /\ job'.req = job.req /\ job'.user = job.user
          /\ UNCHANGED <<succeeded, results>>
Continues ==
  \/ CreateGroup \/ SetImports \/ UpsertMapping \/ DisableMapping \/ DeleteGroup \/ DeleteMapping
  \/ AnnounceBegins \/ SaveAnnouncementState \/ CreateChannel
  \/ RemoveBegins \/ ArchiveBegins \/ UnsubscribeAll \/ ArchiveChannel
  \/ ReadMappings \/ SendAnnouncement \/ EditAnnouncement \/ Archived

LEMMA HandlerJob ==
  ASSUME HandlerStep, job = Idle \/ job \in Job
  PROVE  /\ job \in Job /\ job # Idle
         /\ UNCHANGED <<role, configured>>
         /\ Ends \/ (GoesOn /\ Continues)
<1>1. job.at # "idle"
  BY DEF HandlerStep, HandlerDenied, HandlerFails, Unknown, CreateRefused, CreateGroup, CreateGroupFails,
     SetRefused, SetImports, UpsertMapping, UpsertFails, DisableRefused, DisableMapping,
     RemoveRefused, RemoveBegins, ArchiveRefused, ArchiveBegins, UnsubscribeAll,
     UnsubscribeUnanswered, ArchiveChannel,
     ArchiveFails, Archived, RemoveFails, DeleteGroup, DeleteGroupHalf, DeleteMapping,
     DeleteMappingFails, AnnounceRefused, AnnounceBegins, NoTarget, ReadMappings,
     SendAnnouncement, EditAnnouncement, EditRefused, SaveAnnouncementState, AnnouncingFails,
     SyncReactions, SetMessage, Subscribe, Unsubscribe, AddChannel, RemoveChannel, OnGroup,
     CreateChannel, AddCreatedChannel, AddCreatedChannelFails, ModifyFolder, NewChannel,
     Creating, Setting, Disabling, Removing, Handling, At
<1>2. UNCHANGED <<role, configured>>
  BY HandlerFrame
<1>3. ASSUME job \in Job
      PROVE  Ends \/ (GoesOn /\ Continues)
  <2>1. ASSUME NEW ok \in BOOLEAN, Finish(ok)
        PROVE  Ends
    BY <2>1 DEF Finish, Ends
  <2>2. CASE Finish(FALSE) \/ Finish(TRUE)
    BY <2>1, <2>2
  <2>3. Refuse => Finish(FALSE)
    BY DEF Refuse
  <2>4. CASE HandlerDenied \/ HandlerFails \/ Unknown \/ CreateRefused \/ CreateGroupFails
           \/ SetRefused \/ UpsertFails \/ DisableRefused \/ RemoveRefused \/ ArchiveRefused
           \/ ArchiveFails \/ RemoveFails \/ DeleteGroupHalf \/ DeleteMappingFails
           \/ AnnounceRefused \/ AddCreatedChannelFails \/ UnsubscribeUnanswered
    BY <2>2, <2>3, <2>4 DEF HandlerDenied, HandlerFails, Unknown, CreateRefused, CreateGroupFails,
       SetRefused, UpsertFails, DisableRefused, RemoveRefused, ArchiveRefused, ArchiveFails,
       RemoveFails, DeleteGroupHalf, DeleteMappingFails, AnnounceRefused, AddCreatedChannelFails,
       UnsubscribeUnanswered
  <2>5. CASE SetMessage \/ Subscribe \/ Unsubscribe \/ AddChannel \/ RemoveChannel
           \/ AddCreatedChannel \/ ModifyFolder \/ NewChannel \/ SyncReactions
    BY <2>2, <2>5 DEF SetMessage, Subscribe, Unsubscribe, AddChannel, RemoveChannel,
       AddCreatedChannel, ModifyFolder, NewChannel, SyncReactions, SetChannels, FinishUnsure
  <2>6. CASE NoTarget \/ EditRefused \/ AnnouncingFails
    <3>1. EndAnnouncing(FALSE)
      BY <2>6 DEF NoTarget, EditRefused, AnnouncingFails
    <3>2. PICK ok \in BOOLEAN : Finish(ok)
      BY <3>1 DEF EndAnnouncing
    <3>3. QED
      BY <2>1, <3>2
  <2>7. ASSUME NEW at \in Places, Goto(at), Going
        PROVE  GoesOn
    BY <1>3, <2>7 DEF Goto, Going, GoesOn, Job, Places, Publishing
  <2>8. CASE CreateGroup \/ SetImports \/ UpsertMapping \/ DisableMapping \/ DeleteGroup
           \/ DeleteMapping \/ AnnounceBegins \/ SaveAnnouncementState \/ CreateChannel
    <3>1. GoesOn
      BY <2>7, <2>8 DEF CreateGroup, SetImports, UpsertMapping, DisableMapping, DeleteGroup,
         DeleteMapping, AnnounceBegins, SaveAnnouncementState, CreateChannel, Places, Publishing
    <3>2. QED
      BY <2>8, <3>1 DEF Continues
  <2>9. CASE RemoveBegins \/ ArchiveBegins \/ UnsubscribeAll \/ ArchiveChannel
    <3>1. GoesOn
      BY <1>3, <2>9 DEF RemoveBegins, ArchiveBegins, UnsubscribeAll, ArchiveChannel, Going,
         GoesOn, Job
    <3>2. QED
      BY <2>9, <3>1 DEF Continues
  <2>10. CASE ReadMappings \/ SendAnnouncement \/ EditAnnouncement
    <3>1. GoesOn
      BY <1>3, <2>10 DEF ReadMappings, SendAnnouncement, EditAnnouncement, Going, GoesOn, Job
    <3>2. QED
      BY <2>10, <3>1 DEF Continues
  <2>11. CASE Archived
    <3>1. Finish(TRUE) \/ (Goto("delete") /\ Going)
      BY <2>11 DEF Archived
    <3>2. QED
      BY <2>2, <2>7, <2>11, <3>1 DEF Places, Continues
  <2>12. QED
    BY <2>4, <2>5, <2>6, <2>8, <2>9, <2>10, <2>11 DEF HandlerStep
<1>4. job # Idle
  BY <1>1 DEF Idle
<1>5. QED
  BY <1>2, <1>3, <1>4

LEMMA UnsubscribedType ==
  ASSUME job \in Job, NEW c \in Channels, NEW restore \in BOOLEAN,
         job' = [job EXCEPT !.at = "archive", !.c = c, !.restore = restore]
  PROVE  job' \in Job /\ job'.at = "archive" /\ job'.req = job.req /\ job'.c = c
BY DEF Job, Places

LEMMA GotoType ==
  ASSUME job \in Job, NEW at \in Places \ {"handle", "archive", "edit", "record"}, Goto(at),
         Fits(at, job.req.cmd)
  PROVE  job' \in Job /\ PlaceInv'
<1>1. job' \in Job /\ job'.at = at /\ job'.req = job.req
  BY JobType DEF Goto, Job
<1>2. QED
  BY <1>1 DEF PlaceInv, Fits

LEMMA HandlerJobType ==
  ASSUME TypeInv, HandlerStep
  PROVE  job' = Idle \/ (job' \in Job /\ PlaceInv')
<1> DEFINE Typed == job' = Idle \/ (job' \in Job /\ PlaceInv')
<1>1. job \in Job /\ PlaceInv /\ (Ends \/ Continues) /\ job.req \in AnyRequest
  BY HandlerJob DEF TypeInv, Job
<1>2. /\ job.req.cmd \in OnAGroup => Target \in Groups
      /\ job.req.cmd \in OnAChannel => job.req.c \in Channels
  BY <1>1, RequestFields DEF Target
<1>3. CASE Ends
  BY <1>3 DEF Ends
<1>4. ASSUME NEW at \in Places \ {"handle", "archive", "edit", "record"}, Goto(at),
             Fits(at, job.req.cmd)
      PROVE  Typed
  BY <1>1, <1>4, GotoType
<1>5. CASE CreateGroup \/ SetImports
  <2>1. Goto("map") /\ job.req.cmd \in {"create", "set"}
    BY <1>5 DEF CreateGroup, SetImports, Creating, Setting, Handling
  <2>2. QED
    BY <1>4, <2>1 DEF Fits, Places, Publishing
<1>6. CASE UpsertMapping \/ DisableMapping \/ DeleteMapping \/ AnnounceBegins
  <2>1. Goto("announce") /\ job.req.cmd \in {"create", "set", "disable", "remove", "announce"}
    BY <1>1, <1>6 DEF UpsertMapping, DisableMapping, DeleteMapping, AnnounceBegins, Disabling,
       Handling, At, PlaceInv, Fits
  <2>2. QED
    BY <1>4, <2>1 DEF Fits, Places, Publishing, Announcing
<1>7. CASE DeleteGroup
  <2>1. Goto("unmap") /\ job.req.cmd = "remove"
    BY <1>1, <1>7 DEF DeleteGroup, At, PlaceInv, Fits
  <2>2. QED
    BY <1>4, <2>1 DEF Fits, Places, Publishing
<1>8. CASE SaveAnnouncementState
  <2>1. Goto("react") /\ job.req.cmd \in Announcing
    BY <1>1, <1>8 DEF SaveAnnouncementState, At, PlaceInv, Fits, Publishing
  <2>2. QED
    BY <1>4, <2>1 DEF Fits, Places, Publishing
<1>9. CASE CreateChannel
  <2>1. Goto("add") /\ job.req.cmd = "createChannel"
    BY <1>9 DEF CreateChannel, OnGroup, Handling
  <2>2. QED
    BY <1>4, <2>1 DEF Fits, Places, Publishing
<1>10. CASE Archived
  <2>1. Finish(TRUE) \/ (Goto("delete") /\ job.req.cmd = "remove")
    BY <1>1, <1>10 DEF Archived, At, PlaceInv, Fits
  <2>2. Goto("delete") /\ job.req.cmd = "remove" => Typed
    BY <1>4 DEF Fits, Places, Publishing
  <2>3. QED
    BY <2>1, <2>2 DEF Finish
<1>11. CASE RemoveBegins
  <2>1. job.req.cmd = "remove" /\ Exclusive(Target) \subseteq Channels
    BY <1>2, <1>11 DEF RemoveBegins, Removing, Removable, Handling, OnAGroup, Exclusive, TypeInv,
       Tracked
  <2>2. job' \in Job /\ job'.at \in {"empty", "delete"} /\ job'.req = job.req
    BY <1>1, <1>11, <2>1 DEF RemoveBegins, Job, Places
  <2>3. QED
    BY <2>1, <2>2 DEF PlaceInv, Fits, Publishing
<1>12. CASE ArchiveBegins
  <2>1. job.req.cmd = "archive" /\ job.req.c \in Channels
    BY <1>2, <1>12 DEF ArchiveBegins, Handling, OnAChannel
  <2>2. job' \in Job /\ job'.at = "empty" /\ job'.req = job.req
    BY <1>1, <1>12, <2>1 DEF ArchiveBegins, Job, Places
  <2>3. QED
    BY <2>1, <2>2 DEF PlaceInv, Fits, Publishing
<1>13. CASE UnsubscribeAll \/ ArchiveChannel
  <2>1. job.req.cmd \in {"remove", "archive"} /\ job.todo \subseteq Channels
    BY <1>1, <1>13 DEF UnsubscribeAll, ArchiveChannel, At, PlaceInv, Fits, Job
  <2>2. CASE UnsubscribeAll
    <3>1. PICK c \in Channels, restore \in BOOLEAN :
            job' = [job EXCEPT !.at = "archive", !.c = c, !.restore = restore]
      BY <2>1, <2>2, Zenon DEF UnsubscribeAll
    <3>2. job' \in Job /\ job'.at = "archive" /\ job'.req = job.req /\ job'.c = c
      BY <1>1, <3>1, UnsubscribedType
    <3>3. QED
      BY <2>1, <3>2 DEF PlaceInv, Fits, Publishing
  <2>3. CASE ArchiveChannel
    <3>1. job' = [job EXCEPT !.at = "empty", !.todo = @ \ {job.c}, !.c = Nil, !.restore = FALSE]
      BY <2>3 DEF ArchiveChannel
    <3>2. job' \in Job /\ job'.at = "empty" /\ job'.req = job.req
      BY <1>1, <3>1 DEF Job, Places
    <3>3. QED
      BY <2>1, <3>2 DEF PlaceInv, Fits, Publishing
  <2>4. QED
    BY <1>13, <2>2, <2>3
<1>14. CASE ReadMappings \/ SendAnnouncement \/ EditAnnouncement
  <2>1. job.req.cmd \in Announcing
    BY <1>1, <1>14 DEF ReadMappings, SendAnnouncement, EditAnnouncement, At, PlaceInv, Fits,
       Publishing
  <2>2. Shown \in AnyContent /\ ann.msg \in Nat \cup {Nil, Foreign} /\ Len(posts) + 1 \in Nat
    BY ShownType, LenProperties DEF TypeInv, TypeOK
  <2>3. CASE ReadMappings
    <3>1. /\ job' \in Job /\ job'.at \in {"send", "edit", "react"} /\ job'.req = job.req
          /\ job'.at = "edit" => ann'.msg # Nil
      BY <1>1, <2>2, <2>3 DEF ReadMappings, Job, Places, Publishing, table
    <3>2. QED
      BY <2>1, <3>1 DEF PlaceInv, Fits, Publishing
  <2>4. CASE SendAnnouncement
    <3>1. /\ job' \in Job /\ job'.at = "record" /\ job'.req = job.req
          /\ job'.c = Len(posts) + 1
      BY <1>1, <2>2, <2>4 DEF SendAnnouncement, Job, Places, Publishing
    <3>2. Len(posts) + 1 \in DOMAIN posts'
      BY <2>4, AppendProperties DEF SendAnnouncement, SendMessage, TypeInv
    <3>3. QED
      BY <2>1, <3>1, <3>2 DEF PlaceInv, Fits, Publishing
  <2>5. CASE EditAnnouncement
    <3>1. /\ job' \in Job /\ job'.at = "record" /\ job'.req = job.req /\ job'.c = ann.msg
      BY <1>1, <2>2, <2>5 DEF EditAnnouncement, Job, Places, Publishing
    <3>2. ann.msg \in DOMAIN posts
      BY <1>1, <2>5 DEF EditAnnouncement, At, PlaceInv, TypeInv, TypeOK
    <3>3. DOMAIN posts' = DOMAIN posts
      BY <2>5 DEF EditAnnouncement, UpdateMessage
    <3>4. QED
      BY <2>1, <3>1, <3>2, <3>3 DEF PlaceInv, Fits, Publishing
  <2>6. QED
    BY <1>14, <2>3, <2>4, <2>5
<1>15. QED
  BY <1>1, <1>3, <1>5, <1>6, <1>7, <1>8, <1>9, <1>10, <1>11, <1>12, <1>13, <1>14 DEF Continues

LEMMA PostsChange ==
  ASSUME posts \in Seq(AnyPost), NEW msg, NEW post,
         msg \in DOMAIN posts => post \in AnyPost
  PROVE  /\ [posts EXCEPT ![msg] = post] \in Seq(AnyPost)
         /\ DOMAIN [posts EXCEPT ![msg] = post] = DOMAIN posts
         /\ Len([posts EXCEPT ![msg] = post]) = Len(posts)
<1> DEFINE after == [posts EXCEPT ![msg] = post]
<1>1. posts \in [1 .. Len(posts) -> AnyPost] /\ Len(posts) \in Nat
  BY LenProperties
<1>2. after \in [1 .. Len(posts) -> AnyPost]
  BY <1>1
<1>3. after \in Seq(AnyPost)
  BY <1>1, <1>2, SeqDef
<1>4. Len(after) = Len(posts)
  BY <1>1, <1>2, <1>3, LenProperties
<1>5. QED
  BY <1>1, <1>2, <1>3, <1>4

LEMMA HandlerTypes ==
  ASSUME TypeInv, HandlerStep, UNCHANGED <<chain, wasAdmin>>
  PROVE  TypeInv'
<1>1. job \in Job /\ PlaceInv /\ job.req \in AnyRequest
  BY HandlerJob DEF TypeInv, Job
<1>2. /\ job.req.cmd \in OnAGroup => Target \in Groups
      /\ job.req.cmd \in {"create", "set"} => job.req.e \in Emojis
      /\ job.req.cmd \in OnAChannel => job.req.c \in Channels
      /\ job.user \in Users
  BY <1>1, RequestFields DEF Target, Job
<1> USE DEF Creating, Setting, Disabling, OnGroup, Handling, At, PlaceInv, Fits, OnAGroup,
        OnAChannel
<1>3. rows' \in [Groups -> {Nil} \cup SUBSET Channels] /\ folder' \subseteq Tracked'
  <2>1. CASE UNCHANGED <<rows, folder>>
    BY <2>1 DEF TypeInv, TypeOK, Tracked
  <2>2. CASE CreateGroup \/ SetImports
    BY <1>1, <1>2, <2>2, NilAssumption DEF CreateGroup, SetImports, TypeInv, TypeOK, Tracked
  <2>3. CASE UpsertFails \/ DeleteGroup
    BY <1>1, <1>2, <2>3 DEF UpsertFails, DeleteGroup, DeleteChannelGroup, DeleteChannelGroupStops,
       TypeInv, TypeOK, Tracked
  <2>4. CASE Archived \/ ModifyFolder
    BY <1>1, <1>2, <2>4 DEF Archived, ModifyFolder, TypeInv, TypeOK, Tracked
  <2>5. CASE AddChannel \/ RemoveChannel \/ AddCreatedChannel
    <3>1. Target \in Groups /\ Target \in Tracked /\ job.req.c \in Channels
      BY <1>1, <1>2, <2>5 DEF AddChannel, RemoveChannel, AddCreatedChannel
    <3>2. rows[Target] \in SUBSET Channels
      BY <3>1 DEF TypeInv, Tracked
    <3>3. PICK cs \in SUBSET Channels : rows' = [rows EXCEPT ![Target] = cs]
      BY <2>5, <3>1, <3>2 DEF AddChannel, RemoveChannel, AddCreatedChannel, SetChannels
    <3>4. folder' = folder
      BY <2>5 DEF AddChannel, RemoveChannel, AddCreatedChannel, SetChannels
    <3>5. QED
      BY <3>1, <3>3, <3>4, NilAssumption DEF TypeInv, TypeOK, Tracked
  <2>6. QED
    BY <2>1, <2>2, <2>3, <2>4, <2>5, HandlerFrame
<1>4. ug' \in [Groups -> {"none", "active", "archived"}] /\ members' \in [Groups -> SUBSET Users]
  <2>1. CASE UNCHANGED <<ug, members>>
    BY <2>1 DEF TypeInv, TypeOK
  <2>2. CASE CreateGroup \/ CreateGroupFails
    BY <1>1, <1>2, <2>2 DEF CreateGroup, CreateGroupFails, TypeInv, TypeOK
  <2>3. CASE UpsertFails \/ DeleteGroup \/ DeleteGroupHalf
    <3>1. Target \in Groups
      BY <1>1, <1>2, <2>3 DEF UpsertFails, DeleteGroup, DeleteGroupHalf
    <3>2. /\ ug' = [ug EXCEPT ![Target] = "archived"] \/ UNCHANGED ug
          /\ members' = [members EXCEPT ![Target] = {}] \/ UNCHANGED members
      BY <2>3 DEF UpsertFails, DeleteGroup, DeleteGroupHalf, DeleteChannelGroup,
         DeleteChannelGroupStops
    <3>3. QED
      BY <3>1, <3>2 DEF TypeInv, TypeOK
  <2>4. CASE Subscribe \/ Unsubscribe
    <3>1. Target \in Groups /\ job.user \in Users /\ ug' = ug
      BY <1>1, <1>2, <2>4 DEF Subscribe, Unsubscribe
    <3>2. \/ members' = [members EXCEPT ![Target] = @ \cup {job.user}]
          \/ members' = [members EXCEPT ![Target] = @ \ {job.user}]
      BY <2>4 DEF Subscribe, Unsubscribe
    <3>3. members \in [Groups -> SUBSET Users] /\ ug \in [Groups -> {"none", "active", "archived"}]
      BY DEF TypeInv, TypeOK
    <3>4. members' \in [Groups -> SUBSET Users]
      BY <3>1, <3>2, <3>3
    <3>5. QED
      BY <3>1, <3>3, <3>4
  <2>5. QED
    BY <2>1, <2>2, <2>3, <2>4, HandlerFrame
<1>5. chan' \in [Channels -> {"none", "open", "emptied", "archived"}]
  <2>1. CASE UNCHANGED chan
    BY <2>1 DEF TypeInv, TypeOK
  <2>2. CASE UnsubscribeAll
    BY <1>1, <1>2, <2>2 DEF UnsubscribeAll, TypeInv, TypeOK, Job
  <2>3. CASE ArchiveChannel
    BY <1>1, <1>2, <2>3 DEF ArchiveChannel, TypeInv, TypeOK
  <2>4. CASE ArchiveFails \/ UnsubscribeUnanswered
    BY <1>1, <1>2, <2>4 DEF ArchiveFails, UnsubscribeUnanswered, TypeInv, TypeOK
  <2>5. CASE CreateChannel \/ NewChannel
    BY <1>1, <1>2, <2>5 DEF CreateChannel, NewChannel, TypeInv, TypeOK
  <2>6. QED
    BY <2>1, <2>2, <2>3, <2>4, <2>5, HandlerFrame
<1>6. mapping' \in [Groups -> {Nil} \cup AnyMapping]
  <2>1. CASE UNCHANGED mapping
    BY <2>1 DEF TypeInv
  <2>2. CASE UpsertMapping
    BY <1>1, <1>2, <2>2 DEF UpsertMapping, TypeInv, AnyMapping
  <2>3. CASE DisableMapping
    <3>1. [mapping[Target] EXCEPT !.on = FALSE] \in AnyMapping \/ mapping[Target] = Nil
      BY <1>1, <1>2, <2>3 DEF DisableMapping, TypeInv, AnyMapping
    <3>2. QED
      BY <1>1, <1>2, <2>3, <3>1 DEF DisableMapping, TypeInv
  <2>4. CASE DeleteMapping
    BY <1>1, <1>2, <2>4 DEF DeleteMapping, TypeInv
  <2>5. QED
    BY <2>1, <2>2, <2>3, <2>4, HandlerFrame
<1>7. posts' \in Seq(AnyPost) /\ DOMAIN posts \subseteq DOMAIN posts'
  <2>1. CASE UNCHANGED posts
    BY <2>1 DEF TypeInv
  <2>2. CASE SendAnnouncement
    <3>1. [content |-> job.content, own |-> {}] \in AnyPost
      BY <1>1 DEF Job, AnyPost
    <3>2. QED
      BY <2>2, <3>1, AppendProperties DEF SendAnnouncement, SendMessage, TypeInv
  <2>3. CASE EditAnnouncement
    <3>1. ann.msg \in DOMAIN posts =>
            [posts[ann.msg] EXCEPT !.content = job.content] \in AnyPost
      <4>1. job.content \in AnyContent
        BY <1>1 DEF Job
      <4>2. ann.msg \in DOMAIN posts => posts[ann.msg] \in AnyPost
        BY ElementOfSeq DEF TypeInv
      <4>3. QED
        BY <4>1, <4>2 DEF AnyPost
    <3>2. PICK post : /\ posts' = [posts EXCEPT ![ann.msg] = post]
                      /\ ann.msg \in DOMAIN posts => post \in AnyPost
      BY <2>3, <3>1 DEF EditAnnouncement, UpdateMessage
    <3>3. QED
      BY <3>2, PostsChange DEF TypeInv
  <2>4. CASE SyncReactions
    <3>1. ann.msg \in DOMAIN posts => posts[ann.msg] \in AnyPost
      BY ElementOfSeq DEF TypeInv
    <3>2. EmojisOf(job.content) \in SUBSET Emojis
      BY <1>1, ShownType DEF Job, TypeInv
    <3>3. PICK own : /\ posts' = [posts EXCEPT ![ann.msg].own = own]
                     /\ ann.msg \in DOMAIN posts => own \in SUBSET Emojis
      BY <2>4, <3>1, <3>2 DEF SyncReactions, AnyPost
    <3>4. ann.msg \in DOMAIN posts => [posts[ann.msg] EXCEPT !.own = own] \in AnyPost
      BY <3>1, <3>3 DEF AnyPost
    <3>5. QED
      BY <3>3, <3>4, PostsChange DEF TypeInv
  <2>5. QED
    BY <2>1, <2>2, <2>3, <2>4, HandlerFrame
<1>8. /\ ann' = [msg |-> ann'.msg, hash |-> ann'.hash] /\ ann'.hash \in {Nil} \cup AnyContent
      /\ ann'.msg \in DOMAIN posts' \cup {Nil, Foreign}
  <2>1. CASE UNCHANGED ann
    BY <1>7, <2>1 DEF TypeInv, TypeOK
  <2>2. CASE SaveAnnouncementState
    BY <1>1, <1>7, <2>2 DEF SaveAnnouncementState, Job
  <2>3. CASE SetMessage
    BY <1>1, <1>7, <2>3 DEF SetMessage
  <2>4. QED
    BY <2>1, <2>2, <2>3, HandlerFrame
<1>9. job' = Idle \/ (job' \in Job /\ PlaceInv')
  BY HandlerJobType
<1>10. succeeded' \in BOOLEAN /\ results' \in Seq(BOOLEAN)
  <2>1. CASE Ends
    BY <2>1, AppendProperties DEF Ends, TypeInv
  <2>2. CASE GoesOn
    BY <2>2 DEF GoesOn, TypeInv
  <2>3. QED
    BY <2>1, <2>2, HandlerJob DEF TypeInv
<1>11. role' \in [Users -> Roles]
  BY HandlerFrame DEF TypeInv, TypeOK
<1>12. job' # Idle => chain' # Nil
  BY HandlerJob DEF TypeInv, TypeOK
<1>13. \A g \in Tracked' : rows'[g] \subseteq Channels
  BY <1>3 DEF Tracked
<1>14. \A g \in Groups : mapping'[g] # Nil => mapping'[g] \in [emoji : Emojis, on : BOOLEAN]
  BY <1>6 DEF AnyMapping
<1>15. TypeOK'
  BY <1>3, <1>4, <1>5, <1>8, <1>11, <1>12, <1>13, <1>14 DEF TypeOK
<1>16. QED
  BY <1>3, <1>6, <1>7, <1>8, <1>9, <1>10, <1>15 DEF TypeInv
LEMMA SegmentType ==
  ASSUME TypeInv, NEW op \in Operators, Segment(op)
  PROVE  /\ chain \in [user : Users, ops : Seq(Operators)] /\ job = Idle
         /\ chain' \in [user : Users, ops : Seq(Operators)] /\ chain' # Nil
         /\ chain'.user = chain.user /\ chain'.ops = Append(chain.ops, op)
<1>1. chain \in [user : Users, ops : Seq(Operators)] /\ job = Idle
  BY DEF Segment, TypeInv
<1>2. Append(chain.ops, op) \in Seq(Operators)
  BY <1>1, AppendProperties
<1>3. chain' = [chain EXCEPT !.ops = Append(chain.ops, op)]
  BY DEF Segment
<1>4. /\ chain' \in [user : Users, ops : Seq(Operators)]
      /\ chain'.user = chain.user /\ chain'.ops = Append(chain.ops, op)
  BY <1>1, <1>2, <1>3
<1>5. QED
  BY <1>1, <1>4, ChainAssumption

LEMMA RoleAllowsType == \A actor, required : RoleAllows(actor, required) \in BOOLEAN
BY DEF RoleAllows

LEMMA FinishEnds == \A ok : Finish(ok) => job' = Idle /\ job'.at = "idle"
BY DEF Finish, Idle

LEMMA FinishType ==
  ASSUME TypeInv, NEW ok \in BOOLEAN, Finish(ok)
  PROVE  job' = Idle /\ succeeded' \in BOOLEAN /\ results' \in Seq(BOOLEAN)
BY AppendProperties DEF Finish, TypeInv

LEMMA RequestType ==
  ASSUME TypeInv, NEW req \in Requests, req.cmd \in Commands
  PROVE  /\ req \in AnyRequest
         /\ req.cmd = "setMessage" => req.m \in DOMAIN posts \cup {Foreign}
<1>1. DOMAIN posts \subseteq Nat
  BY LenProperties DEF TypeInv
<1>2. QED
  BY <1>1 DEF Requests, AnyRequest, Commands, GroupAdmin, Announcing, ChannelAdmin, OpenToAll

(* Steps that change neither groups, channels, mappings nor announcements. *)
LEMMA KeepTypes ==
  ASSUME TypeInv, UNCHANGED <<ug, members, chan, posts, rows, folder, mapping, ann>>,
         role' \in [Users -> Roles],
         job' = Idle \/ (job' \in Job /\ PlaceInv'), job' # Idle => chain' # Nil,
         chain' = Nil \/ chain' \in [user : Users, ops : Seq(Operators)],
         succeeded' \in BOOLEAN, results' \in Seq(BOOLEAN), wasAdmin' \in BOOLEAN
  PROVE  TypeInv'
<1>1. TypeOK'
  BY DEF TypeInv, TypeOK, Tracked
<1>2. QED
  BY <1>1 DEF TypeInv

LEMMA TypeInit == ASSUME Init PROVE TypeInv
<1>1. /\ role \in [Users -> Roles] /\ rows \in [Groups -> {Nil} \cup SUBSET Channels]
      /\ mapping \in [Groups -> {Nil} \cup AnyMapping]
      /\ ug \in [Groups -> {"none", "active", "archived"}]
      /\ members \in [Groups -> SUBSET Users]
      /\ chan \in [Channels -> {"none", "open", "emptied", "archived"}]
      /\ folder \subseteq Tracked
  BY DEF Init, InitGroups, AnyMapping
<1>2. job = Idle /\ chain = Nil
  BY DEF Init, InitGroups
<1>3. succeeded \in BOOLEAN /\ results \in Seq(BOOLEAN) /\ wasAdmin \in BOOLEAN
  BY EmptySeq DEF Init, InitGroups
<1>4. /\ posts \in Seq(AnyPost) /\ ann.msg \in DOMAIN posts \cup {Nil, Foreign}
      /\ ann = [msg |-> ann.msg, hash |-> ann.hash] /\ ann.hash \in {Nil} \cup AnyContent
  <2>1. Shown \in AnyContent /\ UpToDate(Shown) \in AnyPost
    BY <1>1, ShownType DEF UpToDate, AnyPost
  <2>2. CASE posts = <<>> /\ ann = [msg |-> Nil, hash |-> Nil]
    BY <2>2, EmptySeq
  <2>3. CASE posts = <<UpToDate(Shown)>> /\ ann = [msg |-> 1, hash |-> Shown]
    BY <2>1, <2>3
  <2>4. QED
    BY <2>2, <2>3 DEF Init, InitGroups
<1>5. \A g \in Tracked : rows[g] \subseteq Channels
  BY <1>1 DEF Tracked
<1>6. \A g \in Groups : mapping[g] # Nil => mapping[g] \in [emoji : Emojis, on : BOOLEAN]
  BY <1>1 DEF AnyMapping
<1>7. TypeOK
  BY <1>1, <1>2, <1>4, <1>5, <1>6 DEF TypeOK
<1>8. QED
  BY <1>1, <1>2, <1>3, <1>4, <1>7 DEF TypeInv

LEMMA TypeStep == ASSUME TypeInv, [Next]_vars PROVE TypeInv'
<1>1. /\ job = Idle \/ (job \in Job /\ PlaceInv)
      /\ job # Idle => chain # Nil
      /\ chain = Nil \/ chain \in [user : Users, ops : Seq(Operators)]
      /\ role \in [Users -> Roles]
  BY DEF TypeInv, TypeOK
<1>2. succeeded \in BOOLEAN /\ results \in Seq(BOOLEAN) /\ wasAdmin \in BOOLEAN
  BY DEF TypeInv
<1>3. ASSUME UNCHANGED vars
      PROVE  TypeInv'
  <2>1. UNCHANGED <<role, ug, members, chan, posts, rows, folder, mapping, ann, job, chain>>
    BY <1>3 DEF vars, zulip, table
  <2>2. succeeded' \in BOOLEAN /\ results' \in Seq(BOOLEAN) /\ wasAdmin' \in BOOLEAN
    BY <1>2, <1>3, Zenon DEF vars
  <2>3. PlaceInv => PlaceInv'
    BY <2>1 DEF PlaceInv
  <2>4. job' = Idle \/ (job' \in Job /\ PlaceInv')
    BY <1>1, <2>1, <2>3
  <2>5. QED
    BY <1>1, <2>1, <2>2, <2>4, KeepTypes
<1>4. ASSUME NEW u \in Users, Message(u)
      PROVE  TypeInv'
  <2>1. UNCHANGED <<role, ug, members, chan, posts, rows, folder, mapping, ann, job>>
    BY <1>4 DEF Message, world, zulip, table
  <2>2. succeeded' \in BOOLEAN /\ results' \in Seq(BOOLEAN) /\ wasAdmin' \in BOOLEAN
    BY <1>2, <1>4, Zenon DEF Message
  <2>3. job' = Idle /\ chain' \in [user : Users, ops : Seq(Operators)]
    BY <1>1, <1>4, <2>1, EmptySeq DEF Message
  <2>4. QED
    BY <1>1, <2>1, <2>2, <2>3, KeepTypes
<1>5. ASSUME NEW u \in Users, RoleChanges(u)
      PROVE  TypeInv'
  <2>1. role' \in [Users -> Roles]
    BY <1>1, <1>5 DEF RoleChanges
  <2>2. UNCHANGED <<ug, members, chan, posts, rows, folder, mapping, ann, job, chain>>
    BY <1>5 DEF RoleChanges, table
  <2>3. succeeded' \in BOOLEAN /\ results' \in Seq(BOOLEAN) /\ wasAdmin' \in BOOLEAN
    BY <1>2, <1>5, Zenon DEF RoleChanges
  <2>4. PlaceInv => PlaceInv'
    BY <2>2 DEF PlaceInv
  <2>5. job' = Idle \/ (job' \in Job /\ PlaceInv')
    BY <1>1, <2>2, <2>4
  <2>6. QED
    BY <1>1, <2>1, <2>2, <2>3, <2>5, KeepTypes
<1>6. ASSUME NEW op \in Operators, Skip(op)
      PROVE  TypeInv'
  <2>1. /\ job' = Idle /\ chain' \in [user : Users, ops : Seq(Operators)]
        /\ UNCHANGED <<zulip, table, succeeded, results, wasAdmin>>
    BY <1>6, SegmentType DEF Skip, world
  <2>2. QED
    BY <1>1, <1>2, <2>1, KeepTypes DEF zulip, table
<1>7. ASSUME NEW op \in Operators, NEW req \in Requests, DispatchOne(op, req)
      PROVE  TypeInv'
  <2>1. /\ chain \in [user : Users, ops : Seq(Operators)]
        /\ chain' \in [user : Users, ops : Seq(Operators)] /\ chain' # Nil
    BY <1>7, SegmentType DEF DispatchOne, Turn
  <2>2. wasAdmin' \in BOOLEAN
    BY <1>7, RoleAllowsType, Zenon DEF DispatchOne, Turn
  <2>3. UNCHANGED <<zulip, table, succeeded, results>>
    BY <1>7 DEF DispatchOne, world
  <2>4. req \in AnyRequest /\ (req.cmd = "setMessage" => req.m \in DOMAIN posts \cup {Foreign})
    BY <1>7, RequestType DEF DispatchOne
  <2>5. job' = [at |-> "handle", req |-> req, user |-> chain.user,
                todo |-> {}, c |-> Nil, restore |-> FALSE, content |-> {}]
    BY <1>7 DEF DispatchOne
  <2>6. job' \in Job
    BY <2>1, <2>4, <2>5 DEF Job, Places, AnyContent
  <2>7. PlaceInv'
    BY <2>3, <2>4, <2>5 DEF PlaceInv, Fits, Publishing, zulip
  <2>8. QED
    BY <1>1, <1>2, <2>1, <2>2, <2>3, <2>6, <2>7, KeepTypes DEF zulip, table
<1>8. ASSUME NEW op \in Operators, NEW req \in Requests,
             DispatchRefused(op, req) \/ RoleUnavailable(op, req) \/ DispatchStatic(op, req)
      PROVE  TypeInv'
  <2>1. Turn(op)
    BY <1>8 DEF DispatchRefused, RoleUnavailable, DispatchStatic
  <2>2. chain' \in [user : Users, ops : Seq(Operators)]
    BY <2>1, SegmentType DEF Turn
  <2>3. wasAdmin' \in BOOLEAN
    BY <2>1, RoleAllowsType, Zenon DEF Turn
  <2>4. PICK ok \in BOOLEAN : Finish(ok)
    BY <1>8 DEF DispatchRefused, RoleUnavailable, DispatchStatic
  <2>5. UNCHANGED <<zulip, rows, folder, mapping, ann>>
    BY <1>8 DEF DispatchRefused, RoleUnavailable, DispatchStatic, world, table
  <2>6. QED
    BY <1>1, <2>2, <2>3, <2>4, <2>5, FinishType, KeepTypes DEF zulip
<1>9. ASSUME Reply \/ Crash
      PROVE  TypeInv'
  <2>1. job' = Idle /\ chain' = Nil /\ results' = <<>> /\ UNCHANGED <<zulip, table>>
    BY <1>1, <1>9 DEF Reply, Crash, world
  <2>2. succeeded' \in BOOLEAN /\ wasAdmin' \in BOOLEAN
    BY <1>9, Zenon DEF Reply, Crash
  <2>3. results' \in Seq(BOOLEAN)
    BY <2>1, EmptySeq
  <2>4. QED
    BY <1>1, <2>1, <2>2, <2>3, KeepTypes DEF zulip, table
<1>10. ASSUME HandlerStep, UNCHANGED <<chain, wasAdmin>>
       PROVE  TypeInv'
  BY <1>10, HandlerTypes
<1>11. ASSUME OthersStep \/ (\E u \in Users, e \in Emojis : HandleReaction(u, e)),
              UNCHANGED <<chain, wasAdmin>>
       PROVE  TypeInv'
  <2> USE DEF OthersStep, GroupArchived, ListenerDeletesRow, ListenerForgetsChannel,
              HandleReaction, EmojiGroupMappingByEmoji
  <2>1. UNCHANGED <<role, chan, posts, mapping, ann, job, succeeded, results>>
    BY <1>11 DEF zulip, table
  <2>2. rows' \in [Groups -> {Nil} \cup SUBSET Channels] /\ folder' \subseteq Tracked'
    <3>1. ASSUME NEW g \in Groups, ListenerDeletesRow(g)
          PROVE  rows' \in [Groups -> {Nil} \cup SUBSET Channels] /\ folder' \subseteq Tracked'
      BY <3>1 DEF TypeInv, TypeOK, Tracked
    <3>2. ASSUME NEW c \in Channels, ListenerForgetsChannel(c)
          PROVE  rows' \in [Groups -> {Nil} \cup SUBSET Channels] /\ folder' \subseteq Tracked'
      BY <3>2, NilAssumption DEF TypeInv, TypeOK, Tracked
    <3>3. CASE UNCHANGED <<rows, folder>>
      BY <3>3 DEF TypeInv, TypeOK, Tracked
    <3>4. QED
      BY <1>11, <3>1, <3>2, <3>3 DEF table
  <2>3. ug' \in [Groups -> {"none", "active", "archived"}]
    BY <1>11 DEF TypeInv, TypeOK, zulip
  <2>4. members' \in [Groups -> SUBSET Users]
    BY <1>11 DEF TypeInv, TypeOK, zulip
  <2>5. \A g \in Tracked' : rows'[g] \subseteq Channels
    BY <2>2 DEF Tracked
  <2>6. TypeOK'
    BY <1>11, <2>1, <2>2, <2>3, <2>4, <2>5 DEF TypeInv, TypeOK
  <2>7. PlaceInv => PlaceInv'
    BY <2>1 DEF PlaceInv
  <2>8. QED
    BY <1>11, <2>1, <2>2, <2>6, <2>7 DEF TypeInv
<1>12. QED
  BY <1>3, <1>4, <1>5, <1>6, <1>7, <1>8, <1>9, <1>10, <1>11 DEF Next

(* The state of Zulip, of the bot's tables and of the command has its type
   (TypeOK). The inductive invariant TypeInv adds where each command can be. *)
THEOREM TypeCorrect == Spec => []TypeOK
<1>1. Init => TypeInv
  BY TypeInit
<1>2. TypeInv /\ [Next]_vars => TypeInv'
  BY TypeStep
<1>3. TypeInv => TypeOK
  BY DEF TypeInv
<1>4. QED
  BY <1>1, <1>2, <1>3, PTL DEF Spec
-----------------------------------------------------------------------------
(* Steps other than those of handlers, by what they do to what is on record. *)

Between ==
  /\ UNCHANGED <<chan, posts, mapping, ann, torn, doubled, aliased, excused, behind>>
  /\ Tracked' = Tracked
  /\ job' = job \/ (job = Idle /\ job' = Idle) \/ (job = Idle /\ job'.at = "handle")

LosesRow(g) ==
  /\ UNCHANGED <<chan, posts, mapping, ann, torn, doubled, aliased, job>>
  /\ Tracked' = Tracked \ {g} /\ excused' = excused \cup {g} /\ behind' = TRUE

LEMMA ForgottenChannel ==
  ASSUME TypeInv, NEW c \in Channels, ListenerForgetsChannel(c)
  PROVE  Tracked' = Tracked
<1>1. \A g \in Groups : rows[g] # Nil => rows[g] \ {c} \in SUBSET Channels
  BY DEF TypeInv
<1>2. \A g \in Groups : rows'[g] = IF rows[g] = Nil THEN Nil ELSE rows[g] \ {c}
  BY DEF ListenerForgetsChannel
<1>3. QED
  BY <1>1, <1>2, NilAssumption DEF Tracked

LEMMA NextSplit ==
  ASSUME TypeInv, [Next]_vars
  PROVE  \/ HandlerStep /\ UNCHANGED <<chain, wasAdmin>>
         \/ Crash
         \/ Between
         \/ \E g \in Groups : LosesRow(g)
<1>1. CASE UNCHANGED vars
  BY <1>1 DEF vars, zulip, table, ghosts, Between, Tracked
<1>2. CASE \E u \in Users : Message(u) \/ RoleChanges(u)
  BY <1>2 DEF Message, RoleChanges, world, zulip, table, ghosts, Between, Tracked
<1>3. CASE Reply \/ \E op \in Operators : Skip(op)
  BY <1>3 DEF Reply, Skip, world, zulip, table, ghosts, Between, Tracked
<1>4. ASSUME NEW op \in Operators, NEW req \in Requests, chain # Nil /\ job = Idle,
             \/ DispatchOne(op, req) \/ DispatchRefused(op, req)
             \/ RoleUnavailable(op, req) \/ DispatchStatic(op, req)
      PROVE  Between
  <2>1. UNCHANGED <<zulip, rows, mapping, ann, ghosts>>
    BY <1>4 DEF DispatchOne, DispatchRefused, RoleUnavailable, DispatchStatic, world, table
  <2>2. job'.at = "handle" \/ job' = Idle
    <3>1. CASE DispatchOne(op, req)
      BY <3>1 DEF DispatchOne
    <3>2. CASE DispatchRefused(op, req) \/ RoleUnavailable(op, req)
      BY <3>2, FinishEnds DEF DispatchRefused, RoleUnavailable
    <3>3. CASE DispatchStatic(op, req)
      BY <3>3, FinishEnds DEF DispatchStatic
    <3>4. QED
      BY <1>4, <3>1, <3>2, <3>3
  <2>3. QED
    BY <1>4, <2>1, <2>2 DEF zulip, ghosts, Between, Tracked
<1>5. ASSUME NEW g \in Groups, GroupArchived(g)
      PROVE  Between
  BY <1>5 DEF GroupArchived, table, ghosts, Between, Tracked
<1>6. ASSUME NEW g \in Groups, ListenerDeletesRow(g)
      PROVE  LosesRow(g)
  BY <1>6 DEF ListenerDeletesRow, zulip, LosesRow, Tracked, TypeInv
<1>7. ASSUME NEW c \in Channels, ListenerForgetsChannel(c)
      PROVE  Between
  <2>1. UNCHANGED <<zulip, mapping, ann, job, ghosts>>
    BY <1>7 DEF ListenerForgetsChannel
  <2>2. QED
    BY <1>7, <2>1, ForgottenChannel DEF zulip, ghosts, Between
<1>8. ASSUME NEW u \in Users, NEW e \in Emojis, HandleReaction(u, e)
      PROVE  Between
  BY <1>8 DEF HandleReaction, table, ghosts, Between, Tracked
<1>9. QED
  BY <1>1, <1>2, <1>3, <1>4, <1>5, <1>6, <1>7, <1>8 DEF Next, OthersStep

(* Where a handler goes on: what it changed last and what comes next. *)
LEMMA HandlerPlaces ==
  ASSUME TypeInv, HandlerStep
  PROVE  /\ job.at = "archive" => ArchiveChannel \/ ArchiveFails
         /\ job.at = "map" => UpsertMapping \/ UpsertFails
         /\ job.at = "unmap" => DeleteMapping \/ DeleteMappingFails
         /\ job.at = "announce" => NoTarget \/ ReadMappings \/ AnnouncingFails
         /\ job.at = "send" => SendAnnouncement \/ AnnouncingFails
         /\ job.at = "edit" => EditAnnouncement \/ EditRefused \/ AnnouncingFails
         /\ job.at = "record" => SaveAnnouncementState \/ AnnouncingFails
         /\ job.at = "react" => SyncReactions
         /\ job'.at = "map" => CreateGroup \/ SetImports
         /\ job'.at = "archive" => UnsubscribeAll
         /\ job'.at = "send" => ReadMappings
         /\ job'.at = "edit" => ReadMappings
         /\ job'.at = "record" => SendAnnouncement \/ EditAnnouncement
         /\ job'.at = "react" => ReadMappings \/ SaveAnnouncementState
         /\ job'.at = "unmap" => DeleteGroup
         /\ job'.at # "handle"
<1>1. /\ job.at = "archive" => ArchiveChannel \/ ArchiveFails
      /\ job.at = "map" => UpsertMapping \/ UpsertFails
      /\ job.at = "unmap" => DeleteMapping \/ DeleteMappingFails
      /\ job.at = "announce" => NoTarget \/ ReadMappings \/ AnnouncingFails
      /\ job.at = "send" => SendAnnouncement \/ AnnouncingFails
      /\ job.at = "edit" => EditAnnouncement \/ EditRefused \/ AnnouncingFails
      /\ job.at = "record" => SaveAnnouncementState \/ AnnouncingFails
      /\ job.at = "react" => SyncReactions
  BY DEF HandlerStep, HandlerDenied, HandlerFails, Unknown, CreateRefused, CreateGroup,
     CreateGroupFails, SetRefused, SetImports, UpsertMapping, UpsertFails, DisableRefused,
     DisableMapping, RemoveRefused, RemoveBegins, ArchiveRefused, ArchiveBegins, UnsubscribeAll,
     UnsubscribeUnanswered, ArchiveChannel, ArchiveFails, Archived, RemoveFails, DeleteGroup,
     DeleteGroupHalf,
     DeleteMapping, DeleteMappingFails, AnnounceRefused, AnnounceBegins, NoTarget, ReadMappings,
     SendAnnouncement, EditAnnouncement, EditRefused, SaveAnnouncementState, AnnouncingFails,
     SyncReactions, SetMessage, Subscribe, Unsubscribe, AddChannel, RemoveChannel, CreateChannel,
     AddCreatedChannel, AddCreatedChannelFails, ModifyFolder, NewChannel, OnGroup, Creating,
     Setting, Disabling, Removing, Handling, At
<1>2. job \in Job /\ (Ends \/ (GoesOn /\ Continues))
  BY HandlerJob DEF TypeInv
<1>3. CASE Ends
  BY <1>1, <1>3 DEF Ends, Idle
<1>4. ASSUME NEW at \in Places, Goto(at)
      PROVE  job'.at = at
  BY <1>2, <1>4 DEF Goto, Job
<1>5. CASE GoesOn /\ Continues
  <2>1. CASE CreateGroup \/ SetImports \/ UpsertMapping \/ DisableMapping \/ DeleteGroup
          \/ DeleteMapping \/ AnnounceBegins \/ SaveAnnouncementState \/ CreateChannel
    BY <1>1, <1>4, <2>1 DEF CreateGroup, SetImports, UpsertMapping, DisableMapping, DeleteGroup,
       DeleteMapping, AnnounceBegins, SaveAnnouncementState, CreateChannel, Places, Publishing
  <2>2. CASE RemoveBegins \/ ArchiveBegins \/ UnsubscribeAll \/ ArchiveChannel
    BY <1>1, <1>2, <2>2 DEF RemoveBegins, ArchiveBegins, UnsubscribeAll, ArchiveChannel, Job
  <2>3. CASE ReadMappings \/ SendAnnouncement \/ EditAnnouncement
    BY <1>1, <1>2, <2>3 DEF ReadMappings, SendAnnouncement, EditAnnouncement, Job
  <2>4. CASE Archived
    <3>1. Finish(TRUE) \/ Goto("delete")
      BY <2>4 DEF Archived
    <3>2. Finish(TRUE) => job'.at = "idle"
      BY FinishEnds, Zenon
    <3>3. Goto("delete") => job'.at = "delete"
      BY <1>4 DEF Places
    <3>4. QED
      BY <1>1, <3>1, <3>2, <3>3
  <2>5. QED
    BY <1>5, <2>1, <2>2, <2>3, <2>4 DEF Continues
<1>6. QED
  BY <1>2, <1>3, <1>5
(* Which steps add rows or delete them. *)
LEMMA TrackedSame ==
  ASSUME TypeInv, HandlerStep,
         ~(CreateGroup \/ SetImports \/ UpsertFails \/ DeleteGroup)
  PROVE  Tracked' = Tracked
<1>1. job \in Job /\ job.req \in AnyRequest /\ PlaceInv
  BY HandlerJob DEF TypeInv, Job
<1>2. rows \in [Groups -> {Nil} \cup SUBSET Channels]
  BY DEF TypeInv
<1>3. CASE UNCHANGED rows
  BY <1>3 DEF Tracked
<1>4. CASE AddChannel \/ RemoveChannel \/ AddCreatedChannel
  <2>1. Target \in Groups /\ Target \in Tracked /\ job.req.c \in Channels
    BY <1>1, <1>4, RequestFields DEF AddChannel, RemoveChannel, AddCreatedChannel, OnGroup,
       Handling, At, PlaceInv, Fits, OnAGroup, OnAChannel, Target, Tracked
  <2>2. rows[Target] \in SUBSET Channels
    BY <1>2, <2>1 DEF Tracked
  <2>3. PICK cs \in SUBSET Channels : rows' = [rows EXCEPT ![Target] = cs]
    BY <1>4, <2>1, <2>2 DEF AddChannel, RemoveChannel, AddCreatedChannel, SetChannels
  <2>4. QED
    BY <1>2, <2>1, <2>3, NilAssumption DEF Tracked
<1>5. CASE Archived \/ ModifyFolder
  BY <1>5 DEF Archived, ModifyFolder, Tracked
<1>6. QED
  BY <1>3, <1>4, <1>5, HandlerFrame

-----------------------------------------------------------------------------
(* Emojis of mappings. *)

LEMMA MapInit == ASSUME Init PROVE MapInv
BY DEF Init, InitGroups, MapInv, At, Idle

LEMMA MapStep == ASSUME TypeInv, MapInv, [Next]_vars PROVE MapInv'
<1>1. CASE Crash
  BY <1>1 DEF Crash, world, zulip, table, MapInv, At, Idle, Enabled
<1>2. CASE Between
  BY <1>2 DEF Between, MapInv, At, Idle, Enabled, Target
<1>3. CASE \E g \in Groups : LosesRow(g)
  BY <1>3 DEF LosesRow, MapInv, At, Enabled, Target
<1>4. ASSUME HandlerStep
      PROVE  MapInv'
  <2>1. job \in Job /\ job.req \in AnyRequest /\ PlaceInv
    BY <1>4, HandlerJob DEF TypeInv, Job
  <2>2. mapping \in [Groups -> {Nil} \cup AnyMapping]
    BY DEF TypeInv
  <2>3. CASE CreateGroup
    <3>1. Target \in Groups /\ job'.req = job.req /\ aliased' = aliased /\ mapping' = mapping
      BY <2>1, <2>3, RequestFields DEF CreateGroup, Creating, Handling, OnAGroup, Target, Goto, Job,
         ghosts
    <3>2. \A h \in Enabled : mapping[h].emoji # job.req.e
      BY <2>3 DEF CreateGroup, EnsureMappingDoesNotExist, Enabled
    <3>3. QED
      BY <3>1, <3>2 DEF MapInv, Enabled, At, Target
  <2>4. CASE SetImports
    <3>1. Target \in Groups /\ job'.req = job.req /\ mapping' = mapping
      BY <2>1, <2>4, RequestFields DEF SetImports, Setting, Handling, OnAGroup, Target, Goto, Job
    <3>2. ~aliased' => ~aliased /\ job.req.name = Target
      BY <2>4 DEF SetImports
    <3>3. \A h \in Enabled : mapping[h].emoji = job.req.e => NameOf(h) = job.req.name
      BY <2>4 DEF SetImports, SetAllowed, EnsureEnabledEmojiMappingAvailable
    <3>4. \A h \in Groups : NameOf(h) = Target => h = Target
      BY <3>1, CommandsAssumption DEF NameOf
    <3>5. QED
      BY <3>1, <3>2, <3>3, <3>4 DEF MapInv, Enabled, At, Target
  <2>5. CASE ~CreateGroup /\ ~SetImports
    <3>1. aliased' = aliased /\ ~At("map")'
      BY <1>4, <2>5, HandlerFrame, HandlerPlaces DEF At
    <3>2. CASE UNCHANGED mapping
      BY <3>1, <3>2 DEF MapInv, Enabled
    <3>3. CASE UpsertMapping
      <4>1. /\ At("map") /\ Target \in Groups
            /\ mapping' = [mapping EXCEPT ![Target] = [emoji |-> job.req.e, on |-> TRUE]]
        BY <2>1, <3>3, RequestFields DEF UpsertMapping, At, PlaceInv, Fits, OnAGroup, Target
      <4>2. /\ \A h \in Groups : h # Target => mapping'[h] = mapping[h]
            /\ mapping'[Target].emoji = job.req.e
        BY <2>2, <4>1
      <4>3. \A h \in Enabled' : h # Target => h \in Enabled
        BY <4>2 DEF Enabled
      <4>4. QED
        BY <3>1, <4>1, <4>2, <4>3 DEF MapInv, Enabled
    <3>4. CASE DisableMapping \/ DeleteMapping
      <4>1. Target \in Groups
        BY <2>1, <3>4, RequestFields DEF DisableMapping, Disabling, Handling, DeleteMapping, At,
           PlaceInv, Fits, OnAGroup, Target
      <4>2. \A h \in Groups : h # Target => mapping'[h] = mapping[h]
        BY <2>2, <3>4, <4>1 DEF DisableMapping, DeleteMapping
      <4>3. Target \notin Enabled'
        BY <2>2, <3>4, <4>1 DEF DisableMapping, DeleteMapping, Enabled, AnyMapping
      <4>4. QED
        BY <3>1, <4>2, <4>3 DEF MapInv, Enabled
    <3>5. QED
      BY <1>4, <3>2, <3>3, <3>4, HandlerFrame
  <2>6. QED
    BY <2>3, <2>4, <2>5
<1>5. QED
  BY <1>1, <1>2, <1>3, <1>4, NextSplit

(* An emoji stands for one group for any groups, users and emojis, unless it was
   mapped under the name of another group (EmojiUnique). MapInv adds that the emoji
   a command has checked is still free when its mapping is written. *)
THEOREM EmojisAreUnique == Spec => []EmojiUnique
<1>1. Init => TypeInv /\ MapInv
  BY TypeInit, MapInit
<1>2. TypeInv /\ MapInv /\ [Next]_vars => TypeInv' /\ MapInv'
  BY TypeStep, MapStep
<1>3. MapInv => EmojiUnique
  BY DEF MapInv, EmojiUnique
<1>4. QED
  BY <1>1, <1>2, <1>3, PTL DEF Spec

-----------------------------------------------------------------------------
(* Groups of mappings. *)

LEMMA RowsInit == ASSUME Init PROVE RowsInv
BY DEF Init, InitGroups, RowsInv, At, Idle

LEMMA RowsStep == ASSUME TypeInv, RowsInv, [Next]_vars PROVE RowsInv'
<1>1. CASE Crash
  BY <1>1 DEF Crash, world, zulip, table, RowsInv, At, Idle, Enabled, Tracked, Target
<1>2. CASE Between
  BY <1>2 DEF Between, RowsInv, At, Idle, Enabled, Target
<1>3. CASE \E g \in Groups : LosesRow(g)
  BY <1>3 DEF LosesRow, RowsInv, At, Enabled, Target
<1>4. ASSUME HandlerStep
      PROVE  RowsInv'
  <2>1. job \in Job /\ job.req \in AnyRequest /\ PlaceInv
    BY <1>4, HandlerJob DEF TypeInv, Job
  <2>2. /\ mapping \in [Groups -> {Nil} \cup AnyMapping]
        /\ rows \in [Groups -> {Nil} \cup SUBSET Channels]
    BY DEF TypeInv
  <2>3. job' = Idle \/ (job'.req = job.req)
    BY <1>4, HandlerJob DEF TypeInv, Ends, GoesOn
  <2>4. CASE CreateGroup \/ SetImports
    <3>1. /\ Target \in Groups /\ At("handle") /\ job.req.cmd \in {"create", "set"}
          /\ UNCHANGED <<mapping, excused>> /\ job'.at = "map"
      BY <2>1, <2>4, RequestFields DEF CreateGroup, Creating, SetImports, Setting, Handling, At,
         OnAGroup, Target, Goto, Job, ghosts
    <3>2. Tracked' = Tracked \cup {Target}
      BY <2>2, <2>4, <3>1, NilAssumption DEF CreateGroup, SetImports, Tracked
    <3>3. job.req.cmd = "create" /\ Target \in Enabled => Target \in excused
      <4>1. job.req.cmd = "create" => \A h \in Enabled : NameOf(h) # Target
        BY <2>4 DEF CreateGroup, SetImports, Setting, Handling, EnsureMappingDoesNotExist, Enabled
      <4>2. QED
        BY <3>1, <4>1 DEF RowsInv, At, NameOf
    <3>4. QED
      BY <2>3, <3>1, <3>2, <3>3 DEF RowsInv, At, Idle, Enabled, Target
  <2>5. CASE UpsertMapping
    <3>1. /\ At("map") /\ Target \in Groups /\ UNCHANGED rows
          /\ mapping' = [mapping EXCEPT ![Target] = [emoji |-> job.req.e, on |-> TRUE]]
          /\ excused' = IF Target \in Tracked THEN excused \ {Target} ELSE excused
          /\ job'.at = "announce"
      BY <2>1, <2>5, RequestFields DEF UpsertMapping, At, PlaceInv, Fits, OnAGroup, Target, Goto, Job
    <3>2. Enabled' \subseteq Enabled \cup {Target}
      BY <2>2, <3>1 DEF Enabled
    <3>3. QED
      BY <3>1, <3>2 DEF RowsInv, At, Tracked
  <2>6. CASE UpsertFails
    <3>1. /\ At("map") /\ Target \in Groups /\ UNCHANGED <<mapping, excused>> /\ job' = Idle
          /\ UNCHANGED rows \/ (job.req.cmd = "create" /\ rows' = [rows EXCEPT ![Target] = Nil])
      BY <2>1, <2>6, RequestFields, FinishEnds DEF UpsertFails, DeleteChannelGroup,
         DeleteChannelGroupStops, At, PlaceInv, Fits, OnAGroup, Target
    <3>2. Tracked' = Tracked \/ (job.req.cmd = "create" /\ Tracked' = Tracked \ {Target})
      BY <2>2, <3>1 DEF Tracked
    <3>3. QED
      BY <3>1, <3>2 DEF RowsInv, At, Idle, Enabled
  <2>7. CASE DisableMapping
    <3>1. /\ Target \in Groups /\ UNCHANGED <<rows, excused>> /\ At("handle")
          /\ job'.at = "announce"
      BY <2>1, <2>7, RequestFields DEF DisableMapping, Disabling, Handling, At, OnAGroup, Target,
         Goto, Job, ghosts
    <3>2. Enabled' \subseteq Enabled
      BY <2>2, <2>7, <3>1 DEF DisableMapping, Enabled, AnyMapping
    <3>3. QED
      BY <3>1, <3>2 DEF RowsInv, At, Tracked
  <2>8. CASE DeleteGroup
    <3>1. /\ Target \in Groups /\ UNCHANGED <<mapping, excused>> /\ At("delete")
          /\ job'.at = "unmap" /\ job'.req = job.req /\ rows' = [rows EXCEPT ![Target] = Nil]
      BY <2>1, <2>8, RequestFields DEF DeleteGroup, DeleteChannelGroup, At, PlaceInv, Fits, OnAGroup,
         Target, Goto, Job, ghosts
    <3>2. Tracked' = Tracked \ {Target}
      BY <2>2, <3>1 DEF Tracked
    <3>3. QED
      BY <3>1, <3>2 DEF RowsInv, At, Enabled, Target
  <2>9. CASE DeleteMapping
    <3>1. /\ Target \in Groups /\ UNCHANGED <<rows, excused>> /\ At("unmap")
          /\ job'.at = "announce" /\ mapping' = [mapping EXCEPT ![Target] = Nil]
      BY <2>1, <2>9, RequestFields DEF DeleteMapping, At, PlaceInv, Fits, OnAGroup, Target, Goto, Job,
         ghosts
    <3>2. Enabled' = Enabled \ {Target}
      BY <2>2, <3>1 DEF Enabled
    <3>3. QED
      BY <3>1, <3>2 DEF RowsInv, At, Tracked
  <2>10. CASE DeleteMappingFails
    BY <2>10, FinishEnds DEF DeleteMappingFails, RowsInv, At, Idle, Enabled, Tracked, zulip, table
  <2>11. CASE ArchiveFails \/ UnsubscribeUnanswered
    BY <2>11, FinishEnds DEF ArchiveFails, UnsubscribeUnanswered, RowsInv, At, Idle, Enabled,
       Tracked, table
  <2>12. CASE ~(CreateGroup \/ SetImports \/ UpsertMapping \/ UpsertFails \/ DisableMapping
                \/ DeleteGroup \/ DeleteMapping \/ DeleteMappingFails \/ ArchiveFails
                \/ UnsubscribeUnanswered)
    <3>1. UNCHANGED <<mapping, excused>> /\ ~At("map")' /\ ~At("unmap") /\ ~At("unmap")'
      BY <1>4, <2>12, HandlerFrame, HandlerPlaces DEF At
    <3>2. Tracked' = Tracked
      BY <1>4, <2>12, TrackedSame
    <3>3. QED
      BY <3>1, <3>2 DEF RowsInv, Enabled
  <2>13. QED
    BY <2>4, <2>5, <2>6, <2>7, <2>8, <2>9, <2>10, <2>11, <2>12
<1>5. QED
  BY <1>1, <1>2, <1>3, <1>4, NextSplit

(* Between commands an enabled mapping has its group for any groups and users, unless
   a failure or others left it halfway (MappingsHaveRows). RowsInv says what of that
   holds between the requests of a command: a removal has deleted its group and not
   yet the mapping, and what create and set are about to map is there. *)
THEOREM MappingsKeepGroups == Spec => []MappingsHaveRows
<1>1. Init => TypeInv /\ RowsInv
  BY TypeInit, RowsInit
<1>2. TypeInv /\ RowsInv /\ [Next]_vars => TypeInv' /\ RowsInv'
  BY TypeStep, RowsStep
<1>3. RowsInv => MappingsHaveRows
  BY DEF RowsInv, MappingsHaveRows, At, Idle
<1>4. QED
  BY <1>1, <1>2, <1>3, PTL DEF Spec
-----------------------------------------------------------------------------
(* Channels that are emptied. *)

LEMMA ChannelsInit == ASSUME Init PROVE ChannelsInv
BY DEF Init, InitGroups, ChannelsInv

LEMMA ChannelsStep == ASSUME TypeInv, ChannelsInv, [Next]_vars PROVE ChannelsInv'
<1>1. CASE Crash
  BY <1>1 DEF Crash, world, zulip, table, ChannelsInv, At, Idle
<1>2. CASE Between
  BY <1>2 DEF Between, ChannelsInv, At, Idle
<1>3. CASE \E g \in Groups : LosesRow(g)
  BY <1>3 DEF LosesRow, ChannelsInv, At
<1>4. ASSUME HandlerStep
      PROVE  ChannelsInv'
  <2>1. job \in Job /\ job.req \in AnyRequest /\ PlaceInv
    BY <1>4, HandlerJob DEF TypeInv, Job
  <2>2. chan \in [Channels -> {"none", "open", "emptied", "archived"}]
    BY DEF TypeInv, TypeOK
  <2>3. CASE UnsubscribeAll
    <3>1. PICK c \in job.todo :
            /\ chan' = [chan EXCEPT ![c] = IF @ = "open" THEN "emptied" ELSE @]
            /\ job' = [job EXCEPT !.at = "archive", !.c = c, !.restore = chan[c] = "open"]
      BY <2>3 DEF UnsubscribeAll
    <3>2. At("empty") /\ UNCHANGED excused
      BY <2>3 DEF UnsubscribeAll, ghosts
    <3>3. c \in Channels /\ \A d \in Channels : d # c => chan'[d] = chan[d]
      BY <2>1, <2>2, <3>1 DEF Job
    <3>4. chan'[c] = "emptied" => chan[c] = "open" \/ chan[c] = "emptied"
      BY <2>2, <3>1, <3>3
    <3>5. job'.at = "archive" /\ job'.c = c /\ (chan[c] = "open" => job'.restore)
      BY <2>1, <3>1 DEF Job
    <3>6. QED
      BY <3>2, <3>3, <3>4, <3>5 DEF ChannelsInv, At
  <2>4. CASE ArchiveChannel
    BY <2>1, <2>2, <2>4 DEF ArchiveChannel, PlaceInv, At, ChannelsInv, ghosts
  <2>5. CASE ArchiveFails
    <3>1. At("archive") /\ job.c \in Channels /\ job' = Idle
      BY <2>1, <2>5, FinishEnds DEF ArchiveFails, At, PlaceInv
    <3>2. CASE /\ chan' = [chan EXCEPT ![job.c] = IF job.restore THEN "open" ELSE @]
               /\ UNCHANGED excused
      BY <2>2, <3>1, <3>2 DEF ChannelsInv, At
    <3>3. CASE job.restore /\ excused' = excused \cup {job.c} /\ UNCHANGED chan
      BY <3>1, <3>3 DEF ChannelsInv, At
    <3>4. CASE chan' = [chan EXCEPT ![job.c] = "archived"] /\ UNCHANGED excused
      BY <2>2, <3>1, <3>4 DEF ChannelsInv, At
    <3>5. QED
      BY <2>5, <3>2, <3>3, <3>4 DEF ArchiveFails
  <2>6. CASE UnsubscribeUnanswered
    <3>1. PICK c \in job.todo : /\ chan' = [chan EXCEPT ![c] = "emptied"]
                               /\ excused' = excused \cup {c}
      BY <2>6 DEF UnsubscribeUnanswered
    <3>2. At("empty")
      BY <2>6 DEF UnsubscribeUnanswered
    <3>3. QED
      BY <2>1, <2>2, <3>1, <3>2 DEF ChannelsInv, At, Job
  <2>7. CASE ~(UnsubscribeAll \/ ArchiveChannel \/ ArchiveFails \/ UnsubscribeUnanswered)
    <3>1. ~At("archive") /\ ~At("archive")'
      BY <1>4, <2>7, HandlerPlaces DEF At
    <3>2. \A c \in Channels : chan'[c] = "emptied" => chan[c] = "emptied"
      <4>1. CASE UNCHANGED chan
        BY <4>1
      <4>2. CASE CreateChannel \/ NewChannel
        BY <2>2, <4>2 DEF CreateChannel, NewChannel
      <4>3. QED
        BY <1>4, <2>7, <4>1, <4>2, HandlerFrame
    <3>3. \A c \in Channels : c \in excused => c \in excused'
      <4>1. CASE UNCHANGED excused
        BY <4>1
      <4>2. CASE UpsertMapping
        <5>1. Target \in Groups /\ (excused' = excused \ {Target} \/ excused' = excused)
          BY <2>1, <4>2, RequestFields DEF UpsertMapping, At, PlaceInv, Fits, OnAGroup, Target
        <5>2. QED
          BY <5>1, CommandsAssumption
      <4>3. CASE DeleteMappingFails
        BY <4>3 DEF DeleteMappingFails
      <4>4. QED
        BY <1>4, <2>7, <4>1, <4>2, <4>3, HandlerFrame
    <3>4. QED
      BY <3>1, <3>2, <3>3 DEF ChannelsInv
  <2>8. QED
    BY <2>3, <2>4, <2>5, <2>6, <2>7
<1>5. QED
  BY <1>1, <1>2, <1>3, <1>4, NextSplit

(* Nobody loses a channel that stays open, for any channels and whatever fails,
   unless the way back fails as well, the answer to their removal is lost or the
   process crashes (NobodyStranded).
   ChannelsInv adds that whoever archives the channel knows whom to bring back. *)
THEOREM NobodyLosesAChannel == Spec => []NobodyStranded
<1>1. Init => TypeInv /\ ChannelsInv
  BY TypeInit, ChannelsInit
<1>2. TypeInv /\ ChannelsInv /\ [Next]_vars => TypeInv' /\ ChannelsInv'
  BY TypeStep, ChannelsStep
<1>3. ChannelsInv => NobodyStranded
  BY DEF ChannelsInv, NobodyStranded
<1>4. QED
  BY <1>1, <1>2, <1>3, PTL DEF Spec

-----------------------------------------------------------------------------
(* Announcements that are sent. *)

LEMMA PostsInit == ASSUME Init PROVE PostsInv
<1>1. job = Idle
  BY DEF Init, InitGroups
<1>2. CASE posts = <<>>
  BY <1>1, <1>2 DEF PostsInv, At, Idle
<1>3. CASE posts = <<UpToDate(Shown)>> /\ ann = [msg |-> 1, hash |-> Shown]
  BY <1>1, <1>3, NilAssumption DEF PostsInv, At, Idle
<1>4. QED
  BY <1>2, <1>3 DEF Init, InitGroups

LEMMA PostsStep == ASSUME TypeInv, PostsInv, [Next]_vars PROVE PostsInv'
<1>1. CASE Crash
  BY <1>1 DEF Crash, Unrecorded, world, zulip, table, PostsInv, At, Idle
<1>2. CASE Between
  BY <1>2 DEF Between, PostsInv, At, Idle
<1>3. CASE \E g \in Groups : LosesRow(g)
  BY <1>3 DEF LosesRow, PostsInv, At
<1>4. ASSUME HandlerStep
      PROVE  PostsInv'
  <2>1. job \in Job /\ job.req \in AnyRequest /\ PlaceInv /\ posts \in Seq(AnyPost)
    BY <1>4, HandlerJob DEF TypeInv, Job
  <2>2. Len(posts) \in Nat /\ (posts = <<>> <=> Len(posts) = 0) /\ DOMAIN posts \subseteq Nat
    BY <2>1, LenProperties, EmptySeq
  <2>3. CASE SendAnnouncement
    <3>1. Len(posts') = Len(posts) + 1 /\ ann.msg = Nil /\ UNCHANGED <<ann, doubled>>
      BY <2>1, <2>3, AppendProperties DEF SendAnnouncement, SendMessage, PostsInv, table, ghosts
    <3>2. job'.at = "record"
      BY <2>1, <2>3 DEF SendAnnouncement, Job
    <3>3. posts = <<>> \/ doubled
      BY <2>3 DEF SendAnnouncement, PostsInv, At
    <3>4. QED
      BY <2>2, <3>1, <3>2, <3>3 DEF PostsInv, At
  <2>4. CASE EditAnnouncement
    <3>1. /\ posts' = [posts EXCEPT ![ann.msg].content = job.content]
          /\ UNCHANGED <<ann, doubled>>
      BY <2>4 DEF EditAnnouncement, UpdateMessage, table, ghosts
    <3>2. Len(posts') = Len(posts) /\ posts' \in Seq(AnyPost)
      <4>1. posts' \in Seq(AnyPost)
        BY <1>4, TypeStep DEF TypeInv
      <4>2. QED
        BY <2>1, <3>1, <4>1, LenProperties
    <3>3. job'.at = "record"
      BY <2>1, <2>4 DEF EditAnnouncement, Job
    <3>4. QED
      BY <3>1, <3>2, <3>3 DEF PostsInv, At
  <2>5. CASE SyncReactions
    <3>1. PICK own : posts' = [posts EXCEPT ![ann.msg].own = own]
      BY <2>5 DEF SyncReactions
    <3>2. UNCHANGED <<ann, doubled>> /\ job' = Idle /\ At("react")
      BY <2>5, FinishEnds DEF SyncReactions, table
    <3>3. Len(posts') = Len(posts) /\ (posts' = <<>> <=> posts = <<>>)
      <4>1. posts' \in Seq(AnyPost)
        BY <1>4, TypeStep DEF TypeInv
      <4>2. QED
        BY <2>1, <3>1, <4>1, LenProperties, EmptySeq
    <3>4. QED
      BY <3>2, <3>3 DEF PostsInv, At, Idle
  <2>6. CASE SaveAnnouncementState
    <3>1. /\ At("record") /\ ann'.msg = job.c /\ job.c \in Nat /\ job'.at = "react"
          /\ UNCHANGED <<posts, doubled>>
      BY <2>1, <2>2, <2>6 DEF SaveAnnouncementState, At, PlaceInv, Goto, Job, zulip
    <3>2. QED
      BY <3>1, NilAssumption DEF PostsInv, At
  <2>7. CASE SetMessage
    <3>1. ann'.msg = job.req.m /\ job' = Idle /\ UNCHANGED <<posts, doubled>>
      BY <2>7, FinishEnds DEF SetMessage, zulip, ghosts
    <3>2. ann'.msg # Nil
      BY <2>1, <2>2, <2>7, <3>1, NilAssumption DEF SetMessage, Handling, PlaceInv
    <3>3. QED
      BY <3>1, <3>2 DEF PostsInv, At, Idle
  <2>8. CASE ReadMappings
    <3>1. UNCHANGED <<posts, ann, doubled>> /\ At("announce") /\ job'.at # "record"
      BY <2>1, <2>8 DEF ReadMappings, zulip, table, Job
    <3>2. job'.at = "send" => ann.msg = Nil
      BY <2>1, <2>8 DEF ReadMappings, Job
    <3>3. QED
      BY <3>1, <3>2 DEF PostsInv, At
  <2>9. CASE AnnouncingFails
    <3>1. UNCHANGED <<posts, ann>> /\ job' = Idle
      BY <2>9, FinishEnds DEF AnnouncingFails, EndAnnouncing, zulip, table
    <3>2. /\ At("record") /\ ann.msg = Nil => doubled'
          /\ doubled => doubled'
      BY <2>9 DEF AnnouncingFails, Unrecorded
    <3>3. QED
      BY <3>1, <3>2 DEF PostsInv, At, Idle
  <2>10. CASE ~(SendAnnouncement \/ EditAnnouncement \/ SyncReactions \/ SaveAnnouncementState
                \/ SetMessage \/ ReadMappings \/ AnnouncingFails)
    <3>1. UNCHANGED <<posts, ann, doubled>> /\ ~At("record") /\ ~At("send")'
      BY <1>4, <2>10, HandlerFrame, HandlerPlaces DEF At
    <3>2. QED
      BY <3>1 DEF PostsInv
  <2>11. QED
    BY <2>3, <2>4, <2>5, <2>6, <2>7, <2>8, <2>9, <2>10
<1>5. QED
  BY <1>1, <1>2, <1>3, <1>4, NextSplit

(* A second announcement is sent only if the first was not recorded, for any number
   of failures and crashes (OneAnnouncement). PostsInv adds that a message which is
   not recorded yet is being recorded or has been lost. *)
THEOREM AnnouncedOnce == Spec => []OneAnnouncement
<1>1. Init => TypeInv /\ PostsInv
  BY TypeInit, PostsInit
<1>2. TypeInv /\ PostsInv /\ [Next]_vars => TypeInv' /\ PostsInv'
  BY TypeStep, PostsStep
<1>3. PostsInv => OneAnnouncement
  BY DEF PostsInv, OneAnnouncement
<1>4. QED
  BY <1>1, <1>2, <1>3, PTL DEF Spec

-----------------------------------------------------------------------------
(* Administrators. *)

LEMMA AdminInit == ASSUME Init PROVE AdminInv
BY DEF Init, InitGroups, AdminInv

LEMMA AuthorizedAdmin ==
  ASSUME NEW u, NEW cmd, Authorized(u, cmd), cmd \in GroupAdmin \cup ChannelAdmin \cup {"config"}
  PROVE  RoleAllows(role[u], Admin)
BY DEF Authorized, CommandPermission, RequiredPermission, GroupAdmin, ChannelAdmin, Announcing

LEMMA AdminStep == ASSUME TypeInv, AdminInv, [Next]_vars PROVE AdminInv'
<1>1. CASE UNCHANGED vars
  BY <1>1 DEF vars, AdminInv
<1>2. ASSUME NEW u \in Users, Message(u) \/ RoleChanges(u)
      PROVE  AdminInv'
  BY <1>2, Zenon DEF Message, RoleChanges, AdminInv
<1>3. ASSUME NEW op \in Operators, Skip(op)
      PROVE  AdminInv'
  BY <1>3, Zenon DEF Skip, AdminInv
<1>4. ASSUME NEW op \in Operators, NEW req \in Requests, DispatchOne(op, req)
      PROVE  AdminInv'
  <2>1. job'.req = req
    BY <1>4 DEF DispatchOne
  <2>2. Authorized(chain.user, req.cmd) /\ wasAdmin' = RoleAllows(role[chain.user], Admin)
    BY <1>4, Zenon DEF DispatchOne, Turn
  <2>3. QED
    BY <2>1, <2>2, AuthorizedAdmin, Zenon DEF AdminInv
<1>5. ASSUME NEW op \in Operators, NEW req \in Requests,
             DispatchRefused(op, req) \/ RoleUnavailable(op, req) \/ DispatchStatic(op, req)
      PROVE  AdminInv'
  <2>1. job' = Idle
    BY <1>5, FinishEnds DEF DispatchRefused, RoleUnavailable, DispatchStatic
  <2>2. QED
    BY <2>1 DEF AdminInv
<1>6. CASE Reply \/ Crash
  <2>1. job' = Idle
    BY <1>6 DEF Reply, Crash
  <2>2. QED
    BY <2>1 DEF AdminInv
<1>7. ASSUME HandlerStep, UNCHANGED <<chain, wasAdmin>>
      PROVE  AdminInv'
  <2>1. job # Idle /\ (job' = Idle \/ job'.req = job.req)
    BY <1>7, HandlerJob DEF TypeInv, Ends, GoesOn
  <2>2. wasAdmin' = wasAdmin
    BY <1>7
  <2>3. QED
    BY <2>1, <2>2, Zenon DEF AdminInv
<1>8. ASSUME OthersStep \/ (\E u \in Users, e \in Emojis : HandleReaction(u, e)),
             UNCHANGED <<chain, wasAdmin>>
      PROVE  AdminInv'
  <2>1. UNCHANGED job
    BY <1>8 DEF OthersStep, GroupArchived, ListenerDeletesRow, ListenerForgetsChannel,
       HandleReaction
  <2>2. wasAdmin' = wasAdmin
    BY <1>8
  <2>3. QED
    BY <2>1, <2>2, Zenon DEF AdminInv
<1>9. QED
  BY <1>1, <1>2, <1>3, <1>4, <1>5, <1>6, <1>7, <1>8 DEF Next

(* Which handlers change what only administrators may change. *)
LEMMA AdminChanges ==
  ASSUME TypeInv, AdminInv, [Next]_vars,
         <<mapping, ann, configured, chan>>' # <<mapping, ann, configured, chan>>
  PROVE  wasAdmin'
<1>1. ASSUME HandlerStep, UNCHANGED <<chain, wasAdmin>>
      PROVE  wasAdmin'
  <2>1. job \in Job /\ job # Idle /\ PlaceInv /\ UNCHANGED configured
    BY <1>1, HandlerJob DEF TypeInv
  <2>2. job.req.cmd \in GroupAdmin \cup ChannelAdmin
    <3> USE DEF Handling, At, PlaceInv, Fits, GroupAdmin, ChannelAdmin, Announcing, Publishing
    <3>1. CASE UpsertMapping \/ DisableMapping \/ DeleteMapping
      BY <2>1, <3>1 DEF UpsertMapping, DisableMapping, Disabling, DeleteMapping
    <3>2. CASE SaveAnnouncementState \/ SetMessage
      BY <2>1, <3>2 DEF SaveAnnouncementState, SetMessage
    <3>3. CASE UnsubscribeAll \/ UnsubscribeUnanswered \/ ArchiveChannel \/ ArchiveFails
      BY <2>1, <3>3 DEF UnsubscribeAll, UnsubscribeUnanswered, ArchiveChannel, ArchiveFails
    <3>4. CASE CreateChannel \/ NewChannel
      BY <2>1, <3>4 DEF CreateChannel, NewChannel, OnGroup
    <3>5. QED
      BY <1>1, <2>1, <3>1, <3>2, <3>3, <3>4, HandlerFrame
  <2>3. wasAdmin' = wasAdmin
    BY <1>1
  <2>4. QED
    BY <2>1, <2>2, <2>3, Zenon DEF AdminInv
<1>2. ASSUME NEW op \in Operators, NEW req \in Requests, DispatchStatic(op, req)
      PROVE  wasAdmin'
  <2>1. req.cmd = "config" /\ Authorized(chain.user, req.cmd)
    BY <1>2 DEF DispatchStatic, zulip
  <2>2. wasAdmin' = RoleAllows(role[chain.user], Admin)
    BY <1>2, Zenon DEF DispatchStatic, Turn
  <2>3. QED
    BY <2>1, <2>2, AuthorizedAdmin, Zenon
<1>3. UNCHANGED <<mapping, ann, chan>> \/ HandlerStep
  BY NextSplit DEF Between, LosesRow, Crash, zulip, table
<1>4. UNCHANGED configured \/ \E op \in Operators, req \in Requests : DispatchStatic(op, req)
  BY HandlerFrame DEF Next, vars, Message, RoleChanges, Skip, DispatchOne, DispatchRefused,
     RoleUnavailable, Reply, Crash, OthersStep, GroupArchived, ListenerDeletesRow,
     ListenerForgetsChannel, HandleReaction, world, table
<1>5. QED
  BY <1>1, <1>2, <1>3, <1>4, NextSplit DEF Between, LosesRow, Crash, zulip, table

(* Mappings, the recorded announcement, its target and the state of channels change
   only for administrators, for any roles and however they change (AdminOnly).
   AdminInv carries the check of a command's turn through the handler's steps. *)
THEOREM OnlyAdministrators == Spec => AdminOnly
<1>1. Init => TypeInv /\ AdminInv
  BY TypeInit, AdminInit
<1>2. TypeInv /\ AdminInv /\ [Next]_vars => TypeInv' /\ AdminInv'
  BY TypeStep, AdminStep
<1>3. TypeInv /\ AdminInv /\ [Next]_vars =>
        [<<mapping, ann, configured, chan>>' # <<mapping, ann, configured, chan>> => wasAdmin']_vars
  BY AdminChanges
<1>4. QED
  BY <1>1, <1>2, <1>3, PTL DEF Spec, AdminOnly
-----------------------------------------------------------------------------
(* What the announcement shows. *)

LEMMA ShownSame ==
  ASSUME UNCHANGED mapping, Tracked' = Tracked
  PROVE  Shown' = Shown
BY DEF Shown, NameOf, Enabled

LEMMA ShownInit == ASSUME Init PROVE ShownInv
<1>1. job = Idle
  BY DEF Init, InitGroups
<1>2. CASE ann = [msg |-> Nil, hash |-> Nil]
  BY <1>1, <1>2 DEF ShownInv, At, Idle
<1>3. CASE posts = <<UpToDate(Shown)>> /\ ann = [msg |-> 1, hash |-> Shown]
  <2>1. 1 \in DOMAIN posts /\ posts[1] = UpToDate(Shown)
    BY <1>3
  <2>2. UpToDate(Shown).content = Shown
    BY DEF UpToDate
  <2>3. QED
    BY <1>1, <1>3, <2>1, <2>2 DEF ShownInv, At, Idle
<1>4. QED
  BY <1>2, <1>3 DEF Init, InitGroups

(* Steps that leave the announcement as it is and either stay with a command that
   will update it, or know that it is behind. *)
LEMMA ShownBusy ==
  ASSUME ShownInv, UNCHANGED <<posts, ann, torn>>, ~At("record"),
         job'.at \notin {"send", "edit", "record", "react"},
         job'.at \in Publishing \cup {"map", "unmap"} \/ behind'
  PROVE  ShownInv'
BY DEF ShownInv, At, Publishing

(* Steps of the rest of a command, before it has changed what is shown. *)
LEMMA ShownElse ==
  ASSUME ShownInv, UNCHANGED <<posts, ann, torn, behind, mapping>>, Tracked' = Tracked,
         job.at \notin Publishing \cup {"map", "unmap"},
         job'.at \notin {"send", "edit", "record", "react"}
  PROVE  ShownInv'
<1>1. UpToDate(Shown)' = UpToDate(Shown)
  BY ShownSame DEF UpToDate, EmojisOf
<1>2. QED
  BY <1>1 DEF ShownInv, At, Publishing

LEMMA ShownStep == ASSUME TypeInv, PostsInv, ShownInv, [Next]_vars PROVE ShownInv'
<1>1. posts \in Seq(AnyPost) /\ DOMAIN posts \subseteq Nat /\ Nil \notin DOMAIN posts
  <2>1. posts \in Seq(AnyPost)
    BY DEF TypeInv
  <2>2. QED
    BY <2>1, LenProperties, NilAssumption
<1>2. ann.msg = Nil => ann.hash = Nil
  BY <1>1 DEF ShownInv
<1>3. CASE Crash
  <2>1. UNCHANGED <<posts, ann, mapping, rows>> /\ job' = Idle
    BY <1>3 DEF Crash, zulip, table
  <2>2. CASE job = Idle
    <3>1. UNCHANGED torn /\ (~behind' => ~behind)
      BY <1>3, <2>2 DEF Crash, At, Idle
    <3>2. UpToDate(Shown)' = UpToDate(Shown)
      BY <2>1, ShownSame DEF UpToDate, EmojisOf, Tracked
    <3>3. QED
      BY <2>1, <2>2, <3>1, <3>2 DEF ShownInv, At, Idle, Publishing
  <2>3. CASE job # Idle
    <3>1. behind' = TRUE
      BY <1>3, <2>3, Zenon DEF Crash
    <3>2. /\ At("record") /\ ann.msg # Nil => torn'
          /\ ~torn' => ~torn
      BY <1>3 DEF Crash, Unrecorded
    <3>3. QED
      BY <1>2, <2>1, <3>1, <3>2 DEF ShownInv, At, Idle
  <2>4. QED
    BY <2>2, <2>3
<1>4. CASE Between
  <2>1. UpToDate(Shown)' = UpToDate(Shown) /\ Shown' = Shown
    BY <1>4, ShownSame DEF Between, UpToDate, EmojisOf
  <2>2. QED
    BY <1>4, <2>1 DEF Between, ShownInv, At, Idle, Publishing
<1>5. CASE \E g \in Groups : LosesRow(g)
  BY <1>5 DEF LosesRow, ShownInv, At, Publishing
<1>6. ASSUME HandlerStep
      PROVE  ShownInv'
  <2>1. job \in Job /\ PlaceInv /\ job.content \in AnyContent
    BY <1>6, HandlerJob DEF TypeInv, Job
  <2>2. job.content # Nil
    BY <2>1, NilAssumption DEF AnyContent
  <2>3. CASE CreateGroup \/ SetImports \/ DisableMapping
    <3>1. UNCHANGED <<posts, ann, torn>> /\ job.at = "handle"
      BY <2>3 DEF CreateGroup, Creating, SetImports, Setting, DisableMapping, Disabling, Handling,
         zulip, ghosts
    <3>2. job'.at \in {"map", "announce"}
      BY <2>1, <2>3 DEF CreateGroup, SetImports, DisableMapping, Goto, Job
    <3>3. QED
      BY <3>1, <3>2, ShownBusy DEF At, Publishing
  <2>4. CASE UpsertMapping \/ DeleteGroup \/ DeleteMapping
    <3>1. UNCHANGED <<posts, ann, torn>> /\ job.at \in {"map", "delete", "unmap"}
      BY <2>4 DEF UpsertMapping, DeleteGroup, DeleteMapping, At, zulip, ghosts
    <3>2. job'.at \in {"announce", "unmap"}
      BY <2>1, <2>4 DEF UpsertMapping, DeleteGroup, DeleteMapping, Goto, Job
    <3>3. QED
      BY <3>1, <3>2, ShownBusy DEF At, Publishing
  <2>5. CASE UpsertFails \/ DeleteMappingFails \/ EditRefused
    <3>1. UNCHANGED <<posts, ann, torn>> /\ job.at \in {"map", "unmap", "edit"}
      BY <2>5 DEF UpsertFails, DeleteMappingFails, EditRefused, At, zulip, table
    <3>2. job'.at = "idle"
      BY <2>5, FinishEnds DEF UpsertFails, DeleteMappingFails, EditRefused, EndAnnouncing
    <3>3. behind' = TRUE
      BY <2>5, Zenon DEF UpsertFails, DeleteMappingFails, EditRefused
    <3>4. QED
      BY <3>1, <3>2, <3>3, ShownBusy DEF At
  <2>6. CASE AnnouncingFails
    <3>1. UNCHANGED <<posts, ann>> /\ job'.at = "idle"
      BY <2>6, FinishEnds DEF AnnouncingFails, EndAnnouncing, zulip, table
    <3>2. behind' = TRUE
      BY <2>6, Zenon DEF AnnouncingFails
    <3>3. /\ At("record") /\ ann.msg # Nil => torn'
          /\ ~torn' => ~torn
      BY <2>6 DEF AnnouncingFails, Unrecorded
    <3>4. QED
      BY <1>2, <3>1, <3>2, <3>3 DEF ShownInv, At
  <2>7. CASE NoTarget
    <3>1. UNCHANGED <<posts, ann>> /\ ann.hash = Nil /\ job'.at = "idle"
      BY <1>2, <2>7, FinishEnds DEF NoTarget, EndAnnouncing, zulip, table
    <3>2. QED
      BY <3>1 DEF ShownInv, At
  <2>8. CASE ReadMappings
    <3>1. /\ UNCHANGED <<posts, ann, mapping, rows, torn>> /\ job.at = "announce"
          /\ job'.content = Shown
          /\ job'.at = IF ann.msg = Nil THEN "send" ELSE IF ann.hash = Shown THEN "react" ELSE "edit"
      BY <2>1, <2>8 DEF ReadMappings, At, zulip, table, Job
    <3>2. Shown' = Shown
      BY <3>1, ShownSame DEF Tracked
    <3>3. QED
      BY <1>2, <3>1, <3>2 DEF ShownInv, At, Publishing
  <2>9. CASE SendAnnouncement
    <3>1. /\ UNCHANGED <<ann, mapping, rows, torn, behind>> /\ job.at = "send" /\ job'.at = "record"
          /\ job'.content = job.content /\ job'.c = Len(posts) + 1
      BY <2>1, <2>9 DEF SendAnnouncement, At, table, ghosts, Job
    <3>2. posts' = Append(posts, [content |-> job.content, own |-> {}])
      BY <2>9 DEF SendAnnouncement, SendMessage
    <3>3. posts'[job'.c].content = job.content
      BY <1>1, <3>1, <3>2, AppendProperties
    <3>4. ann.msg = Nil /\ ann.hash = Nil /\ Shown' = Shown
      BY <3>1, ShownSame DEF PostsInv, ShownInv, At, Tracked
    <3>5. QED
      BY <3>1, <3>3, <3>4 DEF ShownInv, At, Publishing
  <2>10. CASE EditAnnouncement
    <3>1. /\ UNCHANGED <<ann, mapping, rows, torn, behind>> /\ job.at = "edit" /\ job'.at = "record"
          /\ job'.content = job.content /\ job'.c = ann.msg
      BY <2>1, <2>10 DEF EditAnnouncement, At, table, ghosts, Job
    <3>2. posts' = [posts EXCEPT ![ann.msg].content = job.content]
      BY <2>10 DEF EditAnnouncement, UpdateMessage
    <3>3. ann.msg \in DOMAIN posts
      BY <2>1, <2>10, <3>1 DEF EditAnnouncement, PlaceInv, TypeInv, TypeOK
    <3>4. posts[ann.msg] \in AnyPost
      BY <1>1, <3>3, ElementOfSeq
    <3>5. posts'[ann.msg].content = job.content /\ DOMAIN posts' = DOMAIN posts
      BY <3>2, <3>3, <3>4 DEF AnyPost
    <3>6. Shown' = Shown
      BY <3>1, ShownSame DEF Tracked
    <3>7. QED
      BY <3>1, <3>3, <3>5, <3>6 DEF ShownInv, At, Publishing
  <2>11. CASE SaveAnnouncementState
    <3>1. /\ UNCHANGED <<posts, mapping, rows, behind>> /\ job.at = "record" /\ job'.at = "react"
          /\ job'.content = job.content /\ ann'.msg = job.c /\ ann'.hash = job.content
      BY <2>1, <2>11 DEF SaveAnnouncementState, At, zulip, Goto, Job
    <3>2. job.c \in DOMAIN posts
      BY <2>1, <3>1 DEF PlaceInv
    <3>3. Shown' = Shown
      BY <3>1, ShownSame DEF Tracked
    <3>4. QED
      BY <3>1, <3>2, <3>3 DEF ShownInv, At, Publishing
  <2>12. CASE SyncReactions
    <3>1. /\ UNCHANGED <<ann, mapping, rows, torn>> /\ job.at = "react" /\ job'.at = "idle"
      BY <2>12, FinishEnds DEF SyncReactions, At, table
    <3>2. ann.hash = job.content /\ ann.msg \in DOMAIN posts
      BY <2>2, <3>1 DEF ShownInv, At
    <3>3. posts[ann.msg] \in AnyPost
      BY <1>1, <3>2, ElementOfSeq
    <3>4. ~torn => posts[ann.msg].content = job.content
      BY <2>2, <3>1, <3>2 DEF ShownInv, At
    <3>5. ~behind => job.content = Shown
      BY <3>1 DEF ShownInv, At
    <3>6. UpToDate(Shown)' = UpToDate(Shown)
      BY <3>1, ShownSame DEF UpToDate, EmojisOf, Tracked
    <3>7. CASE posts' = [posts EXCEPT ![ann.msg].own = EmojisOf(job.content)] /\ UNCHANGED behind
      <4>1. /\ DOMAIN posts' = DOMAIN posts
            /\ posts'[ann.msg] = [content |-> posts[ann.msg].content, own |-> EmojisOf(job.content)]
        BY <3>2, <3>3, <3>7 DEF AnyPost
      <4>2. ~torn /\ ~behind => posts'[ann.msg] = UpToDate(Shown)
        BY <3>4, <3>5, <4>1 DEF UpToDate
      <4>3. QED
        BY <3>1, <3>2, <3>4, <3>6, <3>7, <4>1, <4>2 DEF ShownInv, At
    <3>8. CASE behind' = TRUE /\ \E own : posts' = [posts EXCEPT ![ann.msg].own = own]
      <4>1. PICK own : posts' = [posts EXCEPT ![ann.msg].own = own]
        BY <3>8
      <4>2. /\ DOMAIN posts' = DOMAIN posts
            /\ posts'[ann.msg].content = posts[ann.msg].content
        BY <3>2, <3>3, <4>1 DEF AnyPost
      <4>3. QED
        BY <3>1, <3>2, <3>4, <3>8, <4>2 DEF ShownInv, At
    <3>9. QED
      BY <2>12, <3>7, <3>8 DEF SyncReactions
  <2>13. CASE SetMessage
    <3>1. ann'.hash = Nil /\ job'.at = "idle"
      BY <2>13, FinishEnds DEF SetMessage
    <3>2. QED
      BY <3>1 DEF ShownInv, At
  <2>14. CASE ~(\/ CreateGroup \/ SetImports \/ DisableMapping \/ UpsertMapping \/ DeleteGroup
                \/ DeleteMapping \/ UpsertFails \/ DeleteMappingFails \/ EditRefused
                \/ AnnouncingFails \/ NoTarget \/ ReadMappings \/ SendAnnouncement
                \/ EditAnnouncement \/ SaveAnnouncementState \/ SyncReactions \/ SetMessage)
    <3>1. UNCHANGED <<posts, ann, mapping>>
      BY <1>6, <2>14, HandlerFrame
    <3>2. torn' = torn /\ behind' = behind
      BY <1>6, <2>14, HandlerFrame
    <3>3. Tracked' = Tracked
      BY <1>6, <2>14, TrackedSame
    <3>4. /\ job.at \notin Publishing \cup {"map", "unmap"}
          /\ job'.at \notin {"send", "edit", "record", "react"}
      BY <1>6, <2>14, HandlerPlaces DEF Publishing
    <3>5. QED
      BY <3>1, <3>2, <3>3, <3>4, ShownElse
  <2>15. QED
    BY <2>3, <2>4, <2>5, <2>6, <2>7, <2>8, <2>9, <2>10, <2>11, <2>12, <2>13, <2>14
<1>7. QED
  BY <1>3, <1>4, <1>5, <1>6, NextSplit

LEMMA ShownAlways ==
  /\ Init => TypeInv /\ PostsInv /\ ShownInv
  /\ TypeInv /\ PostsInv /\ ShownInv /\ [Next]_vars => TypeInv' /\ PostsInv' /\ ShownInv'
BY TypeInit, PostsInit, ShownInit, TypeStep, PostsStep, ShownStep

(* Between commands the announcement shows the enabled mappings, for any groups,
   emojis and users, unless the bot knows or has lost that it does not (Announced).
   ShownInv follows what an update has read, sent or edited, and recorded. *)
THEOREM AnnouncementIsRight == Spec => []Announced
<1>1. ShownInv => Announced
  BY DEF ShownInv, Announced, Idle, Publishing
<1>2. QED
  BY <1>1, ShownAlways, PTL DEF Spec

(* A reaction makes a member only of a group that the announcement shows, for any
   groups and however the mappings came about (ReactionsAsShown). *)
THEOREM ReactionsFollowAnnouncement == Spec => ReactionsAsShown
<1> DEFINE AsShown ==
      \A g \in Groups :
        chain = Nil /\ ann.hash # Nil /\ ~behind /\ ~torn /\ members'[g] \ members[g] # {}
          => \E m \in posts[ann.msg].content : m.name = g
<1>1. ASSUME TypeInv, ShownInv, Next
      PROVE  AsShown
  <2> SUFFICES ASSUME NEW g \in Groups, chain = Nil, ann.hash # Nil, ~behind, ~torn,
                      members'[g] \ members[g] # {}
               PROVE  \E m \in posts[ann.msg].content : m.name = g
    OBVIOUS
  <2>1. job = Idle
    BY <1>1 DEF TypeInv, TypeOK
  <2>2. posts[ann.msg] = UpToDate(Shown)
    BY <1>1, <2>1 DEF ShownInv, Idle, Publishing
  <2>3. ~HandlerStep
    BY <2>1, HandlerJob
  <2>4. PICK u \in Users, e \in Emojis : HandleReaction(u, e)
    <3>1. members' # members
      OBVIOUS
    <3>2. Next
      BY <1>1
    <3>3. QED
      BY <2>3, <3>1, <3>2 DEF Next, Message, RoleChanges, Skip, Segment, Reply, Crash, OthersStep,
         GroupArchived, ListenerDeletesRow, ListenerForgetsChannel, world, zulip
  <2>5. g \in Enabled /\ g \in Tracked
    BY <2>4 DEF HandleReaction, EmojiGroupMappingByEmoji, TypeInv, TypeOK
  <2>6. [name |-> g, emoji |-> mapping[g].emoji] \in Shown
    BY <2>5 DEF Shown, NameOf
  <2>7. QED
    BY <2>2, <2>6 DEF UpToDate
<1>2. TypeInv /\ ShownInv /\ [Next]_vars => [AsShown]_vars
  BY <1>1
<1>3. QED
  BY <1>2, ShownAlways, PTL DEF Spec, ReactionsAsShown
-----------------------------------------------------------------------------
(* Chains. *)

LEMMA LaterAppend ==
  ASSUME NEW ops \in Seq(Operators), NEW op \in Operators
  PROVE  /\ Append(ops, op) # <<>> /\ Len(Append(ops, op)) = Len(ops) + 1
         /\ ops = <<>> => Later(Append(ops, op)) = {}
         /\ ops # <<>> => Later(Append(ops, op)) = Later(ops) \cup {op}
<1>1. /\ Len(ops) \in Nat /\ (ops = <<>> <=> Len(ops) = 0)
      /\ Append(ops, op) \in Seq(Operators) /\ Len(Append(ops, op)) = Len(ops) + 1
      /\ \A i \in 1 .. Len(ops) : Append(ops, op)[i] = ops[i]
      /\ Append(ops, op)[Len(ops) + 1] = op
  BY LenProperties, EmptySeq, AppendProperties
<1> DEFINE longer == Append(ops, op)
<1> HIDE DEF longer
<1>2. Append(ops, op) # <<>>
  BY <1>1, EmptySeq
<1>3. ASSUME Len(ops) = 0
      PROVE  Later(longer) = {}
  BY <1>1, <1>3 DEF Later, longer
<1>4. ASSUME Len(ops) > 0
      PROVE  Later(longer) = Later(ops) \cup {op}
  <2>1. 2 .. Len(ops) + 1 = (2 .. Len(ops)) \cup {Len(ops) + 1}
    BY <1>1, <1>4
  <2>2. Len(longer) = Len(ops) + 1 /\ longer[Len(ops) + 1] = op
    BY <1>1 DEF longer
  <2>3. \A i \in 2 .. Len(ops) : longer[i] = ops[i]
    BY <1>1 DEF longer
  <2>4. QED
    BY <2>1, <2>2, <2>3 DEF Later
<1>5. QED
  BY <1>1, <1>2, <1>3, <1>4 DEF longer

LEMMA AllAppend ==
  ASSUME NEW rs \in Seq(BOOLEAN), NEW ok, NEW r \in BOOLEAN, All(ok, rs)
  PROVE  AllButLast(ok, Append(rs, r))
<1>1. /\ Len(rs) \in Nat /\ DOMAIN rs = 1 .. Len(rs)
      /\ Append(rs, r) \in Seq(BOOLEAN) /\ Len(Append(rs, r)) = Len(rs) + 1
      /\ \A i \in 1 .. Len(rs) : Append(rs, r)[i] = rs[i]
      /\ DOMAIN Append(rs, r) = 1 .. Len(rs) + 1
  BY LenProperties, AppendProperties
<1>2. QED
  BY <1>1 DEF All, AllButLast

LEMMA AllOfLast ==
  ASSUME NEW rs \in Seq(BOOLEAN), NEW ok, AllButLast(ok, rs), rs # <<>> => rs[Len(rs)] = ok
  PROVE  All(ok, rs)
<1>1. rs = <<>> => DOMAIN rs = {}
  OBVIOUS
<1>2. QED
  BY <1>1 DEF All, AllButLast

LEMMA AllEmpty == \A ok : All(ok, <<>>) /\ AllButLast(ok, <<>>)
BY DEF All, AllButLast

LEMMA ChainInit == ASSUME Init PROVE ChainInv
<1>1. chain = Nil /\ results = <<>> /\ job = Idle
  BY DEF Init, InitGroups
<1>2. QED
  BY <1>1 DEF ChainInv

(* A turn comes to a command only if the outcomes so far call for it. *)
LEMMA TurnOutcomes ==
  ASSUME TypeInv, ChainInv, NEW op \in Operators, Turn(op)
  PROVE  /\ chain'.ops # <<>> /\ Len(chain'.ops) = Len(chain.ops) + 1 /\ chain' # Nil
         /\ Later(chain'.ops) \subseteq {"and"} => All(TRUE, results)
         /\ Later(chain'.ops) \subseteq {"or"} => All(FALSE, results)
         /\ Later(chain'.ops) \subseteq {"then"} => Len(results) = Len(chain.ops)
<1>1. /\ chain.ops \in Seq(Operators) /\ chain'.ops = Append(chain.ops, op) /\ job = Idle
      /\ chain # Nil /\ chain' # Nil
  BY SegmentType, NilAssumption DEF Turn, Segment
<1>2. results \in Seq(BOOLEAN) /\ succeeded \in BOOLEAN
  BY DEF TypeInv
<1>3. CASE chain.ops = <<>>
  <2>1. results = <<>>
    BY <1>1, <1>3 DEF ChainInv
  <2>2. Len(results) = Len(chain.ops)
    BY <1>3, <2>1
  <2>3. QED
    BY <1>1, <2>1, <2>2, LaterAppend, AllEmpty
<1>4. CASE chain.ops # <<>>
  <2>1. Later(chain'.ops) = Later(chain.ops) \cup {op}
    BY <1>1, <1>4, LaterAppend
  <2>2. ASSUME Later(chain'.ops) \subseteq {"and"}
        PROVE  All(TRUE, results)
    <3>1. op = "and" /\ AllButLast(TRUE, results)
      BY <1>1, <2>1, <2>2 DEF ChainInv, Stops
    <3>2. succeeded
      BY <3>1, Zenon DEF Turn, ShouldDispatchChained
    <3>3. results # <<>> => results[Len(results)] = TRUE
      BY <1>2, <3>2, Zenon DEF ChainInv
    <3>4. QED
      BY <1>2, <3>1, <3>3, AllOfLast
  <2>3. ASSUME Later(chain'.ops) \subseteq {"or"}
        PROVE  All(FALSE, results)
    <3>1. op = "or" /\ AllButLast(FALSE, results)
      BY <1>1, <2>1, <2>3 DEF ChainInv, Stops
    <3>2. ~succeeded
      BY <3>1, Zenon DEF Turn, ShouldDispatchChained
    <3>3. results # <<>> => results[Len(results)] = FALSE
      BY <1>2, <3>2, Zenon DEF ChainInv
    <3>4. QED
      BY <1>2, <3>1, <3>3, AllOfLast
  <2>4. ASSUME Later(chain'.ops) \subseteq {"then"}
        PROVE  Len(results) = Len(chain.ops)
    <3>1. Len(chain.ops) \in Nat
      BY <1>1, LenProperties
    <3>2. QED
      BY <1>1, <2>1, <2>4, <3>1 DEF ChainInv, RunsAll
  <2>5. QED
    BY <1>1, <2>2, <2>3, <2>4, LaterAppend
<1>5. QED
  BY <1>3, <1>4

(* A command ends: its outcome is the last one. *)
LEMMA ChainEnds ==
  ASSUME TypeInv, chain' # Nil, chain'.ops # <<>>,
         job' = Idle, results' = Append(results, succeeded'), succeeded' \in BOOLEAN,
         Later(chain'.ops) \subseteq {"and"} => All(TRUE, results),
         Later(chain'.ops) \subseteq {"or"} => All(FALSE, results),
         Later(chain'.ops) \subseteq {"then"} => Len(results) + 1 = Len(chain'.ops)
  PROVE  ChainInv'
<1>1. results \in Seq(BOOLEAN)
  BY DEF TypeInv
<1>2. /\ Len(results') = Len(results) + 1 /\ results' # <<>> /\ Len(results) \in Nat
      /\ results'[Len(results')] = succeeded'
  BY <1>1, AppendProperties, LenProperties
<1>3. Stops("and", TRUE)'
  BY <1>1, AllAppend DEF Stops
<1>4. Stops("or", FALSE)'
  BY <1>1, AllAppend DEF Stops
<1>5. RunsAll'
  BY <1>2 DEF RunsAll
<1>6. results'[Len(results')] = succeeded' => succeeded' = results'[Len(results')]
  OBVIOUS
<1>7. QED
  BY <1>2, <1>3, <1>4, <1>5, <1>6, Zenon DEF ChainInv
LEMMA ChainKeeps ==
  ASSUME ChainInv, UNCHANGED <<chain, job, results>>, succeeded' = succeeded
  PROVE  ChainInv'
<1>1. Stops("and", TRUE) => Stops("and", TRUE)'
  BY DEF Stops
<1>2. Stops("or", FALSE) => Stops("or", FALSE)'
  BY DEF Stops
<1>3. RunsAll => RunsAll'
  BY DEF RunsAll
<1>4. results' # <<>> => succeeded' = results'[Len(results')]
  BY Zenon DEF ChainInv
<1>5. QED
  BY <1>1, <1>2, <1>3, <1>4, Zenon DEF ChainInv

LEMMA ChainStep == ASSUME TypeInv, ChainInv, [Next]_vars PROVE ChainInv'
<1>1. CASE UNCHANGED vars
  BY <1>1, ChainKeeps, Zenon DEF vars
<1>2. ASSUME NEW u \in Users, Message(u)
      PROVE  ChainInv'
  <2>1. chain = Nil /\ chain' = [user |-> u, ops |-> <<>>] /\ UNCHANGED <<job, results>>
    BY <1>2, Zenon DEF Message
  <2>2. results = <<>> /\ job = Idle /\ chain'.ops = <<>>
    BY <2>1 DEF ChainInv
  <2>3. chain' # Nil
    <3>1. chain' \in [user : Users, ops : Seq(Operators)]
      BY <2>1, EmptySeq
    <3>2. QED
      BY <3>1, ChainAssumption
  <2>4. Stops("and", TRUE)' /\ Stops("or", FALSE)' /\ RunsAll'
    <3>1. results' = <<>> /\ job' = Idle /\ chain'.ops = <<>>
      BY <2>1, <2>2
    <3>2. Stops("and", TRUE)' /\ Stops("or", FALSE)'
      BY <3>1, AllEmpty DEF Stops
    <3>3. RunsAll'
      BY <3>1 DEF RunsAll
    <3>4. QED
      BY <3>2, <3>3
  <2>5. QED
    BY <2>1, <2>2, <2>3, <2>4 DEF ChainInv
<1>3. ASSUME NEW u \in Users, RoleChanges(u)
      PROVE  ChainInv'
  BY <1>3, ChainKeeps, Zenon DEF RoleChanges
<1>4. ASSUME NEW op \in Operators, Skip(op)
      PROVE  ChainInv'
  <2>1. /\ chain.ops \in Seq(Operators) /\ chain'.ops = Append(chain.ops, op) /\ job = Idle
        /\ chain # Nil /\ chain' # Nil /\ UNCHANGED <<job, results>>
    BY <1>4, SegmentType DEF Skip, Segment
  <2>2. succeeded' = succeeded
    BY <1>4, Zenon DEF Skip
  <2>3. op # "then" /\ chain.ops # <<>>
    BY <1>4, Zenon DEF Skip, Segment, ShouldDispatchChained
  <2>4. Later(chain'.ops) = Later(chain.ops) \cup {op} /\ chain'.ops # <<>>
    BY <2>1, <2>3, LaterAppend
  <2>5. Stops("and", TRUE)' /\ Stops("or", FALSE)' /\ RunsAll'
    BY <2>1, <2>3, <2>4 DEF ChainInv, Stops, RunsAll
  <2>6. results' # <<>> => succeeded' = results'[Len(results')]
    BY <2>1, <2>2, Zenon DEF ChainInv
  <2>7. QED
    BY <2>1, <2>4, <2>5, <2>6, Zenon DEF ChainInv
<1>5. ASSUME NEW op \in Operators, NEW req \in Requests, DispatchOne(op, req)
      PROVE  ChainInv'
  <2>1. Turn(op) /\ UNCHANGED results /\ job'.at = "handle" /\ Len(chain.ops) \in Nat
    BY <1>5, SegmentType, LenProperties DEF DispatchOne, Turn
  <2>2. succeeded' = succeeded
    BY <1>5, Zenon DEF DispatchOne
  <2>3. job' # Idle /\ \A ok : All(ok, results) => AllButLast(ok, results)
    BY <2>1 DEF Idle, All, AllButLast
  <2>4. Stops("and", TRUE)' /\ Stops("or", FALSE)' /\ RunsAll'
    <3>1. Stops("and", TRUE)'
      BY <2>1, <2>3, TurnOutcomes DEF Stops
    <3>2. Stops("or", FALSE)'
      BY <2>1, <2>3, TurnOutcomes DEF Stops
    <3>3. RunsAll'
      <4>1. /\ Len(chain'.ops) = Len(chain.ops) + 1
            /\ Later(chain'.ops) \subseteq {"then"} => Len(results) = Len(chain.ops)
        BY <2>1, TurnOutcomes
      <4>2. Later(chain'.ops) \subseteq {"then"} => Len(results') = Len(chain'.ops) - 1
        BY <2>1, <4>1
      <4>3. QED
        BY <2>3, <4>2 DEF RunsAll
    <3>4. QED
      BY <3>1, <3>2, <3>3
  <2>5. chain' # Nil /\ chain'.ops # <<>>
    BY <2>1, TurnOutcomes
  <2>6. results' # <<>> => succeeded' = results'[Len(results')]
    BY <2>1, <2>2, Zenon DEF ChainInv
  <2>7. QED
    BY <2>4, <2>5, <2>6, Zenon DEF ChainInv
<1>6. ASSUME NEW op \in Operators, NEW req \in Requests,
             DispatchRefused(op, req) \/ RoleUnavailable(op, req) \/ DispatchStatic(op, req)
      PROVE  ChainInv'
  <2>1. Turn(op)
    BY <1>6 DEF DispatchRefused, RoleUnavailable, DispatchStatic
  <2>2. PICK ok \in BOOLEAN : Finish(ok)
    BY <1>6 DEF DispatchRefused, RoleUnavailable, DispatchStatic
  <2>3. job' = Idle /\ results' = Append(results, succeeded') /\ succeeded' \in BOOLEAN
    BY <2>2, Zenon DEF Finish
  <2>4. QED
    BY <2>1, <2>3, TurnOutcomes, ChainEnds
<1>7. CASE Reply \/ Crash
  <2>1. chain' = Nil /\ results' = <<>> /\ job' = Idle
    BY <1>7, Zenon DEF Reply, Crash, ChainInv
  <2>2. QED
    BY <2>1 DEF ChainInv
<1>8. ASSUME HandlerStep, UNCHANGED <<chain, wasAdmin>>
      PROVE  ChainInv'
  <2>1. job # Idle /\ (Ends \/ GoesOn) /\ chain' = chain
    BY <1>8, HandlerJob DEF TypeInv
  <2>2. chain # Nil /\ chain.ops # <<>>
    BY <2>1 DEF ChainInv
  <2>3. CASE Ends
    <3>1. Len(chain.ops) \in Nat
      BY <2>2, LenProperties DEF TypeInv
    <3>2. /\ Later(chain.ops) \subseteq {"and"} => All(TRUE, results)
          /\ Later(chain.ops) \subseteq {"or"} => All(FALSE, results)
      BY <2>1, <2>2 DEF ChainInv, Stops
    <3>3. Later(chain.ops) \subseteq {"then"} => Len(results) + 1 = Len(chain.ops)
      BY <2>1, <2>2, <3>1 DEF ChainInv, RunsAll
    <3>4. job' = Idle /\ results' = Append(results, succeeded') /\ succeeded' \in BOOLEAN
      BY <2>3, Zenon DEF Ends
    <3>5. QED
      BY <2>1, <2>2, <3>2, <3>3, <3>4, ChainEnds
  <2>4. CASE GoesOn
    <3>1. job' # Idle /\ UNCHANGED results
      BY <2>4 DEF GoesOn, Idle
    <3>2. succeeded' = succeeded
      BY <2>4, Zenon DEF GoesOn
    <3>3. Stops("and", TRUE)' /\ Stops("or", FALSE)' /\ RunsAll'
      BY <2>1, <2>2, <3>1 DEF ChainInv, Stops, RunsAll
    <3>4. results' # <<>> => succeeded' = results'[Len(results')]
      BY <3>1, <3>2, Zenon DEF ChainInv
    <3>5. QED
      BY <2>1, <2>2, <3>3, <3>4, Zenon DEF ChainInv
  <2>5. QED
    BY <2>1, <2>3, <2>4
<1>9. ASSUME OthersStep \/ (\E u \in Users, e \in Emojis : HandleReaction(u, e)),
             UNCHANGED <<chain, wasAdmin>>
      PROVE  ChainInv'
  <2>1. UNCHANGED <<job, results, chain>>
    BY <1>9 DEF OthersStep, GroupArchived, ListenerDeletesRow, ListenerForgetsChannel,
       HandleReaction
  <2>2. succeeded' = succeeded
    BY <1>9, Zenon DEF OthersStep, GroupArchived, ListenerDeletesRow, ListenerForgetsChannel,
       HandleReaction
  <2>3. QED
    BY <2>1, <2>2, ChainKeeps
<1>10. QED
  BY <1>1, <1>2, <1>3, <1>4, <1>5, <1>6, <1>7, <1>8, <1>9 DEF Next

LEMMA ChainStopsLater ==
  ASSUME TypeInv, ChainInv
  PROVE  ChainStops
<1> SUFFICES ASSUME chain # Nil
             PROVE  ChainStops
  BY DEF ChainStops
<1>1. Stops("and", TRUE) /\ Stops("or", FALSE) /\ RunsAll
  BY DEF ChainInv
<1>2. Later(chain.ops) \subseteq {"and"} =>
        \A i \in DOMAIN results : results[i] = TRUE \/ (i = Len(results) /\ job = Idle)
  BY <1>1 DEF Stops, All, AllButLast
<1>3. Later(chain.ops) \subseteq {"or"} =>
        \A i \in DOMAIN results : results[i] = FALSE \/ (i = Len(results) /\ job = Idle)
  BY <1>1 DEF Stops, All, AllButLast
<1>4. QED
  BY <1>1, <1>2, <1>3 DEF ChainStops, RunsAll, Later

(* A chain of && ends with the first command that fails, one of || with the first
   that succeeds, and ; runs all, for any number of segments and commands
   (ChainStops). ChainInv adds that dispatchChain's previousSucceeded is the outcome
   of the last command that was not passed over. *)
THEOREM ChainsStop == Spec => []ChainStops
<1>1. Init => TypeInv /\ ChainInv
  BY TypeInit, ChainInit
<1>2. TypeInv /\ ChainInv /\ [Next]_vars => TypeInv' /\ ChainInv'
  BY TypeStep, ChainStep
<1>3. TypeInv /\ ChainInv => ChainStops
  BY ChainStopsLater
<1>4. QED
  BY <1>1, <1>2, <1>3, PTL DEF Spec
=============================================================================
