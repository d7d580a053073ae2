--------------------------- MODULE GroupCommands ---------------------------
(* internal/zulipbot/handlers: what the group and channel commands do. The bot
   handles one command at a time, but between two of its requests others act, a
   request or statement may fail, and the process may crash.

   A group is named like its id. Creating, importing and deleting a channel group
   and changing its members, channels or folder is one step each here: their own
   steps are the subject of ChannelGroupLifecycle and ChannelGroupMembership.
   Texts are left out, except for what the announcement shows. *)
EXTENDS Integers, Sequences, FiniteSets

CONSTANTS
  Groups, Emojis, Channels, Users,
  Roles,       \* roles of users: a lower number is more powerful (zulip.Role)
  Nil,         \* no value
  Missing,     \* the name of a group that has no row
  Foreign,     \* a message that the bot did not send
  MaxEvents    \* bound on failures, crashes, reactions and what others change

ASSUME CommandsAssumption ==
  /\ Roles \subseteq {100, 200, 300, 400, 600} /\ MaxEvents \in Nat
  /\ {Nil, Missing, Foreign} \cap Groups = {} /\ Groups \cap Channels = {}

(* Nil is none of the values that it stands in for. *)
ASSUME NilAssumption ==
  /\ Nil # Foreign /\ Nil \notin Nat
  /\ \A cs \in SUBSET Channels : cs # Nil
  /\ \A ms \in SUBSET [name : Groups \cup {Missing}, emoji : Emojis] : ms # Nil

VARIABLES
  role,        \* Zulip: the role of each user
  ug,          \* ... each user group: "none", "active", "archived"
  members,     \* ... its members
  chan,        \* ... each channel: "none", "open", "emptied", "archived"
  posts,       \* ... the announcements: what they show, the bot's reactions
  rows,        \* channelgroup: the channels of each group that has a row, or Nil
  folder,      \* ... the groups that have a channel folder
  mapping,     \* emoji_group_mappings: each group's [emoji, on], or Nil
  ann,         \* announcement_state: the message and the content hash
  configured,  \* are announcement.channel_id and announcement.topic set?
  job,         \* the command that is handled
  succeeded,   \* dispatchChain's previousSucceeded
  results,     \* the outcomes of the message's commands so far
  behind,      \* an update of the announcement failed, or names changed since
  torn,        \* an announcement was edited and its hash not saved
  doubled,     \* an announcement was sent and not recorded
  aliased,     \* an emoji was mapped under the name of another group
  excused,     \* groups and channels that a failure or others left halfway
  count        \* what the bounds count

zulip == <<role, ug, members, chan, posts>>
table == <<rows, folder, mapping, ann, configured>>
ghosts == <<behind, torn, doubled, aliased, excused>>

Idle == [at |-> "idle"]

Owner == 100
Admin == 200
RoleAllows(actor, required) == required = 0 \/ actor <= required

Tracked == {g \in Groups : rows[g] # Nil}
Enabled == {g \in Groups : mapping[g] # Nil /\ mapping[g].on}

(* namedEmojiGroupMappings, announcementMappings: what is rendered and hashed. *)
NameOf(g) == IF g \in Tracked THEN g ELSE Missing
Shown == {[name |-> NameOf(g), emoji |-> mapping[g].emoji] : g \in Enabled}
EmojisOf(content) == {m.emoji : m \in content}

(* emojiGroupMappingByShortName: by an active user group and an enabled mapping. *)
Known(g) == ug[g] = "active" /\ g \in Enabled

UpToDate(content) == [content |-> content, own |-> EmojisOf(content)]

(* Groups that were created by commands earlier, announced or not. *)
InitGroups ==
  /\ role \in [Users -> Roles]
  /\ chan \in [Channels -> {"none", "open"}]
  /\ rows \in [Groups -> {Nil} \cup SUBSET Channels]
  /\ \A g \in Tracked, c \in Channels : c \in rows[g] => chan[c] = "open"
  /\ ug = [g \in Groups |-> IF g \in Tracked THEN "active" ELSE "none"]
  /\ members = [g \in Groups |-> {}]
  /\ folder = Tracked
  /\ mapping \in [Groups -> {Nil} \cup [emoji : Emojis, on : {TRUE}]]
  /\ Enabled = Tracked
  /\ \A g, h \in Enabled : g # h => mapping[g].emoji # mapping[h].emoji
  /\ \/ posts = <<>> /\ ann = [msg |-> Nil, hash |-> Nil] /\ configured = FALSE
     \/ posts = <<UpToDate(Shown)>> /\ ann = [msg |-> 1, hash |-> Shown] /\ configured = TRUE
  /\ job = Idle
  /\ succeeded = TRUE /\ results = <<>>
  /\ behind = FALSE /\ torn = FALSE /\ doubled = FALSE /\ aliased = FALSE
  /\ excused = {}

Counted(what, bound) ==
  /\ count[what] < bound
  /\ count' = [count EXCEPT ![what] = @ + 1]
Event == Counted("events", MaxEvents)

-----------------------------------------------------------------------------
(* Handlers. A job is at "handle" until the handler has changed something. *)

Goto(at) == job' = [job EXCEPT !.at = at]
Finish(ok) ==
  /\ job' = Idle
  /\ succeeded' = ok
  /\ results' = Append(results, ok)
Going == UNCHANGED <<succeeded, results>>

(* The command ends well, or what it did is done and a later request or the answer
   is lost. *)
FinishUnsure == (Finish(TRUE) /\ UNCHANGED count) \/ (Event /\ Finish(FALSE))

Handling(cmds) == job.at = "handle" /\ job.req.cmd \in cmds
At(place) == job.at = place
Target == job.req.g

Announcing == {"create", "set", "disable", "remove", "announce"}
GroupAdmin == Announcing \cup
  {"setMessage", "addChannel", "removeChannel", "createChannel", "addFolder",
   "removeFolder", "assignFolder"}
ChannelAdmin == {"archive", "newChannel"}
OpenToAll == {"subscribe", "unsubscribe"}
Commands == GroupAdmin \cup ChannelAdmin \cup OpenToAll

(* The handlers of package group check the role once more. *)
Allowed == job.req.cmd \in GroupAdmin => RoleAllows(role[job.user], Admin)

HandlerDenied ==
  /\ Handling(Commands) /\ ~Allowed
  /\ Finish(FALSE)
  /\ UNCHANGED <<zulip, table, ghosts, count>>

(* A request or statement fails before the handler has changed anything, or is
   refused because of what the channel folders hold (ChannelFolders). *)
HandlerFails ==
  /\ Handling(Commands)
  /\ Event /\ Finish(FALSE)
  /\ UNCHANGED <<zulip, table, ghosts>>

(* Whatever the user is told, the command has failed for the chain. *)
Refuse == Finish(FALSE) /\ UNCHANGED <<zulip, table, ghosts, count>>

(* DeleteChannelGroup empties the user group, archives it and deletes the row. *)
DeleteChannelGroup ==
  /\ ug' = [ug EXCEPT ![Target] = "archived"]
  /\ members' = [members EXCEPT ![Target] = {}]
  /\ rows' = [rows EXCEPT ![Target] = Nil]
  /\ folder' = folder \ {Target}

(* ... and stops on the way: the members may be gone or back, and a row whose user
   group is archived stays for the listener to delete. *)
DeleteChannelGroupStops ==
  /\ ug' = [ug EXCEPT ![Target] = "archived"] \/ UNCHANGED ug
  /\ members' = [members EXCEPT ![Target] = {}] \/ UNCHANGED members
  /\ UNCHANGED <<rows, folder>>

-----------------------------------------------------------------------------
(* group create *)

EnsureMappingDoesNotExist(g, e) ==
  \A h \in Groups : mapping[h] # Nil =>
    NameOf(h) # g /\ ~(mapping[h].on /\ mapping[h].emoji = e)

Creating == Handling({"create"}) /\ Allowed

CreateRefused ==
  /\ Creating
  /\ ~EnsureMappingDoesNotExist(Target, job.req.e) \/ ug[Target] = "active"
  /\ Refuse

(* createChannelGroup, or reuseArchivedChannelGroup if Zulip still has the name. *)
CreateGroup ==
  /\ Creating /\ EnsureMappingDoesNotExist(Target, job.req.e)
  /\ \/ /\ ug[Target] = "none"
        /\ rows' = [rows EXCEPT ![Target] = {}]
        /\ folder' = folder \cup {Target}
     \/ /\ ug[Target] = "archived"
        /\ rows' = [rows EXCEPT ![Target] = IF @ = Nil THEN {} ELSE @]
        /\ UNCHANGED folder
  /\ ug' = [ug EXCEPT ![Target] = "active"]
  /\ Goto("map") /\ Going
  /\ UNCHANGED <<role, members, chan, posts, mapping, ann, configured, ghosts, count>>

(* ... and with a failure after the user group is active, whether the bot knows it or
   not; its rollback may fail. *)
CreateGroupFails ==
  /\ Creating /\ EnsureMappingDoesNotExist(Target, job.req.e)
  /\ Event /\ Finish(FALSE)
  /\ ug[Target] # "active"
  /\ \E s \in {"active", "archived"} : ug' = [ug EXCEPT ![Target] = s]
  /\ UNCHANGED <<role, members, chan, posts, table, ghosts>>

-----------------------------------------------------------------------------
(* group mapping set, group mapping disable *)

\* Mutant of EnsureEnabledEmojiMappingAvailable: any mapping that does not clash is enough.
EnsureEnabledEmojiMappingAvailable_Some(name, e) ==
  Enabled = {} \/ \E h \in Enabled : mapping[h].emoji = e => NameOf(h) = name

(* The mapping of the given name is passed over, whichever group is mapped. *)
EnsureEnabledEmojiMappingAvailable(name, e) ==
  \A h \in Enabled : mapping[h].emoji = e => NameOf(h) = name

Setting == Handling({"set"}) /\ Allowed
SetAllowed ==
  /\ ug[Target] = "active"
  /\ EnsureEnabledEmojiMappingAvailable(job.req.name, job.req.e)

SetRefused == Setting /\ ~SetAllowed /\ Refuse

(* ensureChannelGroupImported *)
SetImports ==
  /\ Setting /\ SetAllowed
  /\ rows' = [rows EXCEPT ![Target] = IF @ = Nil THEN {} ELSE @]
  /\ aliased' = (aliased \/ job.req.name # Target)
  /\ Goto("map") /\ Going
  /\ UNCHANGED <<zulip, folder, mapping, ann, configured, behind, torn, doubled, excused, count>>

(* The end of create and set. *)
UpsertMapping ==
  /\ At("map")
  /\ mapping' = [mapping EXCEPT ![Target] = [emoji |-> job.req.e, on |-> TRUE]]
  /\ excused' = IF Target \in Tracked THEN excused \ {Target} ELSE excused
  /\ Goto("announce") /\ Going
  /\ UNCHANGED <<zulip, rows, folder, ann, configured, behind, torn, doubled, aliased, count>>

\* Mutant of UpsertFails: the group is deleted, its folder stays on record.
UpsertFails_KeepsFolder ==
  /\ At("map")
  /\ Event /\ Finish(FALSE)
  /\ \/ /\ job.req.cmd = "create" /\ ug[Target] = "active"
        /\ ug' = [ug EXCEPT ![Target] = "archived"]
        /\ members' = [members EXCEPT ![Target] = {}]
        /\ rows' = [rows EXCEPT ![Target] = Nil]
        /\ UNCHANGED folder
     \/ UNCHANGED <<ug, members, rows, folder>>
  /\ behind' = TRUE
  /\ UNCHANGED <<role, chan, posts, mapping, ann, configured, torn, doubled, aliased, excused>>

(* create deletes the group again, as far as that succeeds. *)
UpsertFails ==
  /\ At("map")
  /\ Event /\ Finish(FALSE)
  /\ \/ /\ job.req.cmd = "create" /\ ug[Target] = "active"
        /\ DeleteChannelGroup \/ DeleteChannelGroupStops
     \/ UNCHANGED <<ug, members, rows, folder>>
  /\ behind' = TRUE
  /\ UNCHANGED <<role, chan, posts, mapping, ann, configured, torn, doubled, aliased, excused>>

Disabling == Handling({"disable"}) /\ Allowed

DisableRefused == Disabling /\ ug[Target] # "active" /\ Refuse

\* Mutant of DisableMapping: the announcement is not updated.
DisableMapping_Silent ==
  /\ Disabling /\ ug[Target] = "active"
  /\ mapping' = [mapping EXCEPT ![Target] = IF @ = Nil THEN Nil ELSE [@ EXCEPT !.on = FALSE]]
  /\ Finish(TRUE)
  /\ UNCHANGED <<zulip, rows, folder, ann, configured, ghosts, count>>

DisableMapping ==
  /\ Disabling /\ ug[Target] = "active"
  /\ mapping' = [mapping EXCEPT ![Target] = IF @ = Nil THEN Nil ELSE [@ EXCEPT !.on = FALSE]]
  /\ Goto("announce") /\ Going
  /\ UNCHANGED <<zulip, rows, folder, ann, configured, ghosts, count>>

-----------------------------------------------------------------------------
(* group remove [-f], channel archive *)

Removing == Handling({"remove"}) /\ Allowed
Removable ==
  /\ Known(Target) /\ Target \in Tracked
  /\ job.req.force \/ (rows[Target] = {} /\ Target \notin folder)

RemoveRefused == Removing /\ ~Removable /\ Refuse

(* exclusiveGroupChannelIDs: what no other group has. *)
Exclusive(g) == rows[g] \ UNION {rows[h] : h \in Tracked \ {g}}

(* That the channels leave the group's folder first is left to
   ChannelGroupLifecycle. *)
RemoveBegins ==
  /\ Removing /\ Removable
  /\ job' = [job EXCEPT !.at = IF job.req.force THEN "empty" ELSE "delete",
                        !.todo = IF job.req.force THEN Exclusive(Target) ELSE {}]
  /\ Going
  /\ UNCHANGED <<zulip, table, ghosts, count>>

ArchiveRefused ==
  /\ Handling({"archive"})
  /\ chan[job.req.c] \in {"none", "archived"}
  /\ Refuse

ArchiveBegins ==
  /\ Handling({"archive"})
  /\ chan[job.req.c] \notin {"none", "archived"}
  /\ job' = [job EXCEPT !.at = "empty", !.todo = {job.req.c}]
  /\ Going
  /\ UNCHANGED <<zulip, table, ghosts, count>>

(* unsubscribeAllAndArchive. The list of subscribers and the request that takes them
   out are one step: nothing here depends on who comes in between. *)
UnsubscribeAll ==
  /\ At("empty")
  /\ \E c \in job.todo :
       /\ chan' = [chan EXCEPT ![c] = IF @ = "open" THEN "emptied" ELSE @]
       /\ job' = [job EXCEPT !.at = "archive", !.c = c, !.restore = chan[c] = "open"]
  /\ Going
  /\ UNCHANGED <<role, ug, members, posts, table, ghosts, count>>

(* They are out and the answer is lost: nobody is subscribed again. *)
UnsubscribeUnanswered ==
  /\ At("empty")
  /\ Event /\ Finish(FALSE)
  /\ \E c \in job.todo :
       /\ chan[c] = "open"
       /\ chan' = [chan EXCEPT ![c] = "emptied"]
       /\ excused' = excused \cup {c}
  /\ UNCHANGED <<role, ug, members, posts, table, behind, torn, doubled, aliased>>

ArchiveChannel ==
  /\ At("archive")
  /\ chan' = [chan EXCEPT ![job.c] = "archived"]
  /\ job' = [job EXCEPT !.at = "empty", !.todo = @ \ {job.c}, !.c = Nil,
                        !.restore = FALSE]
  /\ Going
  /\ UNCHANGED <<role, ug, members, posts, table, ghosts, count>>

\* Mutant of ArchiveFails: nobody is subscribed again.
ArchiveFails_NoRestore ==
  /\ At("archive")
  /\ Event /\ Finish(FALSE)
  /\ UNCHANGED <<zulip, table, ghosts>>

(* The subscribers come back, unless that fails too, or the channel is archived and
   the answer was lost. *)
ArchiveFails ==
  /\ At("archive")
  /\ Event /\ Finish(FALSE)
  /\ \/ chan' = [chan EXCEPT ![job.c] = "archived"] /\ UNCHANGED excused
     \/ /\ chan' = [chan EXCEPT ![job.c] = IF job.restore THEN "open" ELSE @]
        /\ UNCHANGED excused
     \/ job.restore /\ excused' = excused \cup {job.c} /\ UNCHANGED chan
  /\ UNCHANGED <<role, ug, members, posts, table, behind, torn, doubled, aliased>>

Archived ==
  /\ At("empty") /\ job.todo = {}
  /\ IF job.req.cmd = "archive" THEN Finish(TRUE)
     ELSE Goto("delete") /\ Going
  /\ folder' = IF job.req.cmd = "archive" THEN folder ELSE folder \ {Target}
  /\ UNCHANGED <<zulip, rows, mapping, ann, configured, ghosts, count>>

(* A request fails, or Zulip refuses because others have archived the group. *)
RemoveFails ==
  /\ At("delete") \/ (At("empty") /\ (job.todo # {} \/ job.req.cmd = "remove"))
  /\ IF At("delete") /\ ug[Target] # "active" THEN UNCHANGED count ELSE Event
  /\ Finish(FALSE)
  /\ UNCHANGED <<zulip, table, ghosts>>

DeleteGroup ==
  /\ At("delete") /\ ug[Target] = "active"
  /\ DeleteChannelGroup
  /\ Goto("unmap") /\ Going
  /\ UNCHANGED <<role, chan, posts, mapping, ann, configured, ghosts, count>>

DeleteGroupHalf ==
  /\ At("delete") /\ ug[Target] = "active"
  /\ Event /\ Finish(FALSE)
  /\ DeleteChannelGroupStops
  /\ UNCHANGED <<role, chan, posts, mapping, ann, configured, ghosts>>

\* Mutant of DeleteMapping: the mapping of the group stays.
DeleteMapping_Keep ==
  /\ At("unmap")
  /\ Goto("announce") /\ Going
  /\ UNCHANGED <<zulip, table, ghosts, count>>

DeleteMapping ==
  /\ At("unmap")
  /\ mapping' = [mapping EXCEPT ![Target] = Nil]
  /\ Goto("announce") /\ Going
  /\ UNCHANGED <<zulip, rows, folder, ann, configured, ghosts, count>>

DeleteMappingFails ==
  /\ At("unmap")
  /\ Event /\ Finish(FALSE)
  /\ excused' = excused \cup {Target}
  /\ behind' = TRUE
  /\ UNCHANGED <<zulip, table, torn, doubled, aliased>>

-----------------------------------------------------------------------------
(* The announcement: triggerAnnouncementUpdate at the end of a command, runAnnounce
   for group announce. A failing update fails only the latter. *)

EndAnnouncing(ok) == Finish(ok \/ job.req.cmd # "announce")

(* group announce refuses as long as an enabled mapping has no group. *)
AnnounceRefused ==
  /\ Handling({"announce"}) /\ Allowed
  /\ ~(Enabled \subseteq Tracked)
  /\ Refuse

AnnounceBegins ==
  /\ Handling({"announce"}) /\ Allowed
  /\ Enabled \subseteq Tracked
  /\ Goto("announce") /\ Going
  /\ UNCHANGED <<zulip, table, ghosts, count>>

NoTarget ==
  /\ At("announce")
  /\ ann.msg = Nil /\ ~configured
  /\ EndAnnouncing(FALSE)
  /\ UNCHANGED <<zulip, table, ghosts, count>>

\* Mutant of ReadMappings: what has changed is sent anew.
ReadMappings_SendsChanges ==
  /\ At("announce")
  /\ ann.msg # Nil \/ configured
  /\ job' = [job EXCEPT !.content = Shown,
                        !.at = IF ann.msg # Nil /\ ann.hash = Shown THEN "react" ELSE "send"]
  /\ behind' = FALSE
  /\ Going
  /\ UNCHANGED <<zulip, table, torn, doubled, aliased, excused, count>>

(* ensureAnnouncement reads the mappings and their names, *)
ReadMappings ==
  /\ At("announce")
  /\ ann.msg # Nil \/ configured
  /\ job' = [job EXCEPT !.content = Shown,
                        !.at = IF ann.msg = Nil THEN "send"
                               ELSE IF ann.hash = Shown THEN "react" ELSE "edit"]
  /\ behind' = FALSE
  /\ Going
  /\ UNCHANGED <<zulip, table, torn, doubled, aliased, excused, count>>

SendMessage(content) == posts' = Append(posts, [content |-> content, own |-> {}])
UpdateMessage(msg, content) == posts' = [posts EXCEPT ![msg].content = content]

(* sends a message, *)
SendAnnouncement ==
  /\ At("send")
  /\ SendMessage(job.content)
  /\ job' = [job EXCEPT !.at = "record", !.c = Len(posts) + 1]
  /\ Going
  /\ UNCHANGED <<role, ug, members, chan, table, ghosts, count>>

(* or edits the one that is known, if the bot sent it, *)
EditAnnouncement ==
  /\ At("edit") /\ ann.msg # Foreign
  /\ UpdateMessage(ann.msg, job.content)
  /\ job' = [job EXCEPT !.at = "record", !.c = ann.msg]
  /\ Going
  /\ UNCHANGED <<role, ug, members, chan, table, ghosts, count>>

EditRefused ==
  /\ At("edit") /\ ann.msg = Foreign
  /\ EndAnnouncing(FALSE)
  /\ behind' = TRUE
  /\ UNCHANGED <<zulip, table, torn, doubled, aliased, excused, count>>

(* and records it. *)
SaveAnnouncementState ==
  /\ At("record")
  /\ ann' = [msg |-> job.c, hash |-> job.content]
  /\ torn' = FALSE
  /\ Goto("react") /\ Going
  /\ UNCHANGED <<zulip, rows, folder, mapping, configured, behind, doubled, aliased, excused,
                 count>>

(* What is lost when the process does not get from the message to its record. *)
Unrecorded ==
  IF ann.msg = Nil THEN doubled' = TRUE /\ UNCHANGED torn
                   ELSE torn' = TRUE /\ UNCHANGED doubled

(* A read, the request (carried out or not) or the record fails. *)
AnnouncingFails ==
  /\ job.at \in {"announce", "send", "edit", "record"}
  /\ Event /\ EndAnnouncing(FALSE)
  /\ behind' = TRUE
  /\ IF At("record") THEN Unrecorded ELSE UNCHANGED <<torn, doubled>>
  /\ UNCHANGED <<zulip, table, aliased, excused>>

(* syncAnnouncementReactions. Its failures are only logged; they leave reactions
   that were to be removed, or lack some that were to be added. *)
SyncReactions ==
  /\ At("react")
  /\ \/ /\ posts' = [posts EXCEPT ![ann.msg].own = EmojisOf(job.content)]
        /\ UNCHANGED <<behind, count>>
     \/ /\ Event /\ behind' = TRUE
        /\ \E own \in SUBSET (posts[ann.msg].own \cup EmojisOf(job.content)) :
             /\ posts[ann.msg].own \cap EmojisOf(job.content) \subseteq own
             /\ posts' = [posts EXCEPT ![ann.msg].own = own]
  /\ Finish(TRUE)
  /\ UNCHANGED <<role, ug, members, chan, table, torn, doubled, aliased, excused>>

(* group announce set-message: any message, to be edited by the next update. *)
SetMessage ==
  /\ Handling({"setMessage"}) /\ Allowed
  /\ ann' = [msg |-> job.req.m, hash |-> Nil]
  /\ Finish(TRUE)
  /\ UNCHANGED <<zulip, rows, folder, mapping, configured, ghosts, count>>

-----------------------------------------------------------------------------
(* Members, channels and folders of a group. *)

Unknown ==
  /\ Handling(((GroupAdmin \ Announcing) \ {"setMessage"}) \cup OpenToAll) /\ Allowed
  /\ ~Known(Target) \/ Target \notin Tracked
  /\ Refuse

OnGroup(cmd) ==
  /\ Handling({cmd}) /\ Allowed
  /\ Known(Target) /\ Target \in Tracked

Subscribe ==
  /\ OnGroup("subscribe")
  /\ members' = [members EXCEPT ![Target] = @ \cup {job.user}]
  /\ FinishUnsure
  /\ UNCHANGED <<role, ug, chan, posts, table, ghosts>>

Unsubscribe ==
  /\ OnGroup("unsubscribe")
  /\ members' = [members EXCEPT ![Target] = @ \ {job.user}]
  /\ FinishUnsure
  /\ UNCHANGED <<role, ug, chan, posts, table, ghosts>>

SetChannels(cs) ==
  /\ rows' = [rows EXCEPT ![Target] = cs]
  /\ FinishUnsure
  /\ UNCHANGED <<zulip, folder, mapping, ann, configured, ghosts>>

AddChannel == OnGroup("addChannel") /\ SetChannels(rows[Target] \cup {job.req.c})
RemoveChannel == OnGroup("removeChannel") /\ SetChannels(rows[Target] \ {job.req.c})

(* createChannelAndAddToGroup: a channel of that name is activated again and the
   bot alone subscribed to it, *)
CreateChannel ==
  /\ OnGroup("createChannel")
  /\ chan' = [chan EXCEPT ![job.req.c] = IF @ = "emptied" THEN @ ELSE "open"]
  /\ Goto("add") /\ Going
  /\ UNCHANGED <<role, ug, members, posts, table, ghosts, count>>

AddCreatedChannel ==
  /\ At("add") /\ Target \in Tracked
  /\ SetChannels(rows[Target] \cup {job.req.c})

(* and it stays when a later request fails or the group has gone. *)
AddCreatedChannelFails ==
  /\ At("add")
  /\ IF Target \in Tracked THEN Event ELSE UNCHANGED count
  /\ Finish(FALSE)
  /\ UNCHANGED <<zulip, table, ghosts>>

ModifyFolder ==
  /\ \/ OnGroup("addFolder") /\ folder' = folder \cup {Target}
     \/ OnGroup("removeFolder") /\ folder' = folder \ {Target}
     \/ OnGroup("assignFolder") /\ UNCHANGED folder  \* assign and unassign
  /\ FinishUnsure
  /\ UNCHANGED <<zulip, rows, mapping, ann, configured, ghosts>>

(* channel create *)
NewChannel ==
  /\ Handling({"newChannel"})
  /\ IF chan[job.req.c] = "none"
     THEN chan' = [chan EXCEPT ![job.req.c] = "open"] /\ FinishUnsure
     ELSE UNCHANGED <<chan, count>> /\ Finish(FALSE)
  /\ UNCHANGED <<role, ug, members, posts, table, ghosts>>

HandlerStep ==
  \/ HandlerDenied \/ HandlerFails \/ Unknown
  \/ CreateRefused \/ CreateGroup \/ CreateGroupFails
  \/ SetRefused \/ SetImports \/ UpsertMapping \/ UpsertFails
  \/ DisableRefused \/ DisableMapping
  \/ RemoveRefused \/ RemoveBegins \/ ArchiveRefused \/ ArchiveBegins
  \/ UnsubscribeAll \/ UnsubscribeUnanswered \/ ArchiveChannel \/ ArchiveFails
  \/ Archived \/ RemoveFails
  \/ DeleteGroup \/ DeleteGroupHalf \/ DeleteMapping \/ DeleteMappingFails
  \/ AnnounceRefused \/ AnnounceBegins \/ NoTarget \/ ReadMappings
  \/ SendAnnouncement \/ EditAnnouncement \/ EditRefused
  \/ SaveAnnouncementState \/ AnnouncingFails \/ SyncReactions \/ SetMessage
  \/ Subscribe \/ Unsubscribe \/ AddChannel \/ RemoveChannel
  \/ CreateChannel \/ AddCreatedChannel \/ AddCreatedChannelFails \/ ModifyFolder \/ NewChannel

-----------------------------------------------------------------------------
(* A reaction to the announcement (handleReaction): the bot subscribes the user to
   the group that has the emoji now, or takes the user out again. *)

\* Mutant of EmojiGroupMappingByEmoji: disabled mappings are found too.
EmojiGroupMappingByEmoji_DisabledToo(e) ==
  {g \in Groups : mapping[g] # Nil /\ mapping[g].emoji = e}

(* One of them, if there are several. *)
EmojiGroupMappingByEmoji(e) == {g \in Enabled : mapping[g].emoji = e}

HandleReaction(u, e) ==
  /\ job = Idle /\ Event
  /\ ann.msg # Nil
  /\ \E g \in EmojiGroupMappingByEmoji(e) :
       /\ g \in Tracked /\ ug[g] = "active"
       /\ \E ms \in {members[g] \cup {u}, members[g] \ {u}} :
            members' = [members EXCEPT ![g] = ms]
  /\ UNCHANGED <<role, ug, chan, posts, table, job, succeeded, results, ghosts>>

(* Others: a user group is archived; the listener of package channelgroup deletes
   its row, and forgets a channel that was archived. *)
GroupArchived(g) ==
  /\ Event
  /\ ug[g] = "active"
  /\ ug' = [ug EXCEPT ![g] = "archived"]
  /\ UNCHANGED <<role, members, chan, posts, table, job, succeeded, results, ghosts>>

ListenerDeletesRow(g) ==
  /\ ug[g] = "archived" /\ g \in Tracked
  /\ rows' = [rows EXCEPT ![g] = Nil]
  /\ folder' = folder \ {g}
  /\ excused' = excused \cup {g}
  /\ behind' = TRUE
  /\ UNCHANGED <<zulip, mapping, ann, configured, job, succeeded, results, torn, doubled, aliased,
                 count>>

ListenerForgetsChannel(c) ==
  /\ chan[c] = "archived"
  /\ \E g \in Tracked : c \in rows[g]
  /\ rows' = [g \in Groups |-> IF rows[g] = Nil THEN Nil ELSE rows[g] \ {c}]
  /\ UNCHANGED <<zulip, folder, mapping, ann, configured, job, succeeded, results, ghosts, count>>

OthersStep ==
  \/ \E g \in Groups : GroupArchived(g) \/ ListenerDeletesRow(g)
  \/ \E c \in Channels : ListenerForgetsChannel(c)
=============================================================================
