-------------------------- MODULE CommandDispatch --------------------------
(* Messages as chains of commands (internal/zulipbot/command), their dispatch by
   the bot (dispatchChain, dispatchOne in bot.go) and the handlers they reach.

   A chain is chosen segment by segment, which is the same as choosing it in
   advance: nothing looks at a segment before its turn. A message that cannot be
   parsed reaches no command. How messages come, are answered and come again
   after a crash is the subject of BotEventLoop. *)
EXTENDS GroupCommands

CONSTANTS
  MaxCommands,  \* bound on the commands that are dispatched
  MaxSegments   \* bound on the segments of a chain

ASSUME DispatchAssumption == MaxCommands \in Nat /\ MaxSegments \in Nat \ {0}

VARIABLES
  chain,    \* the message that is handled: its sender and operators, or Nil
  wasAdmin  \* was the sender an administrator since the command's turn came?

vars == <<zulip, table, job, succeeded, results, ghosts, count, chain, wasAdmin>>
world == <<zulip, table, ghosts>>

Operators == {"and", "or", "then"}

ASSUME ChainAssumption == Nil \notin [user : Users, ops : Seq(Operators)]

(* What users send. Other parameters than these are refused like unknown groups. *)
Requests ==
  [cmd : {"create"}, g : Groups, e : Emojis] \cup
  [cmd : {"set"}, name : Groups, g : Groups, e : Emojis] \cup
  [cmd : {"disable", "addFolder", "removeFolder", "assignFolder", "subscribe", "unsubscribe"},
   g : Groups] \cup
  [cmd : {"remove"}, g : Groups, force : BOOLEAN] \cup
  [cmd : {"announce", "restart", "config", "show", "unknown"}] \cup
  [cmd : {"setMessage"}, m : DOMAIN posts \cup {Foreign}] \cup
  [cmd : {"addChannel", "removeChannel", "createChannel"}, g : Groups, c : Channels] \cup
  [cmd : {"archive", "newChannel"}, c : Channels]

Init ==
  /\ InitGroups
  /\ chain = Nil /\ wasAdmin = FALSE
  /\ count = [commands |-> 0, events |-> 0]

-----------------------------------------------------------------------------
(* Permissions *)

\* Mutant of CommandPermission: commands are open unless their arguments say more.
CommandPermission_Open(cmd) == 0

(* Metadata().Permission, and the checks of the static commands. *)
CommandPermission(cmd) ==
  CASE cmd = "restart" -> Owner
    [] cmd \in ChannelAdmin \cup {"config"} -> Admin
    [] OTHER -> 0

(* RequiredPermission of a path in GroupArgSpec. *)
RequiredPermission(cmd) == IF cmd \in GroupAdmin THEN Admin ELSE 0

(* authorizeCommand, authorizeArgSpec: the role is fetched for each command. *)
Authorized(u, cmd) ==
  /\ RoleAllows(role[u], CommandPermission(cmd))
  /\ RoleAllows(role[u], RequiredPermission(cmd))

NeedsRole(cmd) == CommandPermission(cmd) # 0 \/ RequiredPermission(cmd) # 0

-----------------------------------------------------------------------------
(* Chains *)

ShouldDispatchChained(op) ==
  CASE op = "and" -> succeeded
    [] op = "or" -> ~succeeded
    [] OTHER -> TRUE

Message(u) ==
  /\ chain = Nil /\ count.commands < MaxCommands
  /\ chain' = [user |-> u, ops |-> <<>>]
  /\ UNCHANGED <<world, job, succeeded, results, count, wasAdmin>>

(* The next segment; the first one's operator counts for nothing. *)
Segment(op) ==
  /\ chain # Nil /\ job = Idle
  /\ Len(chain.ops) < MaxSegments
  /\ chain.ops = <<>> => op = "then"
  /\ chain' = [chain EXCEPT !.ops = Append(@, op)]

\* Mutant of Skip: a command that is passed over counts as a success.
Skip_Succeeds(op) ==
  /\ Segment(op) /\ ~ShouldDispatchChained(op)
  /\ succeeded' = TRUE
  /\ UNCHANGED <<world, job, results, count, wasAdmin>>

(* What was the outcome stays the outcome for the operators that follow. *)
Skip(op) ==
  /\ Segment(op) /\ ~ShouldDispatchChained(op)
  /\ UNCHANGED <<world, job, succeeded, results, count, wasAdmin>>

Turn(op) ==
  /\ Segment(op) /\ ShouldDispatchChained(op)
  /\ wasAdmin' = RoleAllows(role[chain.user], Admin)

(* dispatchOne reaches a handler, *)
DispatchOne(op, req) ==
  /\ Turn(op) /\ Counted("commands", MaxCommands)
  /\ req.cmd \in Commands /\ Authorized(chain.user, req.cmd)
  /\ job' = [at |-> "handle", req |-> req, user |-> chain.user,
             todo |-> {}, c |-> Nil, restore |-> FALSE, content |-> {}]
  /\ UNCHANGED <<world, succeeded, results>>

(* refuses the command, unknown or not for this sender, *)
DispatchRefused(op, req) ==
  /\ Turn(op) /\ Counted("commands", MaxCommands)
  /\ req.cmd = "unknown" \/ ~Authorized(chain.user, req.cmd)
  /\ Finish(FALSE)
  /\ UNCHANGED world

(* cannot tell the role and refuses too, *)
RoleUnavailable(op, req) ==
  /\ Turn(op) /\ Event
  /\ NeedsRole(req.cmd)
  /\ Finish(FALSE)
  /\ UNCHANGED world

(* config: both values of the announcement's target are there, or one is still
   missing, or the value or key is refused; no value is ever taken back. *)
HandleConfig == configured' \in {configured, TRUE}

(* or does itself what is asked: a restart follows the answer (BotEventLoop); what
   only reads changes nothing; config succeeds for the chain, whatever it tells
   the user. *)
DispatchStatic(op, req) ==
  /\ Turn(op) /\ Counted("commands", MaxCommands)
  /\ Authorized(chain.user, req.cmd)
  /\ \/ req.cmd = "restart" /\ Finish(TRUE) /\ UNCHANGED configured
     \/ req.cmd = "show" /\ (\E ok \in BOOLEAN : Finish(ok)) /\ UNCHANGED configured
     \/ req.cmd = "config" /\ Finish(TRUE) /\ HandleConfig
  /\ UNCHANGED <<zulip, rows, folder, mapping, ann, ghosts>>

(* The answer to the message. *)
Reply ==
  /\ chain # Nil /\ job = Idle /\ chain.ops # <<>>
  /\ chain' = Nil /\ wasAdmin' = FALSE
  /\ succeeded' = TRUE /\ results' = <<>>
  /\ UNCHANGED <<world, job, count>>

(* The process crashes and starts again. *)
Crash ==
  /\ chain # Nil /\ Event
  /\ chain' = Nil /\ wasAdmin' = FALSE
  /\ job' = Idle /\ succeeded' = TRUE /\ results' = <<>>
  /\ behind' = (behind \/ job # Idle)
  /\ excused' = excused \cup (IF At("archive") /\ job.restore THEN {job.c}
                              ELSE IF At("unmap") THEN {Target} ELSE {})
  /\ IF At("record") THEN Unrecorded ELSE UNCHANGED <<torn, doubled>>
  /\ UNCHANGED <<zulip, table, aliased>>

RoleChanges(u) ==
  /\ Event
  /\ \E r \in Roles :
       /\ role' = [role EXCEPT ![u] = r]
       /\ wasAdmin' = (wasAdmin \/ (chain # Nil /\ u = chain.user /\ RoleAllows(r, Admin)))
  /\ UNCHANGED <<ug, members, chan, posts, table, job, succeeded, results, ghosts, chain>>

Next ==
  \/ \E u \in Users : Message(u) \/ RoleChanges(u)
  \/ \E op \in Operators : Skip(op)
  \/ /\ chain # Nil /\ job = Idle
     /\ \E op \in Operators, req \in Requests :
          \/ DispatchOne(op, req) \/ DispatchRefused(op, req)
          \/ RoleUnavailable(op, req) \/ DispatchStatic(op, req)
  \/ Reply \/ Crash
  \/ (HandlerStep \/ OthersStep) /\ UNCHANGED <<chain, wasAdmin>>
  \/ \E u \in Users, e \in Emojis :
       chain = Nil /\ HandleReaction(u, e) /\ UNCHANGED <<chain, wasAdmin>>

Spec == Init /\ [][Next]_vars

-----------------------------------------------------------------------------
(* Types. What a group has on record agrees with its row: a folder needs one
   (channel_groups). *)
TypeOK ==
  /\ role \in [Users -> Roles]
  /\ ug \in [Groups -> {"none", "active", "archived"}]
  /\ members \in [Groups -> SUBSET Users]
  /\ chan \in [Channels -> {"none", "open", "emptied", "archived"}]
  /\ \A g \in Tracked : rows[g] \subseteq Channels
  /\ folder \subseteq Tracked
  /\ \A g \in Groups : mapping[g] # Nil => mapping[g] \in [emoji : Emojis, on : BOOLEAN]
  /\ ann.msg \in DOMAIN posts \cup {Nil, Foreign}
  /\ job # Idle => chain # Nil

(* A chain of && ends with the first command that fails, one of || with the first
   that succeeds, whatever is passed over in between, and ; runs all
   (dispatchChain). *)
ChainStops ==
  chain # Nil =>
    LET later == {chain.ops[i] : i \in 2..Len(chain.ops)}
        AllBefore(ok) ==
          \A i \in DOMAIN results : results[i] = ok \/ (i = Len(results) /\ job = Idle)
    IN /\ later \subseteq {"and"} => AllBefore(TRUE)
       /\ later \subseteq {"or"} => AllBefore(FALSE)
       /\ later \subseteq {"then"} =>
            Len(results) = Len(chain.ops) - (IF job = Idle THEN 0 ELSE 1)

(* Mappings, the recorded announcement, its target and the state of channels change
   only for a sender who was an administrator after the command's turn in the
   chain came, however roles change in between (authorizeCommand,
   authorizeArgSpec, GroupHandler.auth). *)
AdminOnly ==
  [][<<mapping, ann, configured, chan>>' # <<mapping, ann, configured, chan>> => wasAdmin']_vars

(* Between commands the announcement shows the enabled mappings and has the bot's
   reactions for them, unless its last update failed or a name changed since
   (behind), it was edited without its hash being saved (torn), or set-message
   chose a message that was not updated yet (triggerAnnouncementUpdate). *)
Announced ==
  job = Idle /\ ann.hash # Nil /\ ~behind /\ ~torn => posts[ann.msg] = UpToDate(Shown)

(* A second announcement is sent only if the first was not recorded
   (ensureAnnouncement). *)
OneAnnouncement == Len(posts) > 1 => doubled

(* An emoji stands for one group, unless it was mapped with the name of another
   group than the one mentioned (ensureMappingDoesNotExist,
   ensureEnabledEmojiMappingAvailable; the table has no such constraint). *)
EmojiUnique ==
  ~aliased => \A g, h \in Enabled : g # h => mapping[g].emoji # mapping[h].emoji

(* Between commands an enabled mapping has its group, unless the group was archived
   by others or a removal stopped halfway (handleCreate, handleRemove). *)
MappingsHaveRows == job = Idle => Enabled \subseteq Tracked \cup excused

(* Nobody loses a channel that stays open: who was unsubscribed for the archiving
   comes back when it fails, unless that fails as well, the answer to their removal
   is lost or the process crashes (unsubscribeAllAndArchive). *)
NobodyStranded ==
  \A c \in Channels :
    chan[c] = "emptied" => c \in excused \/ (At("archive") /\ job.c = c)

(* A reaction makes nobody a member of a group that the announcement does not show
   (handleReaction). *)
ReactionsAsShown ==
  [][\A g \in Groups :
       chain = Nil /\ ann.hash # Nil /\ ~behind /\ ~torn /\ members'[g] \ members[g] # {}
         => \E m \in posts[ann.msg].content : m.name = g]_vars
=============================================================================
