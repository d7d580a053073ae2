# Verification of go-campusbot

TLA+ models of the Zulip campus bot in `src/`, the TLC runs that check them on
small instances, and TLAPS proofs of what matters most for every instance.

- [The system](#the-system): parts, state, interactions, what is hard
- [Modules](#modules)
- [BotEventLoop](#boteventloop): correspondence, runs, bounds, fairness, proofs
- [ChannelGroupMembership](#channelgroupmembership): the same
- [ChannelGroupLifecycle](#channelgrouplifecycle): rows, user groups, folders, listener
- [ResponseCache](#responsecache)
- [WorkerSubscriptions](#workersubscriptions)
- [CommandDispatch](#commanddispatch): chains, permissions, handlers, announcement
- [What stays with TLC](#what-stays-with-tlc)
- [Not modelled](#not-modelled)
- [Plan](#plan)

## The system

The bot is one process. It reads Zulip events (messages, reactions) from an
event queue, answers commands sent to it as direct messages, and manages
*channel groups*: sets of channels with a Zulip user group each, whose members
are subscribed to all of the set's channels.

| Component | Source | State it keeps | Operations |
|---|---|---|---|
| Bot event loop | `internal/zulipbot/bot.go` | `event_queue_state`, `processed_messages`, `restart_requests` (SQLite); `requested`, `accepting`, `update` | `Run`, `consumeQueue`, `handleEvent`, `handleMessage`, `handleReaction`, restart and update |
| Process | `cmd/campusbot/main.go` | the executable | start-up, `executeRestart`, `updateExecutableFromGitHubRelease`, exec |
| Channel groups | `internal/channelgroup/api_channel_groups.go` | groups, their channels, their listener queue (SQLite); user groups, folders, subscriptions (Zulip); `folderOpsMu`, `memberWriteMus`, `memberOpGenerations` (guarded by `memberOpsMu`) | create, import, delete, update channels, folder operations, subscribe, unsubscribe; start-up reconciliation; listener |
| Group and channel commands | `internal/zulipbot/handlers` | `emoji_group_mappings`, `announcement_state` (SQLite); the announcement message and its reactions (Zulip) | group create, remove, mapping, channel, folder, announce; channel create, archive |
| Caches | `internal/zulipcache` | a snapshot with a 5 s lifetime, an event queue | get, store, invalidate, apply event |
| Round-robin client | `internal/zuliproundrobin` | the next worker; subscriptions of the workers | pick a client, copy subscriptions at start and on events |
| Command language | `internal/zulipbot/command` | none | parse, chain operators, permissions of argument specs |
| Storage, config, code generation, mock | `internal/sqlitemigrate`, `internal/zulipbot/storage`, `config.go`, `generate_client.go`, `zulipmock` | schema, `bot_config` | migrate, get, set |

How they interact. `main.run` builds the caches and the worker client, then the
bot, whose constructor builds the channel-group client: that reconciles the
groups with Zulip and starts a listener goroutine on its own event queue. Then
`Bot.Run` reads the main queue. Commands and reactions call the channel-group
client from the event loop's goroutine; the listener and the caches run beside
it, and people change subscriptions, channels and user groups in Zulip at any
time. A restart returns from `Run`, and `main` replaces the process image; if
anything fails, the process exits with status 1 and systemd starts it again
(`INSTALL:43`, `Restart=on-failure`).

What is hard, and what makes each component correct:

- *Event loop.* A crash or failed call can fall between any two of: reply,
  record, callback, restart request, cursor. A command must be settled once, its
  restart must happen once, no event may be passed without being tried, and a
  start must not announce a restart nobody asked for.
- *Channel groups.* Subscribing works under a read lock and unsubscribing
  mostly outside the write lock; what a subscriber and an unsubscriber of the
  same user leave behind must agree between the user group and the channels. Groups that
  fail to be created or deleted must be undone.
- *Listener.* It applies deletions that it learns late, twice or never.
- *Caches.* A response fetched before an event may be stored after it.
- *Announcement.* It is sent and then recorded; mapping, reactions and text must
  agree in the end.
- *Command language.* Who may run a command must not depend on how it is parsed
  or chained.

`PROJECT.json` lists the hazards line by line, each with the properties that
are about it.

## Modules

| Module | What it is |
|---|---|
| `BotEventLoop` | the process, its database, its queues at Zulip, the service manager |
| `CommandDelivery` | what users are promised: the abstract specification of the above |
| `MCBotEventLoop` | instances for TLC |
| `BotEventLoopProofs` | theorems about `BotEventLoop`, and that it implements `CommandDelivery` |
| `ChannelGroupMembership` | concurrent calls that subscribe, unsubscribe, change channels and delete a group, against the database and Zulip |
| `MCChannelGroupMembership` | instances for TLC |
| `ChannelGroupMembershipProofs` | theorems about `ChannelGroupMembership` |
| `ChannelGroupMembershipSerialProofs` | theorems about its calls when one caller makes them one after the other |
| `ChannelGroupMembershipConcurrentProofs` | theorems about its calls when any number of callers make them at the same time |
| `ChannelFolders` | channel folders at Zulip and the helpers that fill and empty them |
| `ChannelGroupLifecycle` | extends it: how rows of groups come and go, by calls, at start, and by the listener |
| `ResponseCache` | the protocol of both response caches |
| `WorkerSubscriptions` | the round-robin client and the copying of subscriptions to its workers |
| `GroupCommands` | handlers of the group and channel commands, mappings, announcement, reactions |
| `CommandDispatch` | extends it: messages as chains of commands, permissions, dispatch |
| `ChannelGroupLifecycleProofs`, `ResponseCacheProofs`, `WorkerSubscriptionsProofs`, `CommandDispatchProofs` | theorems about these modules |
| `MCChannelGroupLifecycle`, `MCResponseCache`, `MCWorkerSubscriptions`, `MCCommandDispatch` | instances for TLC |

Where a step of one module stands for a whole call that another takes apart, the
module says so: creating or deleting a channel group is one step in
`GroupCommands` and several in `ChannelGroupLifecycle`; the members of a group are
the subject of `ChannelGroupMembership`; a message is dispatched in one step in
`BotEventLoop` and segment by segment in `CommandDispatch`.

## BotEventLoop

### State and actions

`stored`, `processed` and `rows` are the three tables; they survive a crash.
`pc`, `state` (the `QueueState` of `consumeQueue`), `cur` (the event in hand),
`requested` and `update` are the memory of the process and do not. `fetched` and
`poll` belong to the polling goroutine of the client library
(`realtimeevents.EventQueue`); the library and the Zulip server are external and
modelled by how `bot.go` uses them. `log`, `qstatus`, `qstart` and `qpruned` are
the server: the events so far, and for each registered queue whether it exists,
where it begins and up to where its events were confirmed and dropped.
`attempted`, `marked` and `fires` only record history for the properties.

Every database write and every call to Zulip is an action, so a crash
(`Crash`, also every error that makes `Run` return, and so the process exit with
status 1), a stop (`Shutdown`) or a failure of that very call (`HandlerFails`,
`NotifySendFails`, `CompleteRestartFails`) can fall before it and after it:

| Code | Actions |
|---|---|
| `Run` before the loop | `NotifySend`, `NotifySendFails`, `CompleteRestart`, `CompleteRestartFails`, `NoRestartPending`, `Cleanup` |
| `ensureQueue` | `ResumeQueue`, or `RegisterQueue` and `SaveNewQueue` |
| `consumeQueue` | `Connect`, `Deliver`, `SaveCursor`, `BadQueue`, `EventChClosed`; `Run` then does `ClearState` |
| `handleEvent`, `handleMessage` | `PassOver`, or `Dispatch`, `Reply`, `MarkProcessed` or `MarkThenAfter` |
| `AfterResponse` of restart and update | `AfterResponse`, `DeleteQueue`, `ClearOldQueue`, `RegisterReplacement`, `SaveReplacement`, `CreateRestartRequest`, `ScheduleRestart` |
| `executeRestart` | `InstallUpdate`, `MarkRestartInProgress`, `Exec` |

What a command does besides its answer is the subject of `CommandDispatch`: here a command
either has an `AfterResponse` (restart, update, each with or without
`--new-queue`) or has none. One message carries at most one of them; a chain
with several runs their callbacks in order, which adds no kind of state.

Zulip numbers the events of each queue from zero. The model uses the position
in `log` instead. This is sound because an event id is only ever used together
with the queue it came from.

### Runs

| Run | Shows | Bounds |
|---|---|---|
| `bot_safety` | types; no event is skipped silently; a recorded message is never answered again; callbacks start once; a due restart is recorded; `CommandDelivery` is implemented | 2 events of all 8 kinds, 4 queues, 2 faults of all kinds, early confirmation |
| `bot_restart` | a planned restart can resume its queue; no open request is left | 3 events, 6 queues, 1 fault other than of the database, no early confirmation |
| `bot_liveness` | events settle, restart requests settle | 2 events, 7 queues, 2 faults, early confirmation |
| `bot_new_queue` | violation, see below | 2 events, 4 queues, no fault |
| `bot_update` | violation, see below | 2 events, 6 queues, 1 fault |

Two events are enough for one to fail while the next moves the cursor past it,
and for a restart command to be delivered again after its own restart. Two
faults are enough for a crash during the recovery from another fault. A queue is
registered at most once at first, once per expired queue and once per
`--new-queue`; the bounds on queues leave room for that, so the model never
stops for lack of a queue before the interesting part. In `bot_liveness` seven
queues are more than two events and two faults can use up, which the run relies
on: a bound that is reached would leave the process waiting for ever. Deadlock
is not checked, because the log is bounded and an idle bot really waits.

`Cleanup` has a guard that the code does not have: it spares records of messages
that the stored queue can still deliver, whereas `cleanupProcessedMessages` looks only at
age (7 days) and number (100,000) (`bot.go:1270`). This is an assumption on the
environment. Zulip keeps the events of an unread queue for minutes, and the cursor
is saved after every event.

Two more assumptions are constants, because the code does not decide them.
`AckAhead`: whether the library's next poll can confirm events that
`consumeQueue` has not taken yet. The properties of `bot_safety` and
`bot_liveness` hold either way; `PlannedRestartResumes` needs it FALSE. And
`FaultKinds`: `NoStaleRestartRequest` needs a database that does not fail,
because `Run` only logs that it could not close a request.

Fairness is weak fairness of the process's next step and of the library's poll.
The process is one goroutine that never waits for anything but its calls, the
library polls in a loop, and systemd starts the process again (`Start` is part
of `ProcessStep`). Users, faults, expiry and the operator who would start a
bot that exited with status 0 are not fair.

### Findings

- `bot_new_queue`: `restart --new-queue` does not keep the new queue.
  `replaceMainEventQueue` stores it, but `consumeQueue` goes on with its own
  copy of the state and overwrites it with the deleted queue (`bot.go:355`).
- `bot_update`: `bot.update` is set before the parts of the callback that can fail
  and is never cleared (`bot.go:942`). After a failed `update`, the next `restart`
  installs the latest release.

### Proofs

`BotEventLoopProofs` proves, for every number of events, queues and faults and
every choice of kinds: `TypeCorrect`, `NeverSkips`, `AnsweredOnce`,
`CallbacksOnce` and `RequestRecorded`; with `~AckAhead`, `PlannedRestarts`; and with
a database that does not fail, `RequestsAreClosed`. These two conditions are the
ones of the run `bot_restart`, and without them TLC finds counterexamples. The
assumptions on the constants are `BoundsAssumption` and `KindsAssumption`.

The argument has one inductive invariant in layers, each using those before it.

1. `TypeInv` adds to `TypeOK` how the cursors lie: queue start <= stored cursor <=
   end of log, and while connected `state.last <= cur <= fetched`, strictly below
   `cur` while an event is in hand.
2. `SkipInv`: what `NoSilentSkip` says of the stored cursor also holds of the
   cursor that is about to be used and of the event in hand. `NoSilentSkip`
   alone is not inductive, since a save stores what the process holds.
3. `MarksInv`: a message whose record was cleaned up lies behind every cursor
   that could deliver it again, the one of a queue registered since included.
   Hence an event in hand is either not recorded or passed over.
4. `FiresInv`: a callback that was started belongs to a recorded message; a
   message at its callback was recorded just now, so it had none before.
5. `RowsInv`: a row's message had its callback started, so a callback that starts
   finds no row of its message and the one it creates is active until `Exec`.
6. `PruneInv`: what the server dropped was handed to the bot, and a due restart
   leaves with the cursor stored that it had in hand. `PlannedRestartResumes` says
   nothing of the steps in which the two could drift apart.
7. `StaleInv`: there is at most one active request, and it is open only from its
   creation until the next start has closed it. Uniqueness is what makes closing
   one request close all.

Frame lemmas (`StoredFrame`, `StateFrame`, ...) state which few actions change
the variables that a part is about; each step lemma then has one case for each.

The module also proves `BotImplementsDelivery`, the property
`ImplementsDelivery` of `bot_safety`: the initial states map to initial states of
`CommandDelivery` and every step to one of its steps or to none. Most steps map to
none; those that settle a message, start a callback, create a request, close it
or begin the restart each have a lemma (`MarkStep`, `CallbackStep`, `RequestStep`,
`EndStep`, `BeginStep`). `MarksInv` shows that a message is settled when it was
not, `FiresInv` and `RowsInv` that the promise allows the callback and the request.
The mapping reads the status of a message's request from its row, so it also needs
`OneRowEach`: no message has two. TLC confirmed `PruneInv`,
`StaleInv` and `OneRowEach` on instances of two events before they were proved.

## ChannelGroupMembership

### State and actions

A channel group is known twice. Its row and its channels are in SQLite (`exists`,
`chans`); its members are those of a Zulip user group (`active`, `members`), and
Zulip has the subscriptions (`subs`). Nothing makes these agree but the order in
which a call writes them. `gen`, `readers` and `writers` are the memory of the
service: `memberOpGenerations` and the holders of each group's
`sync.RWMutex` in `memberWriteMus`. `pc` and `job` are a caller's place in its call and its
local variables. `ops`, `called`, `faults`, `late` and `kept` record history for
the bounds and the properties: `late` are the unsubscribes that a subscribe of
the same user overtook, `kept` the subscriptions that the code leaves on
purpose (`keepChannels`, a channel removed from its group, a deleted group).

| Code (`api_channel_groups.go`) | Actions |
|---|---|
| `SubscribeToChannelGroupExecute`, `addChannelGroupMembers` | `Subscribe`, `SubLock`, `SubAdd`, `SubBump` |
| `subscribeUsersToCurrentChannelGroupChannels` | `SubRead`, `SubEnter`, `SubCheck`, `SubClean` |
| undo of a failed subscribe | `UndoMember`, `UndoChannels` |
| `UnsubscribeFromChannelGroupExecute` | `Unsubscribe`, `UnStart`, `UnFinal`, `UnResub` |
| `unsubscribeUsersFromChannelGroupChannels` | `UnShared`, `UnCover`, `UnLeave` |
| `deleteUnchangedChannelGroupMembers` | `UnLock`, `UnDelete` |
| `UpdateChannelGroupChannelsExecute`, `updateGroupChannels`, `cleanupAddedChannels` | `Update`, `UpMembers`, `UpEnter`, `UpCommit`, `UpCheck`, `UpClean` |
| `DeleteChannelGroup` | `Delete`, `DelLock`, `DelList`, `DelEmpty`, `DelDeactivate`, `DelRestore`, `DelRow` |
| error paths of all of them | `Fails` and `Refused`, which go on where `AfterError` says |

Each call to Zulip, each transaction and each use of the lock is a step of its
own, so that everything may happen between any two of them. A failing request
either did nothing or was carried out and its answer lost (`Effect`), as with the
timeout of the HTTP client.

The bot's event loop makes one call after the other. The lock and the
generations exist because the service does not rely on that, and the package's
tests start calls concurrently; the runs with several callers ask what the service
promises to such users.

External, and modelled by how the service uses it: the user-group endpoints
of Zulip. Adding a member, or deleting one who is none, is an error that the
service takes for success (`isAlreadyChannelGroupMemberError`,
`isNotChannelGroupMemberError`), so it changes nothing and is no failure; only
`DeleteChannelGroup` does not, and so `DelEmpty` gives up. A
deactivated user group may refuse a change, or take it: `Refused` is a choice.

Abstracted: a call names one user, as all callers in the bot do; an update
adds or removes one channel; the move of added channels to the
group's folder, which precedes the commit and can only fail, is in
`ChannelGroupLifecycle` (`UpdateFolder`); so are crashes in the middle of a call
and what the next start makes of them, as far as rows are concerned. Nothing
repairs subscriptions after a crash.

### Runs

| Run | Shows | Bounds |
|---|---|---|
| `groups_serial` | what a call leaves behind when it runs alone, failures included | 2 groups, 2 channels, 1 user, 1 caller, 3 calls, 1 failure |
| `groups_races` | what no interleaving may break, and that every call returns | 1 group, 1 channel, 1 user, 2 callers, 3 calls, 1 failure or lost answer |
| `groups_together` | which overlapping calls leave members and subscriptions in agreement | 1 group, 2 channels, 2 users, 3 callers, 3 calls, no failure |

All of them start in every state that is consistent: any channels, any members,
and subscribed exactly what follows. Two groups and two channels are the least
with a shared channel and one that is not shared. Three calls are
enough for a history (subscribe, change the channels, unsubscribe) and, with two
callers, for a call that returned and two that overlap. One user suffices in
`groups_races` because the guarded state is per user; `groups_together` has a second
user who must not be affected. Its three callers overlap in every pair and every triple
of operations. It also holds with four calls, so that one begins between the
steps of the others (3.3 million states, too long for a regular run).
Callers and channels are interchangeable where no liveness is checked. Deadlock is not
checked, because the calls are bounded and a finished instance stops;
`EveryCallReturns` covers a caller that waits for ever.

Fairness is weak fairness of each caller's next step: goroutines are
scheduled, and Zulip and SQLite answer, be it with an error. It is enough for
`EveryCallReturns` although callers wait for locks: the number of calls is bounded,
and a lock is released by steps that do not wait. Making calls and failing are not fair.

### What the properties leave out, and why

`MaterializedTogether` and `NoOrphansTogether` name the pairs that are not kept in
agreement (`Clashes`, and a subscribe next to an added channel). The code looks again after most of its steps, but not after these:

- A subscribe next to an added channel: the update reads the members before the
  user is one, the subscribe reads the channels before the commit; the
  user misses the channel.
- A subscribe next to an unsubscribe of the same user: the subscribe enters the
  channels after the unsubscribe left them, and still finds the member that the
  unsubscribe is about to delete.
- A subscribe next to a removed channel: the user enters a channel that has just
  left the group.
- A deletion next to an unsubscribe: the unsubscribe leaves the channels, Zulip then
  refuses to change the user group, deactivated by now, and the undo puts the user
  back into the channels of a group that is gone.
- A deletion next to an added channel: the members read before the deletion enter
  the channel all the same.

Every other pair agrees in every order of its steps, a subscribe next to a deletion
included.

With three calls or more, other combinations fail too:

- Two subscribes next to an unsubscribe: the cleanup of one subscribe does not ask
  the generations and takes the channels of a user whom the other has just added
  again.
- Two updates that add the same channel, next to an unsubscribe: one commits the
  channel, the unsubscribe reads and leaves it, the other puts the user into it again
  and checks the members while the user is still one. The unsubscribe does not look
  at the channel a second time, having read it the first time.

For more than two calls `MaterializedTogether` therefore allows no subscribe, or a
subscribe only next to removals; `NoOrphansTogether` allows the sets of operations in
`Companions`.

With two groups at once, a channel removed while an unsubscribe leaves a group that
shared it is taken from a member of the other group. No run promises anything here.

A subscribe that fails takes the channels it touched from the user without asking
whether another group of the user has them (line 1323), whereas an unsubscribe
asks (`api_channel_groups_test.go:2462`). `MaterializedUnlessUndone` is named after
this: it leaves out users whose subscribe was rolled back. It also speaks of one
failure at most: where an unsubscribe cannot delete the member, and cannot
subscribe the member again either (line 1416 ignores that), the member stays without
the channels.

The comment on `UpdateChannelGroupChannelsRequest.Delete` (line 2504) expects
subscribers of a removed channel to be unsubscribed by "the server". The code
leaves them subscribed and its tests expect that
(`api_channel_groups_test.go:1129`); the model follows the code, in `kept`.

### Proofs

`ChannelGroupMembershipProofs` proves, for any sets of groups, channels, users
and callers and any bounds, from `SetsAssumption` alone:

- `TypeCorrect`: `TypeOK`;
- `LockCorrect`: exactly the callers in a critical section hold the lock, an
  exclusive holder alone;
- `NoLostSubscribeAlways` and `DeletedIsEmptyAlways`, the properties of `groups_races`.

`IInv` is the inductive invariant: types, `LockInv`, `LateInv`, `DeleteInv`.
`NoLostSubscribe` is not inductive, because it says nothing of an unsubscribe
that has not reached its deletion. `LateInv` adds that: the generation an
unsubscribe started from is not ahead of the current one, and if a subscribe
overtook it, then it is behind, or that subscribe stands between adding the member
and counting the generation. In the latter case it holds the lock shared
(`LockInv`), so the unsubscribe cannot take it, and afterwards
sees a generation that differs. `DeleteInv` says what a deletion knows of
its group between its steps, and `LockInv` why nobody changes that.

Frame lemmas (`LockKeep`, `LockRelease`, `LockShared`, `LockExclusive`,
`LateFrame`, `DeleteFrame`) say which steps keep each part; `Plain` puts them
together for the many steps outside the lock, and the step lemmas then have
one case per action. TLC confirmed `LockInv`, `LateInv` and `DeleteInv` on the
instance of `groups_races` before they were proved.

`ChannelGroupMembershipSerialProofs` proves the properties of `groups_serial` for
one caller (`OneCaller`), as the bot's event loop is, and any groups, channels,
users, number of calls and failures:

- `SerialNoOrphans`: `NoOrphans`;
- `SerialMaterialized`: `MaterializedUnlessUndone`, where no answer is lost. An
  unsubscribe whose leaving of the channels was carried out but reported as failed
  ends there, and its user is a member without the channels; the run has no
  lost answers either.

Both properties are about idle callers only, so they are far from inductive. The
invariant `SerialInv` says what holds on the way, in four parts:

- `PlaceInv`, what the caller knows: what it read of the group, its members and the
  generations is still so, since nobody else is there to change it. Hence the
  cleanups for the work of others (`SubClean`, `UpClean`, `UnFinal` with channels
  added, `UnResub` after an overtaken unsubscribe) never run. `CoverPlace` is the part
  that a loop needs: of the channels shared with other groups, each is known to be
  covered, or a group that covers it is still to be asked.
- `GroupsInv`: a group with a row whose user group is deactivated comes from a
  failure; so a refusal without a failure can only meet a group that is gone.
- `MissingInv`: a member misses a channel only while a subscribe is about to enter
  it or an unsubscribe has left it, and the members a failed deletion puts back miss
  none (`Restorable`).
- `OrphanInv`: a subscription is due, kept on purpose, or `Ahead` of an update's commit
  or of a deletion of its group; an unsubscribe that has left its channels stays
  only in those another group covers (`Covered`).

Frame lemmas (`LocalKeeps`, `CalmKeeps`, `MissingKeep`, `OrphanKeep`) settle the
steps that change the caller only; every action then has a lemma, and an error has
one for each place it leads to (`ErrorSerial`), which needs `DeleteInv` of the
first module. TLC confirmed `SerialInv` before the proof, on 2 groups and 2
channels, with 1 user, 3 calls and 2 failures, and with 2 users, 2 calls and 2
failures or lost answers. It also showed that the property needs its bound of
one failure.

`ChannelGroupMembershipConcurrentProofs` proves the properties of `groups_together`,
where calls overlap in any way. It is about one group (`OneGroup`), any channels, users
and callers, any number of calls, and no failing request (`MaxFaults = 0`; a refusal is
none, and is covered): `MaterializedTogetherAlways` and `NoOrphansTogetherAlways`.

One group is a condition the properties need, as they fail with two (above). Both
are about idle callers, and follow from one invariant, `ManyInv`, which is `IInv` and
three more parts:

- `AtInv`, what a caller knows although others are at work. `TraceInv` and `CountInv`
  relate what the callers are doing to `called`, so that a property about operations
  says who can be where. `At` then says which of the things a caller has read cannot
  have changed, given what is not called: an unsubscribe has read all channels if
  nobody adds one, a subscribe enters only channels of the group if nobody removes
  one, a rollback happens only when the group is gone.
- `HeldInv`: a member who is not in a channel of the group is in the hands of a
  subscribe that will come back (`Joining`) or of an unsubscribe that will delete the
  member (`Parting`), and an update about to commit a channel holds all members in it
  (`UpdateHeld`). It speaks of the operations that `MaterializedTogether` allows
  (`Gentle`).
- `LooseInv`: a subscription without membership is due. If the channel is not the
  group's, an update will commit it or a subscribe will clean it up (`ChannelDue`); if
  the user is no member, one of the cleanups `SubCheck`, `UpCheck`, `UnFinal` will find
  it, or a deletion will keep it (`MemberDue`). `LeftAt` is what the step from a member
  to none needs: an unsubscribe that deletes has left the channels it read, so what
  the user is still in was added since, and `UnFinal` reads the channels again. It
  speaks of the operations that `NoOrphansTogether` allows (`Tidy`).

A lemma per action says what the action does to the one group (`SubAddDoes`, ...);
`AtFrame`, `HeldFrame` and `LooseFrame` say what a step must show for each part, so that
a step lemma speaks only of the caller that moves. TLC confirmed the three parts with
three callers, up to four calls and up to two users before they were proved.

## ChannelGroupLifecycle

### State and actions

`rows` and `folder` are the table `channel_groups` with its channels, `stored` the
listener's row in the database. `ug`, `subs`, `log` and `live` are Zulip: the user group of each
id, the channels the bot is subscribed to, the events and the queues. `view` is
the active groups as the response cache has them; it is never newer than Zulip and
catches up at some time (`ViewExpires`, which stands for what `ResponseCache`
shows). `job` is the call in progress: the bot makes one at a time. `lst` is the listener:
its place, its queue, the event it has polled and the one it has handled.

| Code (`api_channel_groups.go`) | Actions |
|---|---|
| `CreateChannelGroupExecute` and its rollbacks | `Call`, `CreateGroup`, `CreateGroupFolder`, `CreateAssign`, `CreateRow`, `UndoFolder`, `UndoCreate` |
| `reuseArchivedChannelGroup` (`handlers/group.go`), `ImportZulipUserGroupExecute` | `Reactivate`, `Import` |
| `DeleteChannelGroupExecute` | `Deactivate`, `DeleteRow` |
| `UpdateChannelGroupChannelsExecute` | `UpdateSubscribe`, `UpdateFolder`, `UpdateRow` |
| `UpdateChannelGroupFolderExecute` | `FolderCreate`, `FolderRecord`, `FolderAssign`, `FolderUndo`; `FolderCheck`, `FolderTake`, `FolderArchive`, `FolderForget` |
| `NewClient`, `initializeChannelGroups`, `ensureChannelGroupEventQueue` | `StartRead`, `Reconcile`, `ResumeQueue`, `RegisterAtStart` |
| `runChannelGroupEventListener`, `handleChannelGroupEvent` | `RemoveChannelFromChannelGroups`, `VerifyDeleted`, `DeleteVerified`, `SaveCursor`, `Reconnect`, `ClearQueue`, `ReplaceQueue`, `ListenerEnds` |

Others deactivate and activate user groups, archive channels and move them
between folders at any time; every request and statement may fail; the process may
crash between any two steps. A failed request either did nothing or was carried out
and its answer lost: user groups are created, activated and deactivated, folders
created and archived, channels moved without the bot's knowing. That goes for the
requests that undo something, too. A request of several parts may stop between them
(`AddingStops`, `RemovingStops`, `RollbackStops`). Clearing the stored queue and registering
another are two steps, and each may fail. Registering and saving are one: a
failure between them leaves a queue that nobody asks, as if none had been registered.

### Run

`lifecycle`: 1 group, 1 channel, 2 calls, 2 changes by others, 1 fault, 1 crash. One
group and one channel suffice because groups share nothing here but channels, whose
deletion treats all rows alike. A folder is the exception: what two groups do to one
folder is covered by others moving the channel. All properties also held
with two channels (1 change; 239,785 states) and with two groups (1 change, no crash;
429,843 states), which take too long for regular runs. Two calls are a create and
what follows it, two changes a deactivation and the activation that
makes its event stale. The fault and the crash are enough for a recovery, and
for a fault before or after it.

- `ActiveIsTracked`: an active user group of the bot has a row.
- `FoldersAgree`: a folder that is not archived belongs to one row, and the other way round.
- `DeadGoes` (liveness): what is gone at Zulip goes from the rows.

Fairness is weak fairness of the call's next step, of the start (systemd starts the
process again), of the listener's step and of `ViewExpires`. The goroutines wait for
nothing but answers, and a cached response expires (5 s). Calls, changes and
faults are not fair. A finished instance stops: deadlock is not checked.

### What the properties leave out, and why

The ghosts `excused`, `loose` and `missed` name it, and each is set only in the
steps where the code loses track:

- A group that is activated while the listener holds an answer that it is gone
  loses its row (between lines 698 and 717); so does one that the reconciliation
  did not see. An activation by an administrator sends no event the bot handles.
- A crash within a call leaves what the call had done; so does an undo that fails.
- A create or an activation whose answer is lost leaves an active group without a
  row (line 760; `handlers/group.go:633`); it is `excused`. A folder that is created or
  archived with the answer lost is `loose` (lines 812, 1170 and 1203). A
  deactivation with the answer lost breaks nothing: its event deletes the row.
- The undo of a failed `folder add` does not take channels out again; Zulip then
  refuses to archive the folder, and it stays without a row (line 1186).
- What dies between reconciliation and registration of the queue, or while an
  expired queue is replaced, is not heard of until the next start (line 289).
- An event whose handling fails is passed over by the next one that succeeds
  (line 580), and an event of a group that the cache still lists is ignored
  (line 698).
- When the event channel closes without an error, the listener ends (line 451) and
  nothing starts another.

### Proofs

`ChannelGroupLifecycleProofs` proves `TypeCorrect`, `GroupsAreTracked`
(`ActiveIsTracked`) and `FoldersBelong` (`FoldersAgree`) for any groups, channels and
bounds. `BoundsAssumption` and `NilAssumption` say only that names of different kinds
and the value `Nil` differ.

- `TypeInv` adds to the types where the call (`JobInv`) and the listener (`LstInv`) can
  be, and that no call is under way while the process starts.
- `TrackedInv`: at each moment an active group has a row, is `excused`, or is the one
  that the call in progress has activated and will give a row or deactivate
  (`Pending`). A group that the listener is about to forget is excused if it is
  active: that is why deleting its row does not break the property.
- `FoldersInv`, with `OwnersInv` and `CallInv`: an open folder is a row's, or `loose`,
  or one that the call in progress made and has not recorded; the folder of a row
  is open, or the call has just archived it. No two rows share a folder, and
  only the row of its group may have the folder of the call.
  `FoldersAgree` speaks of moments without a call only and is far from inductive.

TLC confirmed the three on the instance of `lifecycle` before they were proved.

## ResponseCache

### State and actions

`user_groups.go` and `streams.go` follow one protocol; `kind` says which one is
modelled and both are initial states of the run. `state` is the atomic pointer to
the cached response, with its remaining lifetime. `reader` are goroutines within
`RoundTrip`: `Ask` loads and finds no fresh response, `DropExpired` drops what is there
by then if the loaded one had expired, be it a fresh one that another reader has
stored in between, `Answer` is the server's answer and `StoreResponse` stores it;
`RequestFails` does not. `queue`, `cursor`, `next`
and `held` are the goroutine that applies events: `RegisterQueue`, `MutateLoad` and
`MutateSwap` (the load and the CompareAndSwap of `mutate`, with its retry),
`QueueFails` and `InvalidateAfterFailure`. `world` and `log` are the items at Zulip
and the events about them, external. Time passes by `Tick`; a request, from `Ask` to
`StoreResponse`, takes at most `MaxLatency`, and an answer is what the server had at some
time within it.

### Run

`response_cache`: 1 item with 2 parts, 2 readers, lifetime 1, latency 1, 2 changes, 1
fault (2,554,319 states). Items are independent in every update function; two parts show
that events of one do not touch the other. Two changes are enough for an
event that is older than the response and one that is newer, and for one that was
missed and one that is applied: an item added and patched, patched twice, deactivated
and revived. Two readers give two answers of different age that overtake each other
and the events. Longer histories are what the proofs cover.

- `NothingInvented`: what a response says was true at some time between the
  response and the last event.
- `CaughtUp`: once all events are handled the response is right, if no event that it
  needed was missed.
- `StaleIsShort`: whatever was lost, a hit is right after lifetime and latency
  without a change.
- `AnswersItsQuery`: a reader is not given the answer to another question.

Deadlock is checked: time can always pass. No liveness: readers come as they like.

Known limits. The streams cache does not look at the query of a request (line 418),
so `AnswersItsQuery` is about user groups only. An update that activates an item
which is not in the list is ignored; the item is missing until the response expires.
Events between a failed queue and the next are lost, for as long. The first
two are left out of `CaughtUp` and `NothingInvented`; `StaleIsShort` has no
exception.

### Proofs

`ResponseCacheProofs` proves all invariants of the run, for any items, parts and
readers and any times and bounds: `TypeCorrect`, `AnswersTheQuestion`
(`AnswersItsQuery`), `SoonRight` (`StaleIsShort`), `NoInvention` (`NothingInvented`) and
`EndsRight` (`CaughtUp`). Besides `TimesAssumption` they use `NilAssumption`: no response
is `Nil`.

- `TrackInv` is the core. It compares each item of a response with the item's history
  (`Trace`) and distinguishes three cases (`Follows`). While the goroutine applies
  events that are older than the response, the item is as after the last of them or
  as in the answer: an old event undoes what the answer had right, and a later one
  redoes it. Once it applies newer ones, the item is as after the last of them. If
  events in between were missed, each part of it was true at some time. The two
  properties say what follows from this at one moment each; neither is inductive,
  because an update function reads what an older event left.
- `SwapInv`: what the goroutine is about to swap in was computed from the response
  that is there, since the CompareAndSwap fails otherwise.
- `LogInv`: the events say what has changed (`After`), which the update functions
  rely on.
- `ShortInv`: an answer that a reader holds is what the server has, or the last change
  or event came after the request; so a stored one is right or will expire in time.
- `QueryInv`: readers of the user groups cache only what has no query.

What an update function does to one item is a lemma per form of event.

## WorkerSubscriptions

### State and actions

`start` is the process (`cmd/campusbot/main.go`, `run`): `ListPublic`,
`ListSubscribed`, `SubscribeMain` (`SyncPublicChannelSubscriptions`), then
`ListMain` and `SubscribeWorkers` (`SyncWorkerSubscriptions`); any failure ends it
and it starts again. `sync` is the goroutine of
`StartWorkerSubscriptionSyncQueue`: `RegisterQueue`, `SkipEvent`, `CopyEvent`,
`QueueFails`. `nextIdx` and `mu` belong to `next`, which lookups of all goroutines use
(`Lock`, `Unlock`). `status`, `name`, `main` and `worker` are Zulip: subscriptions
are made by *name*, and a name that no channel has makes a new one (`strays`). An event
has all channels of the request that caused it, and the goroutine copies them in one
request (`CopyTo`). A failed request did nothing, or was carried out with its answer lost, or
only for the channels that the main account may add others to (line 428).

### Run

`workers`: 2 channels of which 1 is public, 2 workers, 2 callers, 3 lookups, 2 changes, 1 fault, 1
restart. A public channel the main account is to be put into and a private one it
is not are the two kinds that the code tells apart. Two changes are enough for a
channel that is joined and renamed before the copy; three lookups for the index to wrap.

- `OnlyOvertaken`: copying makes a channel only under a name that was lost between
  list or event and request, never afterwards.
- `TakeTurns`: no worker is more than one lookup ahead of another.
- `Copied` (liveness): the workers come into every channel of the main account, unless
  it was missed.

Fairness is weak fairness of the start and of the goroutine, as above. A finished
instance stops: deadlock is not checked.

Known limits, in the ghost `missed`, which `ListMain` clears, so that what the copy at start
leaves out is seen by `Copied`: channels that the main account came into while no queue was
registered (between the list and the first queue, or between two, line 351), or whose event a failing queue still had; the
channels of an event whose request failed, for all workers (line 428); those that a list
or event calls by an outdated name, which creates a stray channel (line 299); those
that were archived; and those that others took a worker out of. Nothing copies
them before the next start.

### Proofs

`WorkerSubscriptionsProofs` proves `TypeCorrect`, `TurnsAlways` (`TakeTurns`) and
`NothingBroughtBack` (`OnlyOvertaken`) for any number of channels, workers, callers and
any bounds. `WorkersAssumption` asks for at least one worker, that public channels
are channels, and that no caller is named like the free mutex.

- `TurnInv` relates the uses of every worker to those of the last one: they are equal,
  or one more for workers that come before the index. While the mutex is held the
  worker at the index has had its lookup already. `TakeTurns` alone allows
  distributions from which a lookup would break it.
- `NamesInv`: what was listed, is in an event or was made by a request has a
  name that is not newer than its channel's; the
  channels made by mistake (`strays`) and the names that nothing pending can bring back
  (`settled`) are disjoint. Names only grow, so a lost name is not used again.

## CommandDispatch

### State and actions

`GroupCommands` has the handlers. `rows` and `folder` are the channel groups, `mapping`
the table `emoji_group_mappings`, `ann` the row of `announcement_state`, `configured`
whether the announcement's target is configured. `role`, `ug`, `members`, `chan` and
`posts` are Zulip: roles, user groups, members, channels ("emptied" is open, with its
subscribers gone) and announcements with the bot's reactions. `job` is the command in hand, with
its place in the handler.

`CommandDispatch` has the rest: `chain` is the message, chosen segment by segment
with its operators; `succeeded` is `previousSucceeded` of `dispatchChain`.

| Code | Actions |
|---|---|
| `dispatchChain`, `shouldDispatchChained` | `Message`, `Skip`, `Reply` |
| `dispatchOne`, `authorizeCommand`, `authorizeArgSpec` | `DispatchOne`, `DispatchRefused`, `RoleUnavailable`, `DispatchStatic` |
| `handleCreate`, `createChannelGroup`, `reuseArchivedChannelGroup` | `CreateRefused`, `CreateGroup`, `CreateGroupFails`, `UpsertMapping`, `UpsertFails` |
| `handleMappingSet`, `handleMappingDisable` | `SetRefused`, `SetImports`, `UpsertMapping`, `UpsertFails`, `DisableRefused`, `DisableMapping` |
| `handleRemove`, `unsubscribeAllAndArchive`, channel archive | `RemoveRefused`, `RemoveBegins`, `ArchiveBegins`, `UnsubscribeAll`, `UnsubscribeUnanswered`, `ArchiveChannel`, `ArchiveFails`, `Archived`, `DeleteGroup`, `DeleteGroupHalf`, `DeleteMapping` and their failures |
| `triggerAnnouncementUpdate`, `runAnnounce`, `ensureAnnouncement`, `syncAnnouncementReactions` | `AnnounceBegins`, `NoTarget`, `ReadMappings`, `SendAnnouncement`, `EditAnnouncement`, `EditRefused`, `SaveAnnouncementState`, `SyncReactions`, `AnnouncingFails` |
| `DeleteChannelGroup` within these | `DeleteChannelGroup`, `DeleteChannelGroupStops` |
| subscribe, unsubscribe, channels, folders, channel create | `Subscribe`, `Unsubscribe`, `AddChannel`, `RemoveChannel`, `CreateChannel`, `AddCreatedChannel`, `ModifyFolder`, `NewChannel` |
| `handleReaction` | `HandleReaction` |

Between the steps of a handler roles change, administrators archive user groups, the
listener deletes rows, and the process crashes. A request that fails may have been carried
out and its answer lost: subscribers are out (`UnsubscribeUnanswered`), the channel is archived
(`ArchiveFails`), the user group is active or archived (`CreateGroupFails`,
`DeleteChannelGroupStops`), members, channels and folders of a group have changed (`FinishUnsure`). For the
sending and editing of the announcement, failure before and after is told apart by
the place `record`.

Abstracted: `group remove -f` takes the channels out of the folder before it archives
them (`group.go:518`), which nothing here reads; the list of subscribers and the
request that takes them out are one step; a group is named like its id, so two groups never have one name;
creating or deleting a group and changing its members, channels or folder is one
step; parameters that name nothing are refused like unknown groups; others archive
user groups and do not activate them; the announcement's text is the set of names
and emojis it shows. The second role check in the handlers (`HandlerDenied`) is reached
only when the role changes between dispatch and handler.

### Run

`commands`: 2 groups, 2 emojis, 1 channel, 1 user, the roles owner and member,
2 commands in at most 3 segments, and 1 event, which is a failure, a crash, a
reaction or a change by others. It starts with any groups that `group create` has
made, announced or not. Two groups and emojis are the least for a clash of emojis
and for a name that stands for another group. Two commands are a change and the
chain, announcement or other change that follows it; three segments allow one that is passed
over between two that run. One event can fall at any place; what needs two, such
as a failing undo after a failure, is a choice of the step that fails. Groups and
emojis are interchangeable and no liveness is checked: a message's steps are bounded.
Deadlock is not checked for the same reason.

- `ChainStops`: which commands of a chain run.
- `AdminOnly`: what only administrators may change changes only for one who was
  administrator since that command's turn.
- `Announced`, `OneAnnouncement`: the announcement shows the enabled mappings, and
  there is one.
- `EmojiUnique`, `MappingsHaveRows`: an emoji stands for one group that is there.
- `NobodyStranded`: nobody loses a channel that stays open.
- `ReactionsAsShown`: a reaction makes nobody a member of a group that is not shown.

### What the properties leave out, and why

- `group mapping set A @B :x:` passes over A's mapping although it maps B
  (line 1175), and afterwards A and B share an emoji (`aliased`).
- An announcement that is sent and not recorded is sent again (`doubled`); one that
  is edited and not recorded is taken for up to date when the mappings return to
  what the old hash stands for (`torn`).
- A failing update of the announcement is logged, and the command succeeds (`behind`):
  the next update repairs it. So does one after the listener has deleted a row, which
  updates nothing itself.
- A crash within archiving, a restoration that fails, or an unsubscribing whose
  answer is lost (`channel.go:194`, which returns at once) leaves a channel
  without subscribers (`excused`).

Other limits met while modelling, which no property is about: `config set` succeeds
for the chain even when it refuses its value (`bot.go:690`); after `restart` in a chain
later segments still run, since the restart follows the answer; a recorded
announcement that was deleted or is another sender's fails every update until
`set-message` (`group.go:1871`); `group announce` refuses while a mapping has no group
and advises to disable it, which cannot find the group (`group.go:1312`); chain
operators are recognised inside mentions (`parser.go:164`).

### Proofs

`CommandDispatchProofs` proves all properties of the run, for any groups, emojis,
channels, users, roles and bounds. The assumptions (`CommandsAssumption`,
`DispatchAssumption`, and that `Nil` differs from the values it stands in for) say
only that names are different.

| Theorem | Property | Inductive invariant |
|---|---|---|
| `TypeCorrect` | `TypeOK` | `TypeInv`, with the places a command can be at (`PlaceInv`) |
| `EmojisAreUnique` | `EmojiUnique` | `MapInv`: the emoji a command is about to map is no other group's |
| `MappingsKeepGroups` | `MappingsHaveRows` | `RowsInv`: but for the group whose mapping is about to go, after its row |
| `NobodyLosesAChannel` | `NobodyStranded` | `ChannelsInv`: an emptied channel is the one in hand, and its subscribers will be restored |
| `AnnouncedOnce` | `OneAnnouncement` | `PostsInv`: what was sent is about to be recorded |
| `AnnouncementIsRight` | `Announced` | `ShownInv`: the recorded hash is the text of the announcement, and a command that publishes has read the mappings as they are |
| `OnlyAdministrators` | `AdminOnly` | `AdminInv`: a command past its check had an administrator as sender |
| `ReactionsFollowAnnouncement` | `ReactionsAsShown` | none: it is about one step |
| `ChainsStop` | `ChainStops` | `ChainInv`: the outcomes so far of a chain of one operator |

`MapInv` and `RowsInv` carry a check over the steps in which others change what it
was about: no command but the one in hand maps an emoji, and what deletes rows
meanwhile is in the ghost `excused`. `ChainInv` says that all outcomes but the last
agree, the last too while a command runs: `ChainStops` looks back at finished
chains, so it does not say why the next segment is skipped.

## What stays with TLC

- All liveness (`EventsSettle`, `RestartsSettle`, `EveryCallReturns`, `DeadGoes`,
  `Copied`): fairness and ENABLED are beyond the prover.
- The two findings about `BotEventLoop`, being counterexamples.

Everything else that a passing run checks is also a theorem, under the conditions
named with it: one caller, or one group and no failure, for what subscriptions look
like when the calls on channel groups have returned.

## Not modelled

- Storage and migrations (`internal/sqlitemigrate`, `internal/zulipbot/storage`):
  a schema change is one transaction at start; nothing runs beside it. The
  statements themselves are steps of the other modules.
- Client generator (`generate_client.go`): it runs at build time.
- The mock of Zulip (`internal/zulipmock`) is test code. Its behaviour is modelled
  where a module needs the server's (folders, subscriptions, events); most of its
  2,400 lines are HTTP routes and JSON.
- Command language: tokens, mentions, quoting and the parsing of arguments. It is
  a pure function of the text; what it yields, a chain with operators and requests,
  is enumerated.
- Configuration: that the announcement's target is set is modelled; other keys,
  formats and the listing are not. Rows are written and read one at a time.
- Texts (help, lists, the wording of answers and errors), logging, the typing
  indicator, the download of a release (one step that may fail), and the loading of
  worker credentials.
- `channel folder add` and `remove`, which move one channel as anybody may
  (`ChannelMoves`).

## Plan

Modelled, in this order: `BotEventLoop` with `CommandDelivery`,
`ChannelGroupMembership`, `ResponseCache`, `ChannelGroupLifecycle` with
`ChannelFolders`, `WorkerSubscriptions`, `CommandDispatch` with `GroupCommands`.

Left to prove: what overlapping calls leave behind when one of them fails, which no
run promises beyond types, locks and deleted groups.

Left to model: a composition of event loop and `CommandDispatch`, where a message
that comes again after a crash runs its chain again.
