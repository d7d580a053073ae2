------------------------ MODULE WorkerSubscriptions ------------------------
(* Package zuliproundrobin: lookups go to worker accounts in turn, and the
   workers have to be in the channels that the main account is in. They are
   copied when the process starts (cmd/campusbot: SyncPublicChannelSubscriptions,
   then SyncWorkerSubscriptions) and from then on by a goroutine with an event
   queue for the subscriptions of the main account.

   Channels are subscribed to by name. A name that no channel has is a new
   channel for Zulip, so a list must not be older than the names in it. *)
EXTENDS Integers, Sequences

CONSTANTS
  Channels,
  Public,       \* those that are public
  NWorkers,     \* workers are 0..NWorkers - 1, as in Client.workers
  Callers,      \* goroutines that look something up
  MaxLookups,   \* bound on the lookups
  MaxChanges,   \* bound on what others change
  MaxFaults,    \* bound on failing requests and queues
  MaxRestarts   \* bound on restarts

ASSUME WorkersAssumption ==
  /\ NWorkers \in Nat \ {0} /\ Public \subseteq Channels
  /\ "free" \notin Callers
  /\ MaxLookups \in Nat /\ MaxChanges \in Nat
  /\ MaxFaults \in Nat /\ MaxRestarts \in Nat

VARIABLES
  status,    \* each channel: "active", "archived" or "gone"
  name,      \* its name: how often it was renamed
  main,      \* the channels the main account is in
  worker,    \* ... and each worker
  log,       \* the events about the main account's subscriptions
  strays,    \* channels that were created by mistake, as the items asked for
  settled,   \* items that lost their channel when nobody was to ask for them
  missed,    \* channels that the goroutine will not copy
  start,     \* the process: its place, and the list it has read
  sync,      \* the goroutine: its place, and the events it has handled
  nextIdx,   \* Client.nextIdx
  mu,        \* the caller that holds Client.mu, or "free"
  uses,      \* lookups per worker
  count      \* what the bounds count

zulip == <<status, name, main, worker, log, strays, settled>>
robin == <<nextIdx, mu, uses>>
vars == <<zulip, missed, start, sync, robin, count>>

Workers == 0..NWorkers - 1
Active == {c \in Channels : status[c] = "active"}
Item(c) == [channel |-> c, name |-> name[c]]
Items(cs) == {Item(c) : c \in cs}
ChannelsOf(items) == {i.channel : i \in items}
Current(i) == status[i.channel] # "gone" /\ name[i.channel] = i.name
Everywhere(c) == \A w \in Workers : c \in worker[w]

Down == [at |-> "down"]
Off == [at |-> "off"]

Init ==
  /\ status = [c \in Channels |-> "active"]
  /\ name = [c \in Channels |-> 0]
  /\ main \in SUBSET Channels
  /\ worker = [w \in Workers |-> {}]
  /\ log = <<>>
  /\ strays = {} /\ settled = {} /\ missed = {}
  /\ start = Down
  /\ sync = Off
  /\ nextIdx = 0 /\ mu = "free"
  /\ uses = [w \in Workers |-> 0]
  /\ count = [lookups |-> 0, changes |-> 0, faults |-> 0, restarts |-> 0]

Counted(what, bound) ==
  /\ count[what] < bound
  /\ count' = [count EXCEPT ![what] = @ + 1]
Fault == Counted("faults", MaxFaults)

-----------------------------------------------------------------------------
(* Zulip, external. Others change channels and subscriptions. *)

(* One event for all channels of a request. *)
Event(op, cs) == Append(log, [op |-> op, items |-> Items(cs)])

Other == UNCHANGED <<strays, start, sync, robin>>

(* What the events to come ask for, *)
Coming ==
  IF sync.at = "consume"
  THEN UNION {log[n].items : n \in {m \in sync.cursor + 1..Len(log) : log[m].op = "add"}}
  ELSE {}

(* and the list that was read. *)
Pending == (IF start = Down THEN {} ELSE start.items) \cup Coming
Settle(c) == settled' = settled \cup ({Item(c)} \ Pending)

(* Nobody hears of it while no queue is registered. *)
MainAdded(cs) ==
  /\ Counted("changes", MaxChanges)
  /\ cs \subseteq Active \ main
  /\ main' = main \cup cs
  /\ log' = Event("add", cs)
  /\ missed' = IF sync.at = "consume" THEN missed \ cs ELSE missed \cup cs
  /\ Other /\ UNCHANGED <<status, name, worker, settled>>

MainRemoved(c) ==
  /\ Counted("changes", MaxChanges)
  /\ c \in main
  /\ main' = main \ {c}
  /\ log' = Event("remove", {c})
  /\ Other /\ UNCHANGED <<status, name, worker, settled, missed>>

WorkerRemoved(w, c) ==
  /\ Counted("changes", MaxChanges)
  /\ c \in worker[w]
  /\ worker' = [worker EXCEPT ![w] = @ \ {c}]
  /\ missed' = missed \cup {c}
  /\ Other /\ UNCHANGED <<status, name, main, log, settled>>

Rename(c) ==
  /\ Counted("changes", MaxChanges)
  /\ c \in Active
  /\ name' = [name EXCEPT ![c] = @ + 1]
  /\ Settle(c)
  /\ Other /\ UNCHANGED <<status, main, worker, log, missed>>

Delete(c) ==
  /\ Counted("changes", MaxChanges)
  /\ c \in Active
  /\ status' = [status EXCEPT ![c] = "gone"]
  /\ main' = main \ {c}
  /\ worker' = [w \in Workers |-> worker[w] \ {c}]
  /\ log' = IF c \in main THEN Event("remove", {c}) ELSE log
  /\ Settle(c)
  /\ Other /\ UNCHANGED <<name, missed>>

(* Subscribers of an archived channel stay; activating it sends none of the
   events that are copied. *)
Archive(c) ==
  /\ Counted("changes", MaxChanges)
  /\ status[c] # "gone"
  /\ status' = [status EXCEPT ![c] = IF @ = "active" THEN "archived" ELSE "active"]
  /\ missed' = IF status[c] = "archived" THEN missed \cup {c} ELSE missed
  /\ Other /\ UNCHANGED <<name, main, worker, log, settled>>

(* Subscribing to names creates the channels that are not there. *)
Created(items) == strays' = strays \cup {i \in items : ~Current(i)}
Found(items) == {i.channel : i \in {j \in items : Current(j)}} \cap Active

-----------------------------------------------------------------------------
(* The process starts: run in cmd/campusbot. A failing request, carried out or not,
   ends it. *)

Goto(at, items) == start' = [at |-> at, items |-> items]
Exit == Fault /\ start' = Down
Starting == UNCHANGED <<status, name, settled, sync, robin>>

Start ==
  /\ start = Down
  /\ Goto("public_list", {})
  /\ Starting /\ UNCHANGED <<main, worker, log, strays, missed, count>>

(* SyncPublicChannelSubscriptions: the channels, what the main account is in
   already, and one request for the rest. *)
ListPublic ==
  /\ start.at = "public_list"
  /\ \/ Goto("public_subs", Items(Public \cap Active)) /\ UNCHANGED count
     \/ Exit
  /\ Starting /\ UNCHANGED <<main, worker, log, strays, missed>>

ListSubscribed ==
  /\ start.at = "public_subs"
  /\ \/ /\ Goto("public_subscribe", {i \in start.items : i.channel \notin main})
        /\ UNCHANGED count
     \/ Exit
  /\ Starting /\ UNCHANGED <<main, worker, log, strays, missed>>

SubscribeMain ==
  LET found == Found(start.items) \ main IN
  /\ start.at = "public_subscribe"
  /\ \/ /\ main' = main \cup found
        /\ log' = IF found = {} THEN log ELSE Event("add", found)
        /\ Created(start.items)
        /\ \/ Goto("worker_list", {}) /\ UNCHANGED count
           \/ start.items # {} /\ Exit
     \/ start.items # {} /\ Exit /\ UNCHANGED <<main, log, strays>>
  /\ Starting /\ UNCHANGED <<worker, missed>>

(* SyncWorkerSubscriptions: what the main account is in, without archived
   channels, for all workers in one request. *)
ListMain ==
  /\ start.at = "worker_list"
  /\ \/ Goto("worker_subscribe", Items(main \cap Active)) /\ UNCHANGED count
     \/ Exit
  /\ missed' = {}
  /\ Starting /\ UNCHANGED <<main, worker, log, strays>>

\* Mutant of CopyTo: only the first worker is a principal of the request.
CopyTo_First(items, unauthorized) ==
  /\ worker' = [worker EXCEPT ![0] = @ \cup (Found(items) \ unauthorized)]
  /\ Created(items)

(* Subscribes all workers in one request, but not to the channels that the main
   account is not authorized to add others to. *)
CopyTo(items, unauthorized) ==
  /\ worker' = [w \in Workers |-> worker[w] \cup (Found(items) \ unauthorized)]
  /\ Created(items)

SubscribeWorkers ==
  /\ start.at = "worker_subscribe"
  /\ \/ /\ CopyTo(start.items, {})
        /\ Goto("running", {})
        /\ sync' = [at |-> "register"]
        /\ missed' = missed \cup ChannelsOf({i \in start.items : ~Current(i)})
        /\ UNCHANGED count
     \/ Exit /\ UNCHANGED <<worker, strays, sync, missed>>
     \/ /\ \E cs \in SUBSET Found(start.items) : CopyTo(start.items, cs)
        /\ Exit /\ UNCHANGED <<sync, missed>>
  /\ UNCHANGED <<status, name, settled, main, log, robin>>

\* Mutant of Restart: the goroutine outlives the process context.
Restart_KeepsSync ==
  /\ start.at = "running"
  /\ Counted("restarts", MaxRestarts)
  /\ start' = Down
  /\ UNCHANGED <<zulip, missed, sync, robin>>

Restart ==
  /\ start.at = "running"
  /\ Counted("restarts", MaxRestarts)
  /\ start' = Down
  /\ sync' = Off
  /\ UNCHANGED <<zulip, missed, robin>>

StartStep ==
  Start \/ ListPublic \/ ListSubscribed \/ SubscribeMain \/ ListMain \/ SubscribeWorkers

-----------------------------------------------------------------------------
(* The goroutine: runWorkerSubscriptionSyncQueue. *)

Syncing == UNCHANGED <<status, name, settled, main, log, start, robin>>

(* The queue has the events from now on. *)
RegisterQueue ==
  /\ sync.at = "register"
  /\ \/ sync' = [at |-> "consume", cursor |-> Len(log)] /\ UNCHANGED count
     \/ Fault /\ UNCHANGED sync
  /\ Syncing /\ UNCHANGED <<worker, strays, missed>>

(* What a failed queue had is not copied. *)
QueueFails ==
  /\ sync.at = "consume"
  /\ Fault
  /\ sync' = [at |-> "register"]
  /\ missed' = missed \cup ChannelsOf(Coming)
  /\ Syncing /\ UNCHANGED <<worker, strays>>

HasEvent == sync.at = "consume" /\ sync.cursor < Len(log)
Done == [at |-> "consume", cursor |-> sync.cursor + 1]

(* Only new subscriptions are copied: a worker stays where the main account
   leaves. *)
SkipEvent ==
  /\ HasEvent
  /\ log[sync.cursor + 1].op # "add"
  /\ sync' = Done
  /\ Syncing /\ UNCHANGED <<worker, strays, missed, count>>

\* Mutant of CopyEvent: subscriptions of any kind of event are copied.
CopyEvent_AnyOp ==
  /\ HasEvent
  /\ CopyTo(log[sync.cursor + 1].items, {})
  /\ sync' = Done
  /\ Syncing /\ UNCHANGED <<missed, count>>

(* Any failure loses the event: a worker that cannot be asked for its id, the
   request, carried out or not, or the authorization for some channels. *)
CopyEvent ==
  LET items == log[sync.cursor + 1].items IN
  /\ HasEvent
  /\ log[sync.cursor + 1].op = "add"
  /\ sync' = Done
  /\ \/ /\ CopyTo(items, {})
        /\ missed' = missed \cup ChannelsOf({i \in items : ~Current(i)})
        /\ UNCHANGED count
     \/ /\ Fault
        /\ missed' = missed \cup ChannelsOf(items)
        /\ \/ UNCHANGED <<worker, strays>>
           \/ \E cs \in SUBSET Found(items) : CopyTo(items, cs)
  /\ Syncing

SyncStep == RegisterQueue \/ SkipEvent \/ CopyEvent

-----------------------------------------------------------------------------
(* next: who looks something up takes the worker whose turn it is. *)

LookingUp == UNCHANGED <<zulip, missed, start, sync>>

\* Mutant of Lock: nobody waits for the mutex.
Lock_Free(k) ==
  /\ mu # k
  /\ Counted("lookups", MaxLookups)
  /\ mu' = k
  /\ uses' = [uses EXCEPT ![nextIdx] = @ + 1]
  /\ LookingUp /\ UNCHANGED nextIdx

Lock(k) ==
  /\ mu = "free"
  /\ Counted("lookups", MaxLookups)
  /\ mu' = k
  /\ uses' = [uses EXCEPT ![nextIdx] = @ + 1]
  /\ LookingUp /\ UNCHANGED nextIdx

Unlock(k) ==
  /\ mu = k
  /\ mu' = "free"
  /\ nextIdx' = (nextIdx + 1) % NWorkers
  /\ LookingUp /\ UNCHANGED <<uses, count>>

Next ==
  \/ \E cs \in (SUBSET Channels) \ {{}} : MainAdded(cs)
  \/ \E c \in Channels :
       \/ MainRemoved(c) \/ Rename(c) \/ Delete(c) \/ Archive(c)
       \/ \E w \in Workers : WorkerRemoved(w, c)
  \/ StartStep \/ Restart \/ SyncStep \/ QueueFails
  \/ \E k \in Callers : Lock(k) \/ Unlock(k)

(* The process starts again and its goroutine runs; requests are answered. *)
Spec == Init /\ [][Next]_vars /\ WF_vars(StartStep) /\ WF_vars(SyncStep)

-----------------------------------------------------------------------------
(* Types; the goroutine runs only after the start has come to its end
   (StartWorkerSubscriptionSyncQueue). *)
TypeOK ==
  /\ status \in [Channels -> {"active", "archived", "gone"}]
  /\ main \subseteq Channels
  /\ worker \in [Workers -> SUBSET Channels]
  /\ \A c \in Channels : status[c] = "gone" => c \notin main /\ \A w \in Workers : c \notin worker[w]
  /\ missed \subseteq Channels
  /\ nextIdx \in Workers
  /\ mu \in {"free"} \cup Callers
  /\ sync # Off => start.at = "running"
  /\ sync.at = "consume" => sync.cursor \in 0..Len(log)

(* Copying creates a channel only under a name that its channel lost between the
   list or event and the request: a channel that is renamed or deleted when
   neither asks for it does not come back under that name, whatever lists and
   events follow (handleWorkerSubscriptionSyncEvent,
   SyncPublicChannelSubscriptions). *)
OnlyOvertaken == strays \cap settled = {}

(* The workers take turns: however lookups of several goroutines overlap, none of
   them gets more than one lookup ahead of another (next). *)
TakeTurns ==
  mu = "free" => \A v, w \in Workers : uses[v] <= uses[w] + 1

(* Once the bot runs, all workers come into every channel the main account is
   in, those it was in at the start and those it came into later, unless that
   was missed: it came into the channel while no queue was registered, the queue failed
   before the event was handled, or copying it failed, the name was outdated, others took a
   worker out, or the channel had been archived (SyncWorkerSubscriptions,
   handleWorkerSubscriptionSyncEvent). *)
Copied ==
  \A c \in Channels :
    start.at = "running" /\ c \in (main \cap Active) \ missed
      ~> \/ Everywhere(c) \/ c \notin main \cap Active \/ c \in missed
         \/ start.at # "running"
=============================================================================
