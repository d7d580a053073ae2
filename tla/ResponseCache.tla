--------------------------- MODULE ResponseCache ---------------------------
(* A response cache of the bot's Zulip client: package zulipcache, whose two
   caches (user groups and streams) follow one protocol. A reader is served the
   cached response while it is fresh, else it asks the server and stores the
   answer. A goroutine applies the events of a queue of its own to the cached
   response. Neither waits for the other: the response is one atomic pointer.

   Each definition stands for the same code of both caches; "map" names it in
   one of the two files. *)
EXTENDS Integers, Sequences, FiniteSets

CONSTANTS
  Items,        \* user groups or channels
  Parts,        \* what an item has or has not: a name, a member, a folder
  Readers,      \* goroutines that send GET requests
  TTL,          \* lifetime of a stored response, in ticks
  MaxLatency,   \* bound on the ticks a request takes
  MaxChanges,   \* bound on the changes at the server
  MaxFaults,    \* bound on failing requests and queues
  Nil           \* no response

ASSUME TimesAssumption == /\ TTL \in Nat \ {0}
                          /\ MaxLatency \in Nat
                          /\ MaxChanges \in Nat
                          /\ MaxFaults \in Nat

VARIABLES
  kind,    \* which of the two caches this is; never changes
  world,   \* the items at the server
  log,     \* the events of all changes so far
  state,   \* the cached response or Nil
  reader,  \* what each reader's request has come to
  queue,   \* the place of the cache's goroutine
  cursor,  \* the events it has handled or missed
  next,    \* the list it computed from the loaded response, or Nil
  held,    \* whether the loaded response is still the cached one
  quiet,   \* ticks since the last change or handled event
  faults

vars == <<kind, world, log, state, reader, queue, cursor, next, held, quiet,
          faults>>
server == <<kind, world, log>>
goroutine == <<queue, cursor, next>>

Kinds == {"user_groups", "streams"}
(* "active" asks for the items in use, "all" also for deactivated groups or
   archived channels *)
Queries == {"active", "all"}

Item == [st : {"absent", "inactive", "active"}, parts : SUBSET Parts]
Shown == [here : BOOLEAN, parts : SUBSET Parts]
Gone == [here |-> FALSE, parts |-> {}]

View(query, w) ==
  [i \in Items |-> IF w[i].st = "active" \/ (query = "all" /\ w[i].st = "inactive")
                   THEN [here |-> TRUE, parts |-> w[i].parts]
                   ELSE Gone]

(* The world when the first n events had been sent. *)
World(n) == IF n < Len(log) THEN log[n + 1].before ELSE world

Init ==
  /\ kind \in Kinds
  /\ world \in [Items -> {[st |-> "absent", parts |-> {}], [st |-> "active", parts |-> {}]}]
  /\ log = <<>>
  /\ state = Nil
  /\ reader = [r \in Readers |-> [at |-> "idle"]]
  /\ queue = "register"
  /\ cursor = 0
  /\ next = Nil
  /\ held = FALSE
  /\ quiet = 0
  /\ faults = 0

-----------------------------------------------------------------------------
(* Zulip, external: a change, and the event it sends. The form of the event is
   what the handlers tell apart. A group that is activated again is announced
   as new or as an update; a channel only as an update. A part changes by an
   event that says so, or by one the cache does not know. *)

Becomes(form, i, item) ==
  /\ Len(log) < MaxChanges
  /\ world' = [world EXCEPT ![i] = item]
  /\ log' = Append(log, [form |-> form, item |-> i, before |-> world, after |-> item])
  /\ quiet' = 0
  /\ UNCHANGED <<kind, state, reader, goroutine, held, faults>>

Change ==
  \E i \in Items :
    \/ \E p \in SUBSET Parts :
         /\ world[i].st = "absent"
         /\ Becomes("add", i, [st |-> "active", parts |-> p])
    \/ /\ world[i].st = "active"
       /\ Becomes("remove", i, [st |-> "absent", parts |-> {}])
    \/ \E form \in (IF kind = "user_groups" THEN {"remove", "deactivate"} ELSE {"deactivate"}) :
         /\ world[i].st = "active"
         /\ Becomes(form, i, [world[i] EXCEPT !.st = "inactive"])
    \/ \E form \in (IF kind = "user_groups" THEN {"add", "revive"} ELSE {"revive"}) :
         /\ world[i].st = "inactive"
         /\ Becomes(form, i, [world[i] EXCEPT !.st = "active"])
    \/ \E p \in Parts, form \in {"patch", "unsupported", "broken"} :
         /\ world[i].st = "active"
         /\ Becomes(form, i, [world[i] EXCEPT !.parts = (@ \ {p}) \cup ({p} \ @)])

(* Its request is under way. *)
Waiting(r) == reader[r].at \in {"asking", "answered"}

Tick ==
  /\ \A r \in Readers : Waiting(r) => reader[r].age < MaxLatency
  /\ quiet' = IF quiet < TTL + MaxLatency THEN quiet + 1 ELSE quiet
  /\ state' = IF state # Nil /\ state.left > 0
              THEN [state EXCEPT !.left = @ - 1] ELSE state
  /\ reader' = [r \in Readers |-> IF Waiting(r) THEN [reader[r] EXCEPT !.age = @ + 1]
                                  ELSE reader[r]]
  /\ UNCHANGED <<server, goroutine, held, faults>>

-----------------------------------------------------------------------------
(* The readers: RoundTrip. *)

\* Mutant of Fresh: a response is served whatever its age.
Fresh_Forever == state # Nil

Fresh == state # Nil /\ state.left > 0

\* Mutant of IsCacheableUserGroupsRequest: any query is as good as any other.
IsCacheableUserGroupsRequest_AnyQuery(query) == query \in Queries

IsCacheableUserGroupsRequest(query) == query = "active"
IsCacheableStreamsRequest(query) == query \in Queries
IsCacheable(query) == IF kind = "user_groups" THEN IsCacheableUserGroupsRequest(query)
                      ELSE IsCacheableStreamsRequest(query)

(* A hit is answered with the cached list, and changes nothing. *)
CachedBody(query) == IF IsCacheable(query) /\ Fresh THEN state.items ELSE Nil

(* cachedBody finds nothing to serve: no response, or an expired one, which it is
   about to drop. A request that is not cacheable touches nothing. *)
Ask(r, query) ==
  /\ reader[r].at = "idle"
  /\ IsCacheable(query) /\ CachedBody(query) = Nil
  /\ reader' = [reader EXCEPT ![r] = [at |-> IF state = Nil THEN "asking" ELSE "expired",
                                      query |-> query, age |-> 0, base |-> 0]]
  /\ UNCHANGED <<server, state, goroutine, held, quiet, faults>>

(* It drops what is there by then, be it a response stored in between. *)
DropExpired(r) ==
  /\ reader[r].at = "expired"
  /\ reader' = [reader EXCEPT ![r].at = "asking"]
  /\ state' = Nil /\ held' = FALSE
  /\ UNCHANGED <<server, goroutine, quiet, faults>>

(* The server answers with what it has. *)
Answer(r) ==
  /\ reader[r].at = "asking"
  /\ reader' = [reader EXCEPT ![r] = [@ EXCEPT !.at = "answered", !.base = Len(log)]]
  /\ UNCHANGED <<server, state, goroutine, held, quiet, faults>>

StoreResponse(r) ==
  LET resp == reader[r] IN
  /\ resp.at = "answered"
  /\ reader' = [reader EXCEPT ![r] = [at |-> "idle"]]
  /\ state' = [left |-> TTL, query |-> resp.query, base |-> resp.base,
                items |-> View(resp.query, World(resp.base)), from |-> cursor]
  /\ held' = FALSE
  /\ UNCHANGED <<server, goroutine, quiet, faults>>

(* The request fails: with an HTTP answer that cannot be stored, which
   invalidates, or with none. *)
RequestFails(r) ==
  /\ reader[r].at = "asking"
  /\ faults < MaxFaults
  /\ faults' = faults + 1
  /\ reader' = [reader EXCEPT ![r] = [at |-> "idle"]]
  /\ \/ state' = Nil /\ held' = FALSE
     \/ UNCHANGED <<state, held>>
  /\ UNCHANGED <<server, goroutine, quiet>>

-----------------------------------------------------------------------------
(* The goroutine: run, consumeQueue and the event handlers. *)

Upsert(items, e) == [items EXCEPT ![e.item] = [here |-> TRUE, parts |-> e.after.parts]]
Remove(items, i) == [items EXCEPT ![i] = Gone]
\* Mutant of Patch: the event is applied as a change, whatever is there.
Patch_Toggles(parts, e) ==
  LET old == e.before[e.item].parts
      d   == (old \ e.after.parts) \cup (e.after.parts \ old)
  IN  (parts \ d) \cup (d \ parts)

Patch(parts, e) ==
  LET old == e.before[e.item].parts
  IN  (parts \ (old \ e.after.parts)) \cup (e.after.parts \ old)

(* An update of an item that is not in the list changes nothing, an activation
   included. *)
UpdateUserGroup(items, e) ==
  LET i == e.item IN
  IF ~items[i].here THEN items
  ELSE CASE e.form = "deactivate" -> Remove(items, i)
         [] e.form = "patch"      -> [items EXCEPT ![i].parts = Patch(@, e)]
         [] OTHER                 -> items

UpdateStream(items, e) ==
  LET i == e.item IN
  CASE e.form = "deactivate"              -> Remove(items, i)
    [] e.form = "patch" /\ items[i].here  -> [items EXCEPT ![i].parts = Patch(@, e)]
    [] OTHER                              -> items

HandleEvent(items, e) ==
  CASE e.form = "add"    -> Upsert(items, e)
    [] e.form = "remove" -> Remove(items, e.item)
    [] OTHER -> IF kind = "user_groups" THEN UpdateUserGroup(items, e)
                ELSE UpdateStream(items, e)

(* An event that names no item or no operation invalidates; one with an unknown
   operation or property does if its item is in the list. *)
Invalidates(items, e) ==
  \/ e.form = "broken"
  \/ e.form = "unsupported" /\ items[e.item].here

\* Mutant of RegisterQueue: the first event of the queue is skipped.
RegisterQueue_SkipsOne ==
  /\ queue = "register"
  /\ queue' = "consume"
  /\ cursor' = Len(log) + 1
  /\ state' = IF state = Nil THEN Nil ELSE [state EXCEPT !.from = Len(log) + 1]
  /\ UNCHANGED <<server, reader, next, held, quiet, faults>>

RegisterQueue ==
  /\ queue = "register"
  /\ queue' = "consume"
  /\ cursor' = Len(log)
  /\ state' = IF state = Nil THEN Nil ELSE [state EXCEPT !.from = Len(log)]
  /\ UNCHANGED <<server, reader, next, held, quiet, faults>>

Handled ==
  /\ queue' = "consume"
  /\ cursor' = cursor + 1
  /\ quiet' = 0

(* mutate up to its CompareAndSwap. Without a fresh response there is nothing to
   change. *)
MutateLoad ==
  /\ queue \in {"consume", "retry"}
  /\ cursor < Len(log)
  /\ UNCHANGED <<server, reader, faults>>
  /\ LET e == log[cursor + 1] IN
     IF e.form = "broken" \/ ~Fresh
     THEN /\ state' = Nil /\ held' = FALSE
          /\ Handled
          /\ UNCHANGED next
     ELSE /\ next' = HandleEvent(state.items, e)
          /\ queue' = "swap"
          /\ IF Invalidates(state.items, e) THEN state' = Nil /\ held' = FALSE
                                            ELSE held' = TRUE /\ UNCHANGED state
          /\ UNCHANGED <<cursor, quiet>>

\* Mutant of MutateSwap: a list that comes too late is dropped with its event.
MutateSwap_NoRetry ==
  /\ queue = "swap"
  /\ IF held THEN state' = [state EXCEPT !.items = next] ELSE UNCHANGED state
  /\ Handled
  /\ next' = Nil
  /\ held' = FALSE
  /\ UNCHANGED <<server, reader, faults>>

(* The CompareAndSwap, which fails if the response was replaced or dropped since
   it was loaded. *)
MutateSwap ==
  /\ queue = "swap"
  /\ IF held
     THEN /\ state' = [state EXCEPT !.items = next]
          /\ Handled
     ELSE /\ queue' = "retry"
          /\ UNCHANGED <<state, cursor, quiet>>
  /\ next' = Nil
  /\ held' = FALSE
  /\ UNCHANGED <<server, reader, faults>>

QueueFails ==
  /\ queue \in {"register", "consume"}
  /\ faults < MaxFaults
  /\ faults' = faults + 1
  /\ queue' = "failed"
  /\ UNCHANGED <<server, state, reader, cursor, next, held, quiet>>

(* run: the response is dropped once the failed queue is closed and deleted. *)
InvalidateAfterFailure ==
  /\ queue = "failed"
  /\ queue' = "register"
  /\ state' = Nil
  /\ held' = FALSE
  /\ UNCHANGED <<server, reader, cursor, next, quiet, faults>>

CacheStep == RegisterQueue \/ MutateLoad \/ MutateSwap \/ InvalidateAfterFailure
ReaderStep(r) ==
  \/ \E query \in Queries : Ask(r, query)
  \/ DropExpired(r) \/ Answer(r) \/ StoreResponse(r) \/ RequestFails(r)

Next == Change \/ Tick \/ CacheStep \/ QueueFails \/ \E r \in Readers : ReaderStep(r)

Spec == Init /\ [][Next]_vars

-----------------------------------------------------------------------------
Snapshot == [left : 0..TTL, query : Queries, items : [Items -> Shown],
             base : Nat, from : Nat]

ASSUME NilAssumption == Nil \notin Snapshot

(* Types; what the goroutine loaded can only be a response that is there, and it
   never runs ahead of the events (UserGroups, userGroupsState). *)
TypeOK ==
  /\ kind \in Kinds
  /\ world \in [Items -> Item]
  /\ state = Nil \/ (state \in Snapshot /\ state.base <= Len(log))
  /\ queue \in {"register", "consume", "swap", "retry", "failed"}
  /\ cursor \in 0..Len(log)
  /\ IF queue = "swap" THEN next \in [Items -> Shown] ELSE next = Nil
  /\ held \in BOOLEAN /\ (held => state # Nil /\ queue = "swap")
  /\ quiet \in 0..(TTL + MaxLatency)
  /\ faults \in 0..MaxFaults

Revived(i) == \E n \in 1..Len(log) : log[n].form = "revive" /\ log[n].item = i
MinOf(a, b) == IF a < b THEN a ELSE b
MaxOf(a, b) == IF a > b THEN a ELSE b

(* Events that are older than the response are applied to it, and those it
   missed are not. Even so, whatever it says of an item, that it is there or that
   it has a part, was true at the server between the time of its answer and that
   of the last event handled: events put no item and no part together that never
   were (mutate, the update functions). Items activated by an update are left
   out, see CaughtUp. *)
NothingInvented ==
  state # Nil /\ state.query = "active" =>
    \A i \in Items :
      LET then == {View("active", World(n))[i] :
                     n \in MinOf(state.base, cursor)..MaxOf(state.base, cursor)}
      IN  \/ Revived(i)
          \/ /\ \E x \in then : x.here = state.items[i].here
             /\ \A p \in Parts : \E x \in then : (p \in x.parts) = (p \in state.items[i].parts)

(* Once the goroutine has handled every event, the response is what the server
   would answer, whatever older events were applied to it and whatever was
   stored in between, provided no event it needed was missed: the one thing that
   loses an update is a response stored after an event that is newer than it
   (from > base). An update never brings an item back into the list, so
   items activated by an update are left out. *)
CaughtUp ==
  state # Nil /\ state.query = "active" /\ queue = "consume"
    /\ cursor = Len(log) /\ state.from <= state.base =>
      \A i \in Items : Revived(i) \/ state.items[i] = View("active", world)[i]

(* Nothing stays wrong for long: when for the lifetime of a response and the
   time of a request no item changed and no event was handled, a hit is the
   truth, whatever events were lost, late or ignored (cachedBody,
   storeResponse). *)
StaleIsShort ==
  Fresh /\ quiet = TTL + MaxLatency => state.items = View(state.query, world)

(* A reader is never given the answer to another question. The streams cache
   does not look at the query of a request, so this is said of user groups only
   (isCacheableUserGroupsRequest). *)
AnswersItsQuery ==
  kind = "user_groups" =>
    \A query \in Queries : CachedBody(query) # Nil => state.query = query
=============================================================================
