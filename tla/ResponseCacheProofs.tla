------------------------ MODULE ResponseCacheProofs ------------------------
(* Proofs about ResponseCache, for any items, parts and readers, any lifetime of
   a response, latency of a request, changes and faults: the types, and what a
   cached response can say of the items, however its readers, its goroutine and
   the changes at the server interleave. *)
EXTENDS ResponseCache, SequenceTheorems, TLAPS

Forms == {"add", "remove", "deactivate", "revive", "patch", "unsupported", "broken"}
AnyEvent == [form : Forms, item : Items, before : [Items -> Item], after : Item]
Idle == [at |-> "idle"]
Pending == [at : {"expired", "asking", "answered"}, query : Queries, age : 0..MaxLatency,
            base : Nat]

LogType == log \in Seq(AnyEvent)
ReaderType ==
  /\ reader \in [Readers -> {Idle} \cup Pending]
  /\ \A r \in Readers : reader[r] = Idle \/ reader[r].base <= Len(log)

TypeInv ==
  /\ TypeOK
  /\ LogType
  /\ ReaderType

-----------------------------------------------------------------------------
(* What the log says of the changes. *)

After(e) == [e.before EXCEPT ![e.item] = e.after]

Plausible(e) ==
  /\ e.form = "add" => e.after.st = "active"
  /\ e.form \in {"remove", "deactivate"} => e.after.st # "active"
  /\ e.form \in {"patch", "unsupported", "broken"} =>
       e.before[e.item].st = "active" /\ e.after.st = "active"

LogInv == \A n \in 1..Len(log) : Plausible(log[n]) /\ World(n) = After(log[n])

(* One item, as a list of the items in use has it after n events. *)
Trace(i) == [n \in 0..Len(log) |-> View("active", World(n))[i]]

(* What the list says of an item, x, when its trace is t and the goroutine has
   handled c events. The response is b events old, and the goroutine had handled f
   of them when it was stored.
   While older events are applied, the item is as it was after the last of them or
   as it was in the answer; once they all were, as it was after the last of them;
   and if some that are newer were missed, it is a mixture. *)
Follows(x, t, c, b, f) ==
  /\ x.here \/ x.parts = {}
  /\ c <= b =>
       /\ x.here = t[c].here \/ x.here = t[b].here
       /\ \A p \in Parts : \/ p \in x.parts <=> p \in t[c].parts
                           \/ p \in x.parts <=> p \in t[b].parts
  /\ c > b /\ f <= b => x = t[c]
  /\ c > b => /\ \E n \in b..c : t[n].here = x.here
              /\ \A p \in Parts : \E n \in b..c : (p \in t[n].parts) = (p \in x.parts)

(* The response follows the events; until the queue is registered it is as it
   was stored. *)
TrackInv ==
  state # Nil =>
    /\ state.from <= cursor
    /\ queue = "register" => state.items = View(state.query, World(state.base))
    /\ state.query = "active" =>
         \A i \in Items : \/ Revived(i)
                          \/ Follows(state.items[i], Trace(i), cursor, state.base, state.from)

(* What the goroutine has computed, it has computed from the cached response. *)
SwapInv ==
  /\ queue \in {"swap", "retry"} => cursor < Len(log)
  /\ held => /\ next = HandleEvent(state.items, log[cursor + 1])
             /\ ~Invalidates(state.items, log[cursor + 1])

(* A response, and an answer that is not stored yet, is what the server has, or
   there was a change or an event handled since the request. *)
ShortInv ==
  /\ \A r \in Readers :
       reader[r].at = "answered" => reader[r].base = Len(log) \/ quiet <= reader[r].age
  /\ Fresh => \/ state.base = Len(log) /\ state.items = View(state.query, world)
              \/ quiet + state.left <= TTL + MaxLatency

QueryInv ==
  kind = "user_groups" =>
    /\ \A r \in Readers : reader[r].at # "idle" => reader[r].query = "active"
    /\ state # Nil => state.query = "active"

-----------------------------------------------------------------------------
LEMMA LogFacts ==
  ASSUME LogType
  PROVE  /\ Len(log) \in Nat /\ DOMAIN log = 1..Len(log)
         /\ \A n \in 1..Len(log) : log[n] \in AnyEvent
BY ElementOfSeq, LenProperties DEF LogType

LEMMA WorldType ==
  ASSUME LogType, world \in [Items -> Item], NEW n \in Nat, n <= Len(log)
  PROVE  World(n) \in [Items -> Item]
<1>1. CASE n < Len(log)
  <2>1. log[n + 1] \in AnyEvent
    BY <1>1, LogFacts
  <2>2. QED
    BY <1>1, <2>1 DEF World, AnyEvent
<1>2. CASE n >= Len(log)
  BY <1>2, LogFacts DEF World
<1>3. QED
  BY <1>1, <1>2, LogFacts

LEMMA ViewType ==
  ASSUME NEW query \in Queries, NEW w \in [Items -> Item]
  PROVE  /\ View(query, w) \in [Items -> Shown]
         /\ \A i \in Items : View(query, w)[i].here \/ View(query, w)[i].parts = {}
BY DEF View, Gone, Shown, Item

LEMMA AfterType ==
  ASSUME NEW e \in AnyEvent
  PROVE  After(e) \in [Items -> Item]
BY DEF After, AnyEvent

LEMMA HandleType ==
  ASSUME kind \in Kinds, NEW items \in [Items -> Shown], NEW e \in AnyEvent
  PROVE  HandleEvent(items, e) \in [Items -> Shown]
<1>1. e.item \in Items /\ e.after \in Item /\ e.before[e.item] \in Item
  BY DEF AnyEvent
<1>2. Upsert(items, e) \in [Items -> Shown]
  BY <1>1 DEF Upsert, Shown, Item
<1>3. Remove(items, e.item) \in [Items -> Shown]
  BY <1>1 DEF Remove, Gone, Shown
<1>4. [items EXCEPT ![e.item].parts = Patch(@, e)] \in [Items -> Shown]
  <2>1. Patch(items[e.item].parts, e) \in SUBSET Parts
    BY <1>1 DEF Patch, Shown, Item
  <2>2. QED
    BY <1>1, <2>1 DEF Shown
<1>5. QED
  BY <1>2, <1>3, <1>4 DEF HandleEvent, UpdateUserGroup, UpdateStream

(* What a change at the server keeps. *)
LEMMA ChangeFacts ==
  ASSUME TypeInv, Change
  PROVE  \E e \in AnyEvent :
           /\ Plausible(e) /\ e.before = world
           /\ world' = After(e) /\ log' = Append(log, e)
           /\ quiet' = 0
           /\ UNCHANGED <<kind, state, reader, goroutine, held, faults>>
<1>1. ASSUME NEW i \in Items, NEW form \in Forms, NEW item \in Item, Becomes(form, i, item),
             form = "add" => item.st = "active",
             form \in {"remove", "deactivate"} => item.st # "active",
             form \in {"patch", "unsupported", "broken"} =>
               world[i].st = "active" /\ item.st = "active"
      PROVE  \E e \in AnyEvent :
               /\ Plausible(e) /\ e.before = world
               /\ world' = After(e) /\ log' = Append(log, e)
               /\ quiet' = 0
               /\ UNCHANGED <<kind, state, reader, goroutine, held, faults>>
  <2> DEFINE e == [form |-> form, item |-> i, before |-> world, after |-> item]
  <2>1. e \in AnyEvent
    BY DEF AnyEvent, TypeInv, TypeOK
  <2>2. Plausible(e) /\ world' = After(e) /\ log' = Append(log, e)
    BY <1>1 DEF Plausible, After, Becomes
  <2>3. QED
    BY <1>1, <2>1, <2>2 DEF Becomes
<1>2. PICK i \in Items :
    \/ \E p \in SUBSET Parts :
         /\ world[i].st = "absent"
         /\ Becomes("add", i, [st |-> "active", parts |-> p])
    \/ /\ world[i].st = "active"
       /\ Becomes("remove", i, [st |-> "absent", parts |-> {}])
    \/ \E form \in {"remove", "deactivate"} :
         /\ world[i].st = "active"
         /\ Becomes(form, i, [world[i] EXCEPT !.st = "inactive"])
    \/ \E form \in {"add", "revive"} :
         /\ world[i].st = "inactive"
         /\ Becomes(form, i, [world[i] EXCEPT !.st = "active"])
    \/ \E p \in Parts, form \in {"patch", "unsupported", "broken"} :
         /\ world[i].st = "active"
         /\ Becomes(form, i, [world[i] EXCEPT !.parts = (@ \ {p}) \cup ({p} \ @)])
  BY DEF Change
<1>3. world[i] \in Item
  BY DEF TypeInv, TypeOK
<1>4. QED
  BY <1>1, <1>2, <1>3 DEF Item, Forms

(* A change adds one event, and what was before stays in the log. *)
LEMMA GrownLog ==
  ASSUME LogType, world \in [Items -> Item], NEW e \in AnyEvent, e.before = world,
         log' = Append(log, e)
  PROVE  /\ LogType' /\ Len(log)' = Len(log) + 1
         /\ \A n \in 1..Len(log) : log[n]' = log[n]
         /\ log'[Len(log) + 1] = e
         /\ \A n \in Nat : n <= Len(log) => World(n)' = World(n)
         /\ \A n \in Nat : n > Len(log) => World(n)' = world'
<1>1. /\ Len(log) \in Nat /\ log' \in Seq(AnyEvent) /\ Len(log') = Len(log) + 1
      /\ \A n \in 1..Len(log) : log'[n] = log[n]
      /\ log'[Len(log) + 1] = e
  BY LogFacts, AppendProperties DEF LogType
<1>2. ASSUME NEW n \in Nat, n <= Len(log)
      PROVE  World(n)' = World(n)
  <2>1. n + 1 \in Nat /\ n < Len(log')
    BY <1>1, <1>2
  <2>2. CASE n < Len(log)
    <3>1. n + 1 \in 1..Len(log)
      BY <1>1, <2>2
    <3>2. QED
      BY <1>1, <2>1, <2>2, <3>1 DEF World
  <2>3. CASE n = Len(log)
    BY <1>1, <2>1, <2>3 DEF World
  <2>4. QED
    BY <1>1, <1>2, <2>2, <2>3
<1>3. ASSUME NEW n \in Nat, n > Len(log)
      PROVE  World(n)' = world'
  <2>1. ~(n < Len(log'))
    BY <1>1, <1>3
  <2>2. QED
    BY <2>1 DEF World
<1>4. QED
  BY <1>1, <1>2, <1>3 DEF LogType

-----------------------------------------------------------------------------
(* Types. *)

LEMMA InitTypes == Init => TypeInv
<1> SUFFICES ASSUME Init
             PROVE  TypeInv
  OBVIOUS
<1>1. log = <<>> /\ Len(log) = 0 /\ log \in Seq(AnyEvent)
  BY DEF Init
<1>2. world \in [Items -> Item]
  BY DEF Init, Item
<1>3. ReaderType
  BY DEF Init, ReaderType, Idle
<1>4. quiet \in 0..(TTL + MaxLatency) /\ faults \in 0..MaxFaults /\ cursor \in 0..Len(log)
  BY <1>1, TimesAssumption DEF Init
<1>5. QED
  BY <1>1, <1>2, <1>3, <1>4 DEF Init, TypeInv, TypeOK, LogType

LEMMA ChangeTypes == TypeInv /\ Change => TypeInv'
<1> SUFFICES ASSUME TypeInv, Change
             PROVE  TypeInv'
  OBVIOUS
<1>1. PICK e \in AnyEvent :
        /\ e.before = world /\ world' = After(e) /\ log' = Append(log, e)
        /\ quiet' = 0
        /\ UNCHANGED <<kind, state, reader, goroutine, held, faults>>
  BY ChangeFacts
<1>2. LogType' /\ Len(log') = Len(log) + 1 /\ Len(log) \in Nat
  BY <1>1, GrownLog, LogFacts DEF TypeInv, TypeOK
<1>3. world' \in [Items -> Item]
  BY <1>1, AfterType
<1>4. state' = Nil \/ (state' \in Snapshot /\ state'.base <= Len(log'))
  BY <1>1, <1>2 DEF TypeInv, TypeOK, Snapshot
<1>5. ReaderType'
  BY <1>1, <1>2 DEF TypeInv, ReaderType, Pending, Idle
<1>6. QED
  BY <1>1, <1>2, <1>3, <1>4, <1>5, TimesAssumption DEF TypeInv, TypeOK, goroutine

LEMMA TickTypes == TypeInv /\ Tick => TypeInv'
<1> SUFFICES ASSUME TypeInv, Tick
             PROVE  TypeInv'
  OBVIOUS
<1>1. UNCHANGED <<kind, world, log, queue, cursor, next, held, faults>>
  BY DEF Tick, server, goroutine
<1>2. /\ state' = Nil <=> state = Nil
      /\ state' = Nil \/ (state' \in Snapshot /\ state'.base <= Len(log))
  <2>1. CASE state \in Snapshot /\ state.left > 0
    <3>1. /\ [state EXCEPT !.left = @ - 1] \in Snapshot
          /\ [state EXCEPT !.left = @ - 1].base = state.base
      BY <2>1, TimesAssumption DEF Snapshot
    <3>2. state # Nil /\ state' = [state EXCEPT !.left = @ - 1]
      BY <2>1, NilAssumption DEF Tick
    <3>3. QED
      BY <3>1, <3>2, NilAssumption DEF TypeInv, TypeOK
  <2>2. CASE ~(state \in Snapshot /\ state.left > 0)
    BY <2>2 DEF Tick, TypeInv, TypeOK
  <2>3. QED
    BY <2>1, <2>2
<1>3. ReaderType'
  <2>1. ASSUME NEW r \in Readers, reader[r] \in Pending, reader[r].base <= Len(log),
               reader[r].age < MaxLatency
        PROVE  /\ [reader[r] EXCEPT !.age = @ + 1] \in Pending
               /\ [reader[r] EXCEPT !.age = @ + 1].base <= Len(log)
    BY <2>1, TimesAssumption DEF Pending
  <2>2. ASSUME NEW r \in Readers
        PROVE  /\ reader'[r] \in {Idle} \cup Pending
               /\ reader'[r] = Idle \/ reader'[r].base <= Len(log')
    <3>1. CASE reader[r] = Idle
      BY <1>1, <3>1 DEF Tick, Waiting, Idle
    <3>2. CASE reader[r] \in Pending /\ Waiting(r)
      <4>1. reader[r].age < MaxLatency /\ reader[r] # Idle
        BY <3>2 DEF Tick, Waiting, Idle
      <4>2. reader'[r] = [reader[r] EXCEPT !.age = @ + 1]
        BY <3>2 DEF Tick
      <4>3. QED
        BY <1>1, <2>1, <3>2, <4>1, <4>2 DEF TypeInv, ReaderType
    <3>3. CASE ~Waiting(r)
      <4>1. reader'[r] = reader[r]
        BY <3>3 DEF Tick
      <4>2. QED
        BY <1>1, <4>1 DEF TypeInv, ReaderType
    <3>4. QED
      BY <3>1, <3>2, <3>3 DEF TypeInv, ReaderType
  <2>3. reader' = [r \in Readers |-> reader'[r]]
    BY DEF Tick
  <2>4. QED
    BY <2>2, <2>3 DEF ReaderType
<1>4. quiet' \in 0..(TTL + MaxLatency)
  BY TimesAssumption DEF Tick, TypeInv, TypeOK
<1>5. QED
  BY <1>1, <1>2, <1>3, <1>4 DEF TypeInv, TypeOK, LogType

LEMMA ReaderChanged ==
  ASSUME ReaderType, NEW r \in Readers, NEW v \in {Idle} \cup Pending,
         v = Idle \/ v.base <= Len(log), reader' = [reader EXCEPT ![r] = v], log' = log
  PROVE  ReaderType'
BY DEF ReaderType

LEMMA Untouched ==
  ASSUME TypeInv, UNCHANGED server
  PROVE  /\ LogType' /\ kind' \in Kinds /\ world' \in [Items -> Item]
         /\ log' = log /\ Len(log') = Len(log) /\ Len(log) \in Nat
         /\ UNCHANGED reader => ReaderType'
BY LogFacts DEF TypeInv, TypeOK, LogType, ReaderType, server

LEMMA AnswerType ==
  ASSUME TypeInv, NEW r \in Readers, Answer(r)
  PROVE  \E v \in Pending :
           /\ v.at = "answered" /\ v.base = Len(log) /\ v.query = reader[r].query
           /\ reader' = [reader EXCEPT ![r] = v]
<1> DEFINE v == [reader[r] EXCEPT !.at = "answered", !.base = Len(log)]
<1>1. reader[r] \in Pending /\ Len(log) \in Nat
  BY LogFacts DEF TypeInv, ReaderType, Answer, Idle
<1>2. v \in Pending /\ v.at = "answered" /\ v.base = Len(log) /\ v.query = reader[r].query
  BY <1>1 DEF Pending
<1>3. reader' = [reader EXCEPT ![r] = v]
  BY DEF Answer
<1> HIDE DEF v
<1>4. QED
  BY <1>2, <1>3

LEMMA ReaderTypes == ASSUME TypeInv, NEW r \in Readers, ReaderStep(r) PROVE TypeInv'
<1> USE TimesAssumption
<1> DEFINE Changed(v) == v \in Pending /\ v.base <= Len(log) /\ reader' = [reader EXCEPT ![r] = v]
<1>0. /\ Len(log) \in Nat
      /\ reader[r] = Idle \/ (reader[r] \in Pending /\ reader[r].base <= Len(log))
  BY LogFacts DEF TypeInv, ReaderType
<1>c. ASSUME NEW v, Changed(v), UNCHANGED <<server, goroutine, quiet, faults>>,
             UNCHANGED <<state, held>> \/ (state' = Nil /\ held' = FALSE)
      PROVE  TypeInv'
  <2>1. ReaderType'
    BY <1>c, ReaderChanged DEF TypeInv, server
  <2>2. /\ state' = Nil \/ (state' \in Snapshot /\ state'.base <= Len(log))
        /\ held' \in BOOLEAN /\ (held' => state' # Nil /\ queue = "swap")
    <3>1. CASE UNCHANGED <<state, held>>
      BY <3>1 DEF TypeInv, TypeOK
    <3>2. CASE state' = Nil /\ held' = FALSE
      BY <3>2
    <3>3. QED
      BY <1>c, <3>1, <3>2
  <2>3. QED
    BY <1>c, <2>1, <2>2, Untouched DEF TypeInv, TypeOK, goroutine
<1>1. CASE (\E query \in Queries : Ask(r, query)) \/ DropExpired(r) \/ Answer(r)
  <2>1. ASSUME NEW query \in Queries, Ask(r, query)
        PROVE  TypeInv'
    <3> DEFINE v == [at |-> IF state = Nil THEN "asking" ELSE "expired",
                     query |-> query, age |-> 0, base |-> 0]
    <3>1. Changed(v)
      BY <1>0, <2>1 DEF Ask, Pending
    <3> HIDE DEF v
    <3>2. QED
      BY <1>c, <2>1, <3>1 DEF Ask
  <2>2. CASE DropExpired(r)
    <3> DEFINE v == [reader[r] EXCEPT !.at = "asking"]
    <3>1. Changed(v)
      BY <1>0, <2>2 DEF DropExpired, Pending, Idle
    <3> HIDE DEF v
    <3>2. QED
      BY <1>c, <2>2, <3>1 DEF DropExpired
  <2>3. CASE Answer(r)
    <3>1. PICK v \in Pending : v.base = Len(log) /\ reader' = [reader EXCEPT ![r] = v]
      BY <2>3, AnswerType
    <3>2. Changed(v)
      BY <1>0, <3>1
    <3>3. QED
      BY <1>c, <2>3, <3>2 DEF Answer
  <2>4. QED
    BY <1>1, <2>1, <2>2, <2>3
<1>2. CASE StoreResponse(r)
  <2>1. reader[r] \in Pending /\ reader[r].base <= Len(log)
    BY <1>2 DEF StoreResponse, TypeInv, ReaderType, Idle
  <2>2. View(reader[r].query, World(reader[r].base)) \in [Items -> Shown]
    BY <2>1, WorldType, ViewType DEF Pending, TypeInv, TypeOK
  <2>3. state' \in Snapshot /\ state'.base <= Len(log)
    BY <1>2, <2>1, <2>2, LogFacts DEF StoreResponse, Pending, Snapshot, TypeInv, TypeOK
  <2>4. ReaderType'
    BY <1>2, ReaderChanged DEF StoreResponse, TypeInv, server, Idle
  <2>5. QED
    BY <1>2, <2>3, <2>4, Untouched DEF StoreResponse, TypeInv, TypeOK, goroutine
<1>3. CASE RequestFails(r)
  <2>1. ReaderType'
    BY <1>3, ReaderChanged DEF RequestFails, TypeInv, server, Idle
  <2>2. QED
    <3>1. faults' \in 0..MaxFaults
      BY <1>3 DEF RequestFails, TypeInv, TypeOK
    <3>2. state' = Nil \/ (state' \in Snapshot /\ state'.base <= Len(log))
      BY <1>3 DEF RequestFails, TypeInv, TypeOK
    <3>3. held' \in BOOLEAN /\ (held' => state' # Nil /\ queue' = "swap")
      <4>1. held \in BOOLEAN /\ (held => state # Nil /\ queue = "swap")
        BY DEF TypeInv, TypeOK
      <4>2. held' = FALSE \/ (held' = held /\ state' = state)
        BY <1>3 DEF RequestFails
      <4>3. queue' = queue
        BY <1>3 DEF RequestFails, goroutine
      <4>4. CASE held' = FALSE
        BY <4>4
      <4>5. CASE held' = held /\ state' = state
        BY <4>1, <4>3, <4>5
      <4>6. QED
        BY <4>2, <4>4, <4>5
    <3>4. QED
      BY <1>3, <2>1, <3>1, <3>2, <3>3, Untouched DEF RequestFails, TypeInv, TypeOK, goroutine
<1>4. QED
  BY <1>1, <1>2, <1>3 DEF ReaderStep

LEMMA CacheTypes == TypeInv /\ SwapInv /\ (CacheStep \/ QueueFails) => TypeInv'
<1> SUFFICES ASSUME TypeInv, SwapInv, CacheStep \/ QueueFails
             PROVE  TypeInv'
  OBVIOUS
<1> USE TimesAssumption
<1>1. CASE RegisterQueue
  <2>1. state' = Nil \/ (state' \in Snapshot /\ state'.base <= Len(log))
    BY <1>1, LogFacts DEF RegisterQueue, TypeInv, TypeOK, Snapshot
  <2>2. ~held /\ ~held'
    BY <1>1 DEF RegisterQueue, TypeInv, TypeOK
  <2>3. QED
    BY <1>1, <2>1, <2>2, Untouched DEF RegisterQueue, TypeInv, TypeOK
<1>2. CASE MutateLoad
  <2>1. log[cursor + 1] \in AnyEvent /\ Len(log) \in Nat /\ cursor \in Nat
    BY <1>2, LogFacts DEF MutateLoad, TypeInv, TypeOK
  <2>2. Fresh => HandleEvent(state.items, log[cursor + 1]) \in [Items -> Shown]
    BY <2>1, HandleType DEF Fresh, TypeInv, TypeOK, Snapshot
  <2>3. /\ state' = Nil \/ (state' \in Snapshot /\ state'.base <= Len(log))
        /\ cursor' \in 0..Len(log) /\ quiet' \in 0..(TTL + MaxLatency)
        /\ faults' \in 0..MaxFaults
    BY <1>2, <2>1 DEF MutateLoad, Handled, TypeInv, TypeOK
  <2>4. /\ queue' \in {"consume", "swap"}
        /\ IF queue' = "swap" THEN next' \in [Items -> Shown] ELSE next' = Nil
    BY <1>2, <2>2 DEF MutateLoad, Handled, TypeInv, TypeOK
  <2>5. held' \in BOOLEAN /\ (held' => state' # Nil /\ queue' = "swap")
    BY <1>2 DEF MutateLoad, Fresh, TypeInv, TypeOK
  <2>6. QED
    BY <1>2, <2>3, <2>4, <2>5, Untouched DEF MutateLoad, TypeInv, TypeOK
<1>3. CASE MutateSwap
  <2>1. cursor < Len(log) /\ Len(log) \in Nat /\ cursor \in Nat
    BY <1>3, LogFacts DEF MutateSwap, TypeInv, TypeOK, SwapInv
  <2>2. state' = Nil \/ (state' \in Snapshot /\ state'.base <= Len(log))
    <3>1. CASE held
      <4>1. state \in Snapshot /\ next \in [Items -> Shown]
        BY <1>3, <3>1 DEF MutateSwap, TypeInv, TypeOK
      <4>2. QED
        BY <1>3, <3>1, <4>1 DEF MutateSwap, TypeInv, TypeOK, Snapshot
    <3>2. QED
      BY <1>3, <3>1 DEF MutateSwap, TypeInv, TypeOK
  <2>3. /\ cursor' \in 0..Len(log) /\ queue' \in {"consume", "retry"}
        /\ quiet' \in 0..(TTL + MaxLatency)
    <3>1. CASE held
      BY <1>3, <2>1, <3>1 DEF MutateSwap, Handled
    <3>2. CASE ~held
      BY <1>3, <2>1, <3>2 DEF MutateSwap, TypeInv, TypeOK
    <3>3. QED
      BY <3>1, <3>2
  <2>4. QED
    BY <1>3, <2>2, <2>3, Untouched DEF MutateSwap, TypeInv, TypeOK
<1>4. CASE InvalidateAfterFailure
  BY <1>4 DEF InvalidateAfterFailure, TypeInv, TypeOK, server, LogType, ReaderType, Idle
<1>5. CASE QueueFails
  BY <1>5 DEF QueueFails, TypeInv, TypeOK, server, LogType, ReaderType, Idle
<1>6. QED
  BY <1>1, <1>2, <1>3, <1>4, <1>5 DEF CacheStep

LEMMA StepTypes == TypeInv /\ SwapInv /\ [Next]_vars => TypeInv'
<1>1. TypeInv /\ UNCHANGED vars => TypeInv'
  BY DEF vars, TypeInv, TypeOK, LogType, ReaderType, Idle
<1>2. QED
  BY <1>1, ChangeTypes, TickTypes, ReaderTypes, CacheTypes DEF Next

-----------------------------------------------------------------------------
(* What was computed from the cached response. *)

LEMMA InitSwap == Init => SwapInv
BY DEF Init, SwapInv

LEMMA StepSwap == TypeInv /\ SwapInv /\ [Next]_vars => SwapInv'
<1> SUFFICES ASSUME TypeInv, SwapInv, [Next]_vars
             PROVE  SwapInv'
  OBVIOUS
<1>0. /\ Len(log) \in Nat /\ cursor \in Nat /\ cursor <= Len(log)
      /\ held => queue = "swap" /\ state # Nil
  BY LogFacts DEF TypeInv, TypeOK
<1>1. CASE Change
  <2>1. PICK e \in AnyEvent :
          /\ e.before = world /\ log' = Append(log, e)
          /\ UNCHANGED <<kind, state, goroutine, held>>
    BY <1>1, ChangeFacts
  <2>2. Len(log') = Len(log) + 1 /\ \A n \in 1..Len(log) : log'[n] = log[n]
    BY <2>1, GrownLog DEF TypeInv, TypeOK
  <2>3. cursor < Len(log) => log'[cursor + 1] = log[cursor + 1]
    BY <1>0, <2>2
  <2>4. held => cursor < Len(log)
    BY <1>0 DEF SwapInv
  <2>5. cursor < Len(log) => cursor' < Len(log')
    BY <1>0, <2>1, <2>2 DEF goroutine
  <2>6. QED
    BY <2>1, <2>3, <2>4, <2>5 DEF SwapInv, goroutine, HandleEvent, Invalidates,
       UpdateUserGroup, UpdateStream
<1>2. CASE Tick
  <2>1. held => state'.items = state.items
    BY <1>0, <1>2 DEF Tick, TypeInv, TypeOK, Snapshot
  <2>2. QED
    BY <1>2, <2>1 DEF Tick, SwapInv, server, goroutine, HandleEvent, Invalidates,
       UpdateUserGroup, UpdateStream
<1>3. ASSUME NEW r \in Readers, ReaderStep(r)
      PROVE  SwapInv'
  <2>1. /\ UNCHANGED <<log, kind, goroutine>>
        /\ UNCHANGED <<state, held>> \/ ~held'
    BY <1>3 DEF ReaderStep, Ask, DropExpired, Answer, StoreResponse, RequestFails,
       server, goroutine
  <2>2. log' = log /\ kind' = kind /\ queue' = queue /\ cursor' = cursor /\ next' = next
    BY <2>1 DEF goroutine
  <2>3. CASE ~held'
    BY <2>2, <2>3 DEF SwapInv
  <2>4. CASE UNCHANGED <<state, held>>
    BY <2>2, <2>4 DEF SwapInv, HandleEvent, Invalidates, UpdateUserGroup, UpdateStream
  <2>5. QED
    BY <2>1, <2>3, <2>4
<1>4. CASE RegisterQueue
  BY <1>0, <1>4 DEF RegisterQueue, SwapInv
<1>5. CASE MutateLoad
  BY <1>0, <1>5 DEF MutateLoad, Handled, SwapInv, server, HandleEvent, Invalidates,
     UpdateUserGroup, UpdateStream
<1>6. CASE MutateSwap \/ InvalidateAfterFailure \/ QueueFails
  BY <1>0, <1>6 DEF MutateSwap, Handled, InvalidateAfterFailure, QueueFails, SwapInv, server
<1>7. CASE UNCHANGED vars
  BY <1>7 DEF vars, SwapInv, HandleEvent, Invalidates, UpdateUserGroup, UpdateStream
<1>8. QED
  BY <1>1, <1>2, <1>3, <1>4, <1>5, <1>6, <1>7 DEF Next, CacheStep

(* The cached response and what the goroutine computed from it are what the code
   takes them for, and the goroutine never runs ahead of the events
   (userGroupsState, mutate). *)
THEOREM TypeCorrect == Spec => []TypeOK
<1>1. TypeInv => TypeOK
  BY DEF TypeInv
<1>2. QED
  BY <1>1, InitTypes, StepTypes, InitSwap, StepSwap, PTL DEF Spec

-----------------------------------------------------------------------------
(* The log says how the items changed. *)

LEMMA InitLog == Init => LogInv
BY DEF Init, LogInv

LEMMA StepLog == TypeInv /\ LogInv /\ [Next]_vars => LogInv'
<1> SUFFICES ASSUME TypeInv, LogInv, [Next]_vars
             PROVE  LogInv'
  OBVIOUS
<1>1. CASE Change
  <2>1. PICK e \in AnyEvent :
          /\ Plausible(e) /\ e.before = world
          /\ world' = After(e) /\ log' = Append(log, e)
    BY <1>1, ChangeFacts
  <2>2. /\ Len(log) \in Nat /\ Len(log') = Len(log) + 1
        /\ \A n \in 1..Len(log) : log'[n] = log[n]
        /\ log'[Len(log) + 1] = e
        /\ \A n \in Nat : n <= Len(log) => World(n)' = World(n)
        /\ \A n \in Nat : n > Len(log) => World(n)' = world'
    BY <2>1, GrownLog, LogFacts DEF TypeInv, TypeOK
  <2>3. ASSUME NEW n \in 1..Len(log')
        PROVE  Plausible(log'[n]) /\ World(n)' = After(log'[n])
    <3>1. CASE n \in 1..Len(log)
      <4>1. n \in Nat /\ n <= Len(log) /\ log'[n] = log[n]
        BY <2>2, <3>1
      <4>2. QED
        BY <2>2, <3>1, <4>1 DEF LogInv
    <3>2. CASE n = Len(log) + 1
      <4>1. n \in Nat /\ n > Len(log) /\ log'[n] = e
        BY <2>2, <3>2
      <4>2. QED
        BY <2>1, <2>2, <4>1
    <3>3. QED
      BY <2>2, <3>1, <3>2
  <2>4. QED
    BY <2>3 DEF LogInv
<1>2. CASE UNCHANGED server
  BY <1>2 DEF LogInv, World, server
<1>3. QED
  BY <1>1, <1>2 DEF Next, Tick, CacheStep, RegisterQueue, MutateLoad, MutateSwap,
     InvalidateAfterFailure, QueueFails, ReaderStep, Ask, DropExpired, Answer, StoreResponse,
     RequestFails, vars, server

-----------------------------------------------------------------------------
(* One reader's question is not another's. *)

LEMMA InitQuery == Init => QueryInv
BY DEF Init, QueryInv

LEMMA StepQuery == TypeInv /\ QueryInv /\ [Next]_vars => QueryInv'
<1> SUFFICES ASSUME TypeInv, QueryInv, [Next]_vars
             PROVE  QueryInv'
  OBVIOUS
<1>1. reader \in [Readers -> {Idle} \cup Pending]
  BY DEF TypeInv, ReaderType
<1>2. CASE Change
  BY <1>2, ChangeFacts DEF QueryInv
<1>3. CASE Tick
  BY <1>3 DEF Tick, server, QueryInv, TypeInv, TypeOK, Snapshot, ReaderType, Pending, Idle
<1>4. ASSUME NEW r \in Readers, NEW query \in Queries, Ask(r, query)
      PROVE  QueryInv'
  BY <1>1, <1>4 DEF Ask, server, QueryInv, IsCacheable, IsCacheableUserGroupsRequest
<1>5. ASSUME NEW r \in Readers,
             DropExpired(r) \/ Answer(r) \/ StoreResponse(r) \/ RequestFails(r)
      PROVE  QueryInv'
  <2>1. UNCHANGED kind /\ (state' = state \/ state' = Nil \/ StoreResponse(r))
    BY <1>5 DEF DropExpired, Answer, StoreResponse, RequestFails, server
  <2>2. StoreResponse(r) => reader[r].at # "idle" /\ state'.query = reader[r].query
    BY DEF StoreResponse
  <2>3. \A s \in Readers : reader'[s].at # "idle" =>
          reader[s].at # "idle" /\ reader'[s].query = reader[s].query
    <3>1. CASE Answer(r)
      <4>1. PICK v \in Pending : v.query = reader[r].query /\ reader' = [reader EXCEPT ![r] = v]
        BY <3>1, AnswerType
      <4>2. reader[r].at # "idle"
        BY <3>1 DEF Answer
      <4>3. QED
        BY <1>1, <4>1, <4>2
    <3>2. CASE DropExpired(r) \/ StoreResponse(r) \/ RequestFails(r)
      BY <1>1, <3>2 DEF DropExpired, StoreResponse, RequestFails, Pending, Idle
    <3>3. QED
      BY <1>5, <3>1, <3>2
  <2>4. QED
    BY <2>1, <2>2, <2>3 DEF QueryInv
<1>6. CASE RegisterQueue \/ MutateLoad \/ MutateSwap \/ InvalidateAfterFailure \/ QueueFails
  <2>1. UNCHANGED <<kind, reader>>
    BY <1>6 DEF RegisterQueue, MutateLoad, MutateSwap, InvalidateAfterFailure, QueueFails, server
  <2>2. held => state # Nil
    BY DEF TypeInv, TypeOK
  <2>3. state' = Nil \/ (state # Nil /\ state'.query = state.query)
    BY <1>6, <2>2 DEF RegisterQueue, MutateLoad, MutateSwap, InvalidateAfterFailure, QueueFails,
       TypeInv, TypeOK, Snapshot
  <2>4. QED
    BY <2>1, <2>3 DEF QueryInv
<1>7. CASE UNCHANGED vars
  BY <1>7 DEF vars, QueryInv
<1>8. QED
  BY <1>2, <1>3, <1>4, <1>5, <1>6, <1>7 DEF Next, CacheStep, ReaderStep

(* Whatever requests overlap, a reader of the user groups is never served the
   answer to another question (isCacheableUserGroupsRequest, storeResponse). *)
THEOREM AnswersTheQuestion == Spec => []AnswersItsQuery
<1>1. QueryInv => AnswersItsQuery
  BY DEF QueryInv, AnswersItsQuery, CachedBody, IsCacheable, IsCacheableUserGroupsRequest, Fresh
<1>2. QED
  BY <1>1, InitTypes, StepTypes, InitSwap, StepSwap, InitQuery, StepQuery, PTL DEF Spec

-----------------------------------------------------------------------------
(* A response is wrong for its lifetime and the time of a request at most. *)

LEMMA InitShort == Init => ShortInv
BY DEF Init, ShortInv, Fresh

LEMMA StepShort == TypeInv /\ ShortInv /\ [Next]_vars => ShortInv'
<1> SUFFICES ASSUME TypeInv, ShortInv, [Next]_vars
             PROVE  ShortInv'
  OBVIOUS
<1>0. /\ reader \in [Readers -> {Idle} \cup Pending] /\ quiet \in Nat
      /\ quiet <= TTL + MaxLatency
      /\ TTL \in Nat /\ MaxLatency \in Nat /\ Len(log) \in Nat
      /\ state # Nil => state \in Snapshot /\ state.left \in Nat /\ state.left <= TTL
  BY LogFacts, TimesAssumption DEF TypeInv, TypeOK, ReaderType, Snapshot
<1>1. ASSUME quiet' = 0, reader' = reader, state' = Nil \/ (state # Nil /\ state'.left = state.left)
      PROVE  ShortInv'
  BY <1>0, <1>1 DEF ShortInv, Fresh, Pending, Idle
<1>u. ASSUME UNCHANGED <<world, log, quiet, reader>>, state' = state \/ state' = Nil
      PROVE  ShortInv'
  BY <1>u DEF ShortInv, Fresh, View
<1>2. CASE Change
  BY <1>1, <1>2, ChangeFacts
<1>3. CASE Tick
  <2>1. ASSUME NEW r \in Readers, reader'[r].at = "answered"
        PROVE  reader'[r].base = Len(log) \/ quiet' <= reader'[r].age
    <3>1. reader[r].at = "answered" /\ reader[r] \in Pending
      BY <1>0, <1>3, <2>1 DEF Tick, Waiting, Idle, Pending
    <3>2. reader'[r].base = reader[r].base /\ reader'[r].age = reader[r].age + 1
          /\ reader[r].age \in Nat
      BY <1>3, <3>1 DEF Tick, Waiting, Pending
    <3>3. quiet' <= quiet + 1 /\ quiet' \in Nat
      BY <1>0, <1>3 DEF Tick
    <3>4. QED
      BY <1>0, <3>1, <3>2, <3>3 DEF ShortInv
  <2>2. ASSUME Fresh'
        PROVE  \/ state'.base = Len(log) /\ state'.items = View(state'.query, world)
               \/ quiet' + state'.left <= TTL + MaxLatency
    <3>1. Fresh /\ state'.left = state.left - 1
          /\ state'.base = state.base /\ state'.items = state.items /\ state'.query = state.query
      BY <1>0, <1>3, <2>2 DEF Tick, Fresh, Snapshot
    <3>2. quiet' <= quiet + 1 /\ quiet' \in Nat
      BY <1>0, <1>3 DEF Tick
    <3>3. QED
      BY <1>0, <3>1, <3>2 DEF ShortInv, Fresh
  <2>3. UNCHANGED <<world, log>>
    BY <1>3 DEF Tick, server
  <2>4. View(state.query, world)' = View(state'.query, world)
    BY <2>3 DEF View
  <2>5. QED
    BY <2>1, <2>2, <2>3, <2>4 DEF ShortInv
<1>4. ASSUME NEW r \in Readers, NEW query \in Queries, Ask(r, query)
      PROVE  ShortInv'
  <2>1. \A s \in Readers : reader'[s].at = "answered" => reader'[s] = reader[s]
    BY <1>0, <1>4 DEF Ask
  <2>2. UNCHANGED <<world, log, quiet, state>>
    BY <1>4 DEF Ask, server
  <2>3. QED
    BY <2>1, <2>2 DEF ShortInv, Fresh, View
<1>12. ASSUME NEW r \in Readers, DropExpired(r) \/ Answer(r)
      PROVE  ShortInv'
  <2>1. UNCHANGED <<world, log, quiet>> /\ (state' = state \/ state' = Nil)
    BY <1>12 DEF DropExpired, Answer, server
  <2>2. \A s \in Readers : reader'[s].at = "answered" =>
          reader'[s] = reader[s] \/ reader'[s].base = Len(log)
    <3>1. CASE Answer(r)
      <4>1. PICK v \in Pending : v.base = Len(log) /\ reader' = [reader EXCEPT ![r] = v]
        BY <3>1, AnswerType
      <4>2. QED
        BY <1>0, <4>1
    <3>2. CASE DropExpired(r)
      BY <1>0, <3>2 DEF DropExpired, Pending, Idle
    <3>3. QED
      BY <1>12, <3>1, <3>2
  <2>3. QED
    BY <2>1, <2>2 DEF ShortInv, Fresh, View
<1>5. ASSUME NEW r \in Readers, StoreResponse(r)
      PROVE  ShortInv'
  <2>1. reader[r] \in Pending /\ reader[r].at = "answered"
    BY <1>0, <1>5 DEF StoreResponse, Idle
  <2>2. state'.left = TTL /\ state'.base = reader[r].base /\ state'.query = reader[r].query
        /\ state'.items = View(reader[r].query, World(reader[r].base))
        /\ UNCHANGED <<world, log, quiet>> /\ reader' = [reader EXCEPT ![r] = Idle]
    BY <1>5 DEF StoreResponse, server, Idle
  <2>3. CASE reader[r].base = Len(log)
    <3>1. World(reader[r].base) = world
      BY <1>0, <2>3 DEF World
    <3>2. QED
      BY <1>0, <2>2, <2>3, <3>1 DEF ShortInv, Fresh, View, Idle
  <2>4. CASE quiet <= reader[r].age
    <3>1. quiet' + state'.left <= TTL + MaxLatency
      BY <1>0, <2>1, <2>2, <2>4 DEF Pending
    <3>2. QED
      BY <1>0, <2>2, <3>1 DEF ShortInv, Idle
  <2>5. QED
    BY <2>1, <2>3, <2>4 DEF ShortInv
<1>6. ASSUME NEW r \in Readers, RequestFails(r)
      PROVE  ShortInv'
  BY <1>0, <1>6 DEF RequestFails, server, ShortInv, Fresh, View
<1>7. CASE RegisterQueue
  BY <1>0, <1>7 DEF RegisterQueue, server, ShortInv, Fresh, View, Snapshot
<1>8. CASE MutateLoad
  <2>1. CASE Handled /\ state' = Nil
    BY <1>1, <1>8, <2>1 DEF MutateLoad, Handled
  <2>2. CASE quiet' = quiet
    <3>1. UNCHANGED <<world, log, reader>> /\ (state' = state \/ state' = Nil)
      BY <1>8 DEF MutateLoad, server
    <3>2. QED
      BY <1>u, <2>2, <3>1
  <2>3. QED
    BY <1>8, <2>1, <2>2 DEF MutateLoad
<1>9. CASE MutateSwap
  <2>1. CASE held
    BY <1>0, <1>1, <1>9, <2>1 DEF MutateSwap, Handled, Snapshot, TypeInv, TypeOK
  <2>2. CASE ~held
    <3>1. UNCHANGED <<world, log, quiet, reader, state>>
      BY <1>9, <2>2 DEF MutateSwap, server
    <3>2. QED
      BY <1>u, <3>1
  <2>3. QED
    BY <2>1, <2>2
<1>10. CASE QueueFails \/ InvalidateAfterFailure \/ UNCHANGED vars
  <2>1. UNCHANGED <<world, log, quiet, reader>> /\ (state' = state \/ state' = Nil)
    BY <1>10 DEF QueueFails, InvalidateAfterFailure, vars, server
  <2>2. QED
    BY <1>u, <2>1
<1>11. QED
  BY <1>2, <1>3, <1>4, <1>5, <1>6, <1>7, <1>8, <1>9, <1>10, <1>12 DEF Next, CacheStep, ReaderStep

(* Whatever events were lost, late or ignored: once nothing changed and no event
   was handled for the lifetime of a response and the time of a request, a hit is
   what the server would answer (cachedBody, storeResponse). *)
THEOREM SoonRight == Spec => []StaleIsShort
<1>1. TypeInv /\ ShortInv => StaleIsShort
  <2> SUFFICES ASSUME TypeInv, ShortInv, Fresh, quiet = TTL + MaxLatency
               PROVE  state.items = View(state.query, world)
    BY DEF StaleIsShort
  <2>1. state.left \in Nat /\ state.left > 0
    BY DEF Fresh, TypeInv, TypeOK, Snapshot
  <2>2. QED
    BY <2>1, TimesAssumption DEF ShortInv
<1>2. QED
  BY <1>1, InitTypes, StepTypes, InitSwap, StepSwap, InitShort, StepShort, PTL DEF Spec

-----------------------------------------------------------------------------
(* What the handlers do to one item of the list, x, with an event: y is what they
   make of it, a what the item was before the event and z what it was after. *)
Handles(x, y, a, z) ==
  \/ y = z
  \/ /\ y.here /\ x.here /\ a.here /\ z.here
     /\ \A p \in Parts : \/ p \in y.parts <=> p \in z.parts
                         \/ /\ p \in y.parts <=> p \in x.parts
                            /\ p \in a.parts <=> p \in z.parts
  \/ ~x.here /\ y = x /\ a.here /\ z.here
  \/ y = x /\ z = a

LEMMA HandleOne ==
  ASSUME kind \in Kinds, NEW items \in [Items -> Shown], NEW e \in AnyEvent, Plausible(e),
         NEW i \in Items, items[i].here \/ items[i].parts = {},
         e.form = "revive" => e.item # i, ~Invalidates(items, e)
  PROVE  Handles(items[i], HandleEvent(items, e)[i],
                 View("active", e.before)[i], View("active", After(e))[i])
<1> DEFINE x == items[i]
           y == HandleEvent(items, e)[i]
           a == View("active", e.before)[i]
           z == View("active", After(e))[i]
<1>0. /\ e.item \in Items /\ e.after \in Item /\ e.before \in [Items -> Item]
      /\ e.form \in Forms /\ x \in Shown /\ x.here \in BOOLEAN
  BY DEF AnyEvent, Shown
<1>1. CASE e.item # i
  <2>1. y = x
    BY <1>0, <1>1 DEF HandleEvent, UpdateUserGroup, UpdateStream, Upsert, Remove
  <2>2. z = a
    BY <1>0, <1>1 DEF View, After
  <2>3. QED
    BY <2>1, <2>2 DEF Handles
<1>2. CASE e.item = i
  <2>0. After(e)[i] = e.after /\ x = items[e.item]
    BY <1>0, <1>2 DEF After
  <2>1. CASE e.form = "add"
    <3>1. z = [here |-> TRUE, parts |-> e.after.parts]
      BY <2>0, <2>1 DEF View, Plausible
    <3>2. y = [here |-> TRUE, parts |-> e.after.parts]
      BY <1>0, <1>2, <2>1 DEF HandleEvent, Upsert
    <3>3. QED
      BY <3>1, <3>2 DEF Handles
  <2>2. CASE e.form \in {"remove", "deactivate"}
    <3>1. z = Gone
      BY <2>0, <2>2 DEF View, Plausible
    <3>2. ~x.here => x = Gone
      BY <1>0 DEF Shown, Gone
    <3>3. y = Gone
      BY <1>0, <1>2, <2>2, <3>2 DEF HandleEvent, UpdateUserGroup, UpdateStream, Remove
    <3>4. QED
      BY <3>1, <3>3 DEF Handles
  <2>3. CASE e.form \in {"patch", "unsupported"}
    <3>1. /\ a = [here |-> TRUE, parts |-> e.before[i].parts]
          /\ z = [here |-> TRUE, parts |-> e.after.parts]
      BY <1>2, <2>0, <2>3 DEF View, Plausible
    <3>2. CASE ~x.here
      <4>1. y = x
        BY <1>0, <1>2, <2>3, <3>2 DEF HandleEvent, UpdateUserGroup, UpdateStream
      <4>2. QED
        BY <3>1, <3>2, <4>1 DEF Handles
    <3>3. CASE x.here
      <4>1. e.form = "patch"
        BY <1>2, <2>3, <3>3 DEF Invalidates
      <4>2. HandleEvent(items, e) = [items EXCEPT ![e.item].parts = Patch(@, e)]
        BY <1>0, <1>2, <3>3, <4>1 DEF HandleEvent, UpdateUserGroup, UpdateStream
      <4>3. y.here = x.here /\ y.parts = Patch(x.parts, e)
        BY <1>0, <1>2, <4>2 DEF Shown
      <4>4. \A p \in Parts :
              \/ p \in y.parts <=> p \in e.after.parts
              \/ /\ p \in y.parts <=> p \in x.parts
                 /\ p \in e.before[i].parts <=> p \in e.after.parts
        BY <1>2, <4>3 DEF Patch
      <4>5. a.here /\ z.here /\ a.parts = e.before[i].parts /\ z.parts = e.after.parts
        BY <3>1
      <4> HIDE DEF x, y, a, z
      <4>6. Handles(x, y, a, z)
        BY <3>3, <4>3, <4>4, <4>5 DEF Handles
      <4>7. QED
        BY <4>6 DEF x, y, a, z
    <3>4. QED
      BY <3>2, <3>3
  <2>4. e.form \notin {"revive", "broken"}
    BY <1>2 DEF Invalidates
  <2>5. QED
    BY <1>0, <2>1, <2>2, <2>3, <2>4 DEF Forms
<1>3. QED
  BY <1>1, <1>2

(* Handling the next event, the list goes on following the item. *)
LEMMA FollowsOn ==
  ASSUME NEW x \in Shown, NEW y \in Shown, NEW N \in Nat, NEW t \in [0..N -> Shown],
         \A n \in 0..N : t[n].here \/ t[n].parts = {},
         NEW c \in Nat, c < N, NEW b \in Nat, b <= N, NEW f \in Nat, f <= c,
         Follows(x, t, c, b, f), Handles(x, y, t[c], t[c + 1])
  PROVE  Follows(y, t, c + 1, b, f)
<1>0. /\ c \in 0..N /\ c + 1 \in 0..N /\ b \in 0..N
      /\ x.here \in BOOLEAN /\ y.here \in BOOLEAN
      /\ x.parts \subseteq Parts /\ y.parts \subseteq Parts
      /\ \A n \in 0..N : t[n].here \in BOOLEAN /\ t[n].parts \subseteq Parts
  BY DEF Shown
<1>1. ASSUME NEW u \in Shown, NEW v \in Shown, u.here = v.here,
             \A p \in Parts : p \in u.parts <=> p \in v.parts
      PROVE  u = v
  <2>1. u.parts = v.parts
    BY <1>1 DEF Shown
  <2>2. QED
    BY <1>1, <2>1 DEF Shown
<1>2. y.here \/ y.parts = {}
  BY <1>0 DEF Follows, Handles
<1>3. c + 1 <= b =>
        /\ y.here = t[c + 1].here \/ y.here = t[b].here
        /\ \A p \in Parts : \/ p \in y.parts <=> p \in t[c + 1].parts
                            \/ p \in y.parts <=> p \in t[b].parts
  <2> SUFFICES ASSUME c + 1 <= b
               PROVE  /\ y.here = t[c + 1].here \/ y.here = t[b].here
                      /\ \A p \in Parts : \/ p \in y.parts <=> p \in t[c + 1].parts
                                          \/ p \in y.parts <=> p \in t[b].parts
    OBVIOUS
  <2>1. /\ x.here = t[c].here \/ x.here = t[b].here
        /\ \A p \in Parts : \/ p \in x.parts <=> p \in t[c].parts
                            \/ p \in x.parts <=> p \in t[b].parts
        /\ x.here \/ x.parts = {}
    BY DEF Follows
  <2>2. CASE ~x.here /\ y = x /\ t[c].here
    <3>1. ~t[b].here /\ t[b].parts = {} /\ x.parts = {}
      BY <1>0, <2>1, <2>2
    <3>2. QED
      BY <1>0, <2>2, <3>1
  <2>3. CASE ~(~x.here /\ y = x /\ t[c].here)
    BY <1>0, <2>1, <2>3 DEF Handles
  <2>4. QED
    BY <2>2, <2>3
<1>4. c + 1 > b /\ f <= b => y = t[c + 1]
  <2> SUFFICES ASSUME c >= b, f <= b
               PROVE  y = t[c + 1]
    OBVIOUS
  <2>1. x = t[c]
    <3>1. CASE c > b
      BY <3>1 DEF Follows
    <3>2. CASE c = b
      BY <1>0, <1>1, <3>2 DEF Follows
    <3>3. QED
      BY <3>1, <3>2
  <2>2. CASE /\ y.here /\ t[c + 1].here
             /\ \A p \in Parts : p \in y.parts <=> p \in t[c + 1].parts
    BY <1>0, <1>1, <2>2
  <2>3. QED
    BY <1>0, <2>1, <2>2 DEF Handles
<1>5. c + 1 > b => /\ \E n \in b..(c + 1) : t[n].here = y.here
                   /\ \A p \in Parts :
                        \E n \in b..(c + 1) : (p \in t[n].parts) = (p \in y.parts)
  <2> SUFFICES ASSUME c >= b
               PROVE  /\ \E n \in b..(c + 1) : t[n].here = y.here
                      /\ \A p \in Parts :
                           \E n \in b..(c + 1) : (p \in t[n].parts) = (p \in y.parts)
    OBVIOUS
  <2>1. /\ \E n \in b..c : t[n].here = x.here
        /\ \A p \in Parts : \E n \in b..c : (p \in t[n].parts) = (p \in x.parts)
    <3>1. CASE c > b
      BY <3>1 DEF Follows
    <3>2. CASE c = b
      BY <3>2 DEF Follows
    <3>3. QED
      BY <3>1, <3>2
  <2>2. /\ \E n \in b..(c + 1) : t[n].here = x.here
        /\ \A p \in Parts : \E n \in b..(c + 1) : (p \in t[n].parts) = (p \in x.parts)
    BY <2>1
  <2>3. c + 1 \in b..(c + 1)
    OBVIOUS
  <2>4. y.here = x.here \/ y.here = t[c + 1].here
    BY <1>0 DEF Handles
  <2>5. \A p \in Parts : \/ p \in y.parts <=> p \in x.parts
                         \/ p \in y.parts <=> p \in t[c + 1].parts
    BY DEF Handles
  <2>6. QED
    BY <2>2, <2>3, <2>4, <2>5
<1>6. QED
  BY <1>2, <1>3, <1>4, <1>5 DEF Follows

(* A response that was just stored, or was not changed since. *)
LEMMA FollowsStored ==
  ASSUME NEW N \in Nat, NEW t \in [0..N -> Shown], NEW c \in 0..N, NEW b \in 0..N,
         t[b].here \/ t[b].parts = {}
  PROVE  Follows(t[b], t, c, b, c)
<1>1. c > b => b \in b..c
  OBVIOUS
<1>2. QED
  BY <1>1 DEF Follows

(* Only what the trace was up to the answer and the events handled counts. *)
LEMMA FollowsSame ==
  ASSUME NEW x, NEW t, NEW u, NEW N \in Nat, NEW c \in 0..N, NEW b \in 0..N, NEW f,
         \A n \in 0..N : u[n] = t[n], Follows(x, t, c, b, f)
  PROVE  Follows(x, u, c, b, f)
<1>1. \A n \in b..c : n \in 0..N
  OBVIOUS
<1>2. QED
  BY <1>1 DEF Follows

LEMMA TraceType ==
  ASSUME TypeInv, NEW i \in Items
  PROVE  /\ Trace(i) \in [0..Len(log) -> Shown]
         /\ \A n \in 0..Len(log) : Trace(i)[n].here \/ Trace(i)[n].parts = {}
<1>1. ASSUME NEW n \in 0..Len(log)
      PROVE  /\ View("active", World(n))[i] \in Shown
             /\ View("active", World(n))[i].here \/ View("active", World(n))[i].parts = {}
  <2>1. World(n) \in [Items -> Item]
    BY WorldType, LogFacts DEF TypeInv, TypeOK
  <2>2. QED
    BY <2>1, ViewType DEF Queries
<1>2. QED
  BY <1>1 DEF Trace

-----------------------------------------------------------------------------
(* The response follows the events. *)

LEMMA InitTrack == Init => TrackInv
BY DEF Init, TrackInv

LEMMA TrackSame ==
  ASSUME TypeInv, TrackInv, UNCHANGED <<server, cursor>>,
         queue' = "register" => queue = "register",
         \/ state' = Nil
         \/ /\ state # Nil
            /\ state'.query = state.query /\ state'.items = state.items
            /\ state'.base = state.base /\ state'.from = state.from
  PROVE  TrackInv'
<1>1. \A i \in Items : Trace(i)' = Trace(i) /\ (Revived(i)' <=> Revived(i))
  BY DEF Trace, World, View, Revived, server
<1>2. World(state.base)' = World(state'.base)
  BY DEF World, server
<1>3. state' # Nil => View(state.query, World(state.base))' = View(state.query, World(state.base))
  BY DEF View, World, server
<1>4. QED
  BY <1>1, <1>3 DEF TrackInv, Follows

LEMMA TrackChange == TypeInv /\ TrackInv /\ Change => TrackInv'
<1> SUFFICES ASSUME TypeInv, TrackInv, Change, state # Nil
             PROVE  TrackInv'
  BY ChangeFacts DEF TrackInv
<1>1. PICK e \in AnyEvent :
        /\ e.before = world /\ log' = Append(log, e) /\ UNCHANGED <<state, goroutine>>
  BY ChangeFacts
<1>2. /\ Len(log) \in Nat /\ Len(log') = Len(log) + 1
      /\ \A n \in 1..Len(log) : log'[n] = log[n]
      /\ \A n \in Nat : n <= Len(log) => World(n)' = World(n)
  BY <1>1, GrownLog, LogFacts DEF TypeInv, TypeOK
<1>3. cursor \in 0..Len(log) /\ state.base \in 0..Len(log)
  BY <1>2 DEF TypeInv, TypeOK, Snapshot
<1>4. World(state.base)' = World(state.base)
  <2>1. PICK b \in Nat : b = state.base /\ b <= Len(log)
    BY <1>2, <1>3
  <2>2. World(b)' = World(b)
    BY <1>2, <2>1
  <2>3. QED
    BY <1>1, <2>1, <2>2
<1>5. View(state.query, World(state.base))' = View(state.query, World(state.base))
  BY <1>1, <1>4 DEF View
<1>6. \A i \in Items : Revived(i) => Revived(i)'
  <2>1. \A n \in 1..Len(log) : n \in 1..Len(log')
    BY <1>2
  <2>2. QED
    BY <1>2, <2>1 DEF Revived
<1>7. ASSUME NEW i \in Items
      PROVE  \A n \in 0..Len(log) : Trace(i)'[n] = Trace(i)[n]
  <2>1. ASSUME NEW n \in 0..Len(log)
        PROVE  Trace(i)'[n] = Trace(i)[n]
    <3>1. World(n)' = World(n) /\ n \in 0..Len(log')
      BY <1>2
    <3>2. View("active", World(n))' = View("active", World(n))
      BY <3>1 DEF View
    <3>3. QED
      BY <3>1, <3>2 DEF Trace
  <2>2. QED
    BY <2>1
<1>8. ASSUME NEW i \in Items, state.query = "active", ~Revived(i)'
      PROVE  Follows(state.items[i], Trace(i)', cursor, state.base, state.from)
  <2>1. Follows(state.items[i], Trace(i), cursor, state.base, state.from)
    BY <1>6, <1>8 DEF TrackInv
  <2>2. QED
    BY <1>2, <1>3, <1>7, <2>1, FollowsSame
<1>9. QED
  BY <1>1, <1>5, <1>8 DEF TrackInv, goroutine

LEMMA TrackStored ==
  ASSUME TypeInv, UNCHANGED server, state' # Nil, NEW b \in 0..Len(log), NEW q \in Queries,
         cursor' \in 0..Len(log),
         state'.base = b, state'.query = q, state'.from = cursor',
         state'.items = View(q, World(b))
  PROVE  TrackInv'
<1>1. b \in Nat /\ Len(log) \in Nat /\ cursor' <= cursor'
  BY LogFacts DEF TypeInv
<1>2. ASSUME NEW i \in Items, q = "active"
      PROVE  Follows(state'.items[i], Trace(i)', cursor', b, cursor')
  <2>1. state'.items[i] = Trace(i)[b] /\ Trace(i)' = Trace(i)
    BY <1>2 DEF Trace, View, World, server
  <2>2. Follows(Trace(i)[b], Trace(i), cursor', b, cursor')
    BY <1>1, TraceType, FollowsStored
  <2>3. QED
    BY <2>1, <2>2
<1>3. View(q, World(b))' = View(q, World(b))
  BY DEF View, World, server
<1>4. QED
  BY <1>1, <1>2, <1>3 DEF TrackInv

LEMMA TrackSwap == TypeInv /\ LogInv /\ SwapInv /\ TrackInv /\ MutateSwap => TrackInv'
<1> SUFFICES ASSUME TypeInv, LogInv, SwapInv, TrackInv, MutateSwap, held
             PROVE  TrackInv'
  <2>1. CASE ~held /\ MutateSwap /\ TypeInv /\ TrackInv
    BY <2>1, TrackSame DEF MutateSwap
  <2>2. QED
    BY <2>1
<1> DEFINE c == cursor
           e == log[cursor + 1]
<1>1. /\ state \in Snapshot /\ state # Nil /\ state.base \in Nat /\ state.base <= Len(log)
      /\ next \in [Items -> Shown] /\ cursor \in Nat /\ Len(log) \in Nat
      /\ kind \in Kinds
  BY LogFacts DEF MutateSwap, TypeInv, TypeOK, Snapshot
<1>2. /\ cursor < Len(log) /\ next = HandleEvent(state.items, e)
      /\ ~Invalidates(state.items, e)
  BY DEF MutateSwap, SwapInv
<1>3. cursor + 1 \in 1..Len(log) /\ e \in AnyEvent /\ Plausible(e)
      /\ World(cursor) = e.before /\ World(cursor + 1) = After(e)
  BY <1>1, <1>2, LogFacts DEF LogInv, World, TypeInv
<1>4. /\ state'.query = state.query /\ state'.base = state.base /\ state'.from = state.from
      /\ state'.items = next /\ cursor' = cursor + 1 /\ queue' = "consume"
      /\ UNCHANGED server
  BY <1>1 DEF MutateSwap, Handled, Snapshot
<1>5. \A i \in Items : Trace(i)' = Trace(i) /\ (Revived(i)' <=> Revived(i))
  BY <1>4 DEF Trace, World, View, Revived, server
<1>6. ASSUME NEW i \in Items, state.query = "active", ~Revived(i)
      PROVE  Follows(next[i], Trace(i), cursor + 1, state.base, state.from)
  <2>1. Follows(state.items[i], Trace(i), cursor, state.base, state.from)
    BY <1>1, <1>6 DEF TrackInv
  <2>2. state.from <= cursor /\ state.from \in Nat /\ state.items \in [Items -> Shown]
    BY <1>1 DEF TrackInv, Snapshot
  <2>3. e.form = "revive" => e.item # i
    BY <1>3, <1>6 DEF Revived
  <2>4. state.items[i].here \/ state.items[i].parts = {}
    BY <2>1 DEF Follows
  <2>5. Handles(state.items[i], next[i], View("active", e.before)[i], View("active", After(e))[i])
    BY <1>1, <1>2, <1>3, <2>2, <2>3, <2>4, HandleOne
  <2>6. Trace(i)[cursor] = View("active", e.before)[i]
        /\ Trace(i)[cursor + 1] = View("active", After(e))[i]
    BY <1>1, <1>2, <1>3 DEF Trace
  <2>7. state.items[i] \in Shown /\ next[i] \in Shown
    BY <1>1, <2>2
  <2>8. QED
    BY <1>1, <1>2, <2>1, <2>2, <2>5, <2>6, <2>7, TraceType, FollowsOn
<1>7. state'.from <= cursor'
  BY <1>1, <1>4 DEF TrackInv, Snapshot
<1>8. QED
  BY <1>4, <1>5, <1>6, <1>7 DEF TrackInv

LEMMA StepTrack == TypeInv /\ LogInv /\ SwapInv /\ TrackInv /\ [Next]_vars => TrackInv'
<1> SUFFICES ASSUME TypeInv, LogInv, SwapInv, TrackInv, [Next]_vars
             PROVE  TrackInv'
  OBVIOUS
<1>1. CASE Tick
  BY <1>1, TrackSame DEF Tick, server, goroutine, TypeInv, TypeOK, Snapshot
<1>2. ASSUME NEW r \in Readers, NEW query \in Queries, Ask(r, query)
      PROVE  TrackInv'
  BY <1>2, TrackSame DEF Ask, goroutine
<1>3. ASSUME NEW r \in Readers, StoreResponse(r)
      PROVE  TrackInv'
  <2>1. reader[r] \in Pending /\ reader[r].base <= Len(log)
    BY <1>3 DEF StoreResponse, TypeInv, ReaderType, Idle
  <2>2. reader[r].base \in 0..Len(log) /\ reader[r].query \in Queries /\ cursor' = cursor
        /\ cursor \in 0..Len(log)
    BY <1>3, <2>1, LogFacts DEF StoreResponse, goroutine, Pending, TypeInv, TypeOK
  <2>3. /\ state'.base = reader[r].base /\ state'.query = reader[r].query
        /\ state'.from = cursor' /\ UNCHANGED server
        /\ state'.items = View(reader[r].query, World(reader[r].base))
    BY <1>3, <2>2 DEF StoreResponse
  <2>4. CASE state' = Nil
    BY <2>4 DEF TrackInv
  <2>5. QED
    BY <2>2, <2>3, <2>4, TrackStored
<1>4. ASSUME NEW r \in Readers, DropExpired(r) \/ Answer(r) \/ RequestFails(r)
      PROVE  TrackInv'
  <2>1. CASE state' = Nil
    BY <2>1 DEF TrackInv
  <2>2. CASE UNCHANGED state
    BY <1>4, <2>2, TrackSame DEF DropExpired, Answer, RequestFails, goroutine
  <2>3. QED
    BY <1>4, <2>1, <2>2 DEF DropExpired, Answer, RequestFails
<1>5. CASE RegisterQueue
  <2>1. CASE state = Nil
    BY <1>5, <2>1 DEF RegisterQueue, TrackInv
  <2>2. CASE state # Nil
    <3>1. /\ state.base \in 0..Len(log) /\ state.query \in Queries /\ Len(log) \in 0..Len(log)
          /\ state.items = View(state.query, World(state.base))
      BY <1>5, <2>2, LogFacts DEF RegisterQueue, TrackInv, TypeInv, TypeOK, Snapshot
    <3>2. /\ state'.base = state.base /\ state'.query = state.query /\ state'.items = state.items
          /\ state'.from = cursor' /\ cursor' = Len(log) /\ UNCHANGED server
      BY <1>5, <2>2 DEF RegisterQueue, TypeInv, TypeOK, Snapshot
    <3>3. CASE state' = Nil
      BY <3>3 DEF TrackInv
    <3>4. QED
      BY <3>1, <3>2, <3>3, TrackStored
  <2>3. QED
    BY <2>1, <2>2
<1>6. CASE MutateLoad
  <2>1. CASE state' = Nil
    BY <2>1 DEF TrackInv
  <2>2. CASE UNCHANGED <<state, cursor>> /\ queue' = "swap"
    BY <1>6, <2>2, TrackSame DEF MutateLoad
  <2>3. QED
    BY <1>6, <2>1, <2>2 DEF MutateLoad
<1>7. CASE QueueFails \/ InvalidateAfterFailure
  <2>1. CASE QueueFails
    BY <2>1, TrackSame DEF QueueFails
  <2>2. CASE InvalidateAfterFailure
    BY <2>2 DEF InvalidateAfterFailure, TrackInv
  <2>3. QED
    BY <1>7, <2>1, <2>2
<1>8. CASE UNCHANGED vars
  BY <1>8, TrackSame DEF vars, server
<1>9. QED
  BY <1>1, <1>2, <1>3, <1>4, <1>5, <1>6, <1>7, <1>8, TrackChange, TrackSwap
     DEF Next, CacheStep, ReaderStep

(* Whatever older events are applied to a response and whatever newer ones it
   misses, what it says of an item was true between its answer and the last event
   handled (mutate, the update functions). *)
THEOREM NoInvention == Spec => []NothingInvented
<1>1. TypeInv /\ TrackInv => NothingInvented
  <2> SUFFICES ASSUME TypeInv, TrackInv, state # Nil, state.query = "active",
                      NEW i \in Items, ~Revived(i)
               PROVE  LET then == {View("active", World(n))[i] :
                                     n \in MinOf(state.base, cursor)..MaxOf(state.base, cursor)}
                      IN  /\ \E x \in then : x.here = state.items[i].here
                          /\ \A p \in Parts : \E x \in then :
                               (p \in x.parts) = (p \in state.items[i].parts)
    BY DEF NothingInvented
  <2> DEFINE lo == MinOf(state.base, cursor)
             hi == MaxOf(state.base, cursor)
  <2>1. Follows(state.items[i], Trace(i), cursor, state.base, state.from)
    BY DEF TrackInv
  <2>2. /\ state.base \in Nat /\ state.base <= Len(log) /\ Len(log) \in Nat
        /\ cursor \in Nat /\ cursor <= Len(log)
    BY LogFacts DEF TypeInv, TypeOK, Snapshot
  <2>3. /\ cursor \in lo..hi /\ state.base \in lo..hi
        /\ \A n \in lo..hi : n \in 0..Len(log)
        /\ cursor > state.base => lo = state.base /\ hi = cursor
    BY <2>2 DEF MinOf, MaxOf
  <2>4. \A n \in lo..hi : Trace(i)[n] = View("active", World(n))[i]
    BY <2>3 DEF Trace
  <2> HIDE DEF lo, hi
  <2>5. \E n \in lo..hi : Trace(i)[n].here = state.items[i].here
    <3>1. CASE cursor > state.base
      BY <2>1, <2>3, <3>1 DEF Follows
    <3>2. CASE cursor <= state.base
      BY <2>1, <2>3, <3>2 DEF Follows
    <3>3. QED
      BY <2>2, <3>1, <3>2
  <2>6. \A p \in Parts : \E n \in lo..hi : (p \in Trace(i)[n].parts) = (p \in state.items[i].parts)
    <3>1. CASE cursor > state.base
      BY <2>1, <2>3, <3>1 DEF Follows
    <3>2. CASE cursor <= state.base
      BY <2>1, <2>3, <3>2 DEF Follows
    <3>3. QED
      BY <2>2, <3>1, <3>2
  <2>7. QED
    BY <2>4, <2>5, <2>6 DEF lo, hi
<1>2. QED
  BY <1>1, InitTypes, StepTypes, InitSwap, StepSwap, InitLog, StepLog, InitTrack, StepTrack,
     PTL DEF Spec

(* Once every event is handled and none was missed, the response is what the
   server would answer, whatever older events were applied to it and however the
   goroutine and the readers raced for it (mutate, storeResponse). *)
THEOREM EndsRight == Spec => []CaughtUp
<1>1. TypeInv /\ TrackInv => CaughtUp
  <2> SUFFICES ASSUME TypeInv, TrackInv, state # Nil, state.query = "active",
                      cursor = Len(log), state.from <= state.base,
                      NEW i \in Items, ~Revived(i)
               PROVE  state.items[i] = View("active", world)[i]
    BY DEF CaughtUp
  <2>1. Follows(state.items[i], Trace(i), cursor, state.base, state.from)
    BY DEF TrackInv
  <2>2. /\ state.base \in Nat /\ state.base <= Len(log) /\ Len(log) \in Nat
        /\ state.items[i] \in Shown
    BY LogFacts DEF TypeInv, TypeOK, Snapshot
  <2>3. Trace(i)[cursor] = View("active", world)[i] /\ Trace(i)[cursor] \in Shown
    BY <2>2, TraceType DEF Trace, World
  <2>4. state.items[i] = Trace(i)[cursor]
    <3>1. CASE cursor > state.base
      BY <2>1, <3>1 DEF Follows
    <3>2. CASE cursor = state.base
      <4>1. /\ state.items[i].here = Trace(i)[cursor].here
            /\ \A p \in Parts : p \in state.items[i].parts <=> p \in Trace(i)[cursor].parts
        BY <2>1, <2>2, <3>2 DEF Follows
      <4>2. state.items[i].parts = Trace(i)[cursor].parts
        BY <2>2, <2>3, <4>1 DEF Shown
      <4>3. QED
        BY <2>2, <2>3, <4>1, <4>2 DEF Shown
    <3>3. QED
      BY <2>2, <3>1, <3>2
  <2>5. QED
    BY <2>3, <2>4
<1>2. QED
  BY <1>1, InitTypes, StepTypes, InitSwap, StepSwap, InitLog, StepLog, InitTrack, StepTrack,
     PTL DEF Spec
=============================================================================
