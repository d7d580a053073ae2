--------------------- MODULE WorkerSubscriptionsProofs ---------------------
(* Proofs about WorkerSubscriptions, for any channels, workers and callers and
   any bounds: the types, the turns of the workers, and that copying brings no
   name back. *)
EXTENDS WorkerSubscriptions, SequenceTheorems, TLAPS

AnyItem == [channel : Channels, name : Nat]

StartPlaces == {"public_list", "public_subs", "public_subscribe", "worker_list",
                "worker_subscribe", "running"}

StartType == start = Down \/ start \in [at : StartPlaces, items : SUBSET AnyItem]

SyncType ==
  \/ sync = Off
  \/ sync = [at |-> "register"]
  \/ sync \in [at : {"consume"}, cursor : Nat]

Entry == [op : {"add", "remove"}, items : SUBSET AnyItem]
LogType == log \in Seq(Entry)

TypeInv ==
  /\ TypeOK
  /\ name \in [Channels -> Nat]
  /\ LogType /\ StartType /\ SyncType
  /\ strays \subseteq AnyItem /\ settled \subseteq AnyItem

-----------------------------------------------------------------------------
LEMMA ItemType ==
  ASSUME name \in [Channels -> Nat], NEW c \in Channels
  PROVE  Item(c) \in AnyItem
BY DEF Item, AnyItem

LEMMA ItemsType ==
  ASSUME name \in [Channels -> Nat], NEW cs \in SUBSET Channels
  PROVE  Items(cs) \subseteq AnyItem
BY DEF Items, Item, AnyItem

LEMMA EventType ==
  ASSUME LogType, name \in [Channels -> Nat],
         NEW cs \in SUBSET Channels, NEW op \in {"add", "remove"}, log' = Event(op, cs)
  PROVE  /\ LogType' /\ Len(log) \in Nat /\ Len(log') = Len(log) + 1
         /\ DOMAIN log = 1..Len(log) /\ DOMAIN log' = 1..Len(log) + 1
         /\ \A n \in DOMAIN log : log'[n] = log[n]
         /\ log'[Len(log) + 1] = [op |-> op, items |-> Items(cs)]
<1> DEFINE e == [op |-> op, items |-> Items(cs)]
<1>1. e \in Entry /\ log' = Append(log, e)
  BY ItemsType DEF Event, Entry
<1> HIDE DEF e
<1>2. LogType' /\ Len(log) \in Nat /\ Len(log') = Len(log) + 1
  BY <1>1 DEF LogType
<1>3. QED
  BY <1>1, <1>2 DEF e, LogType

(* What others do with channels leaves the process alone. *)
LEMMA OthersType ==
  ASSUME TypeInv, NEW c \in Channels, NEW cs \in SUBSET Channels,
         \/ MainAdded(cs) \/ MainRemoved(c) \/ Rename(c) \/ Delete(c) \/ Archive(c)
         \/ \E w \in Workers : WorkerRemoved(w, c)
  PROVE  TypeInv'
<1> USE DEF TypeInv, TypeOK
<1>i. Item(c) \in AnyItem
  BY ItemType
<1>1. CASE MainAdded(cs)
  <2>1. LogType' /\ Len(log) \in Nat /\ Len(log') = Len(log) + 1
    BY <1>1, EventType DEF MainAdded
  <2>2. QED
    BY <1>1, <2>1 DEF MainAdded, Other, robin, Active, StartType, SyncType
<1>2. CASE MainRemoved(c)
  <2>1. LogType' /\ Len(log) \in Nat /\ Len(log') = Len(log) + 1
    BY <1>2, EventType DEF MainRemoved
  <2>2. QED
    BY <1>2, <2>1 DEF MainRemoved, Other, robin, StartType, SyncType
<1>3. CASE Rename(c)
  BY <1>3, <1>i DEF Rename, Settle, Other, robin, StartType, SyncType, LogType
<1>4. CASE Delete(c)
  <2>1. LogType' /\ Len(log') \in {Len(log), Len(log) + 1}
    <3>1. CASE log' = log
      BY <3>1 DEF LogType
    <3>2. CASE log' = Event("remove", {c})
      <4>1. LogType' /\ Len(log') = Len(log) + 1
        BY <3>2, EventType
      <4>2. QED
        BY <4>1
    <3>3. QED
      BY <1>4, <3>1, <3>2 DEF Delete
  <2>2. Len(log) \in Nat
    BY LenProperties DEF LogType
  <2>3. settled' \subseteq AnyItem
    BY <1>4, <1>i DEF Delete, Settle
  <2>4. QED
    BY <1>4, <2>1, <2>2, <2>3 DEF Delete, Other, robin, StartType, SyncType
<1>5. CASE Archive(c)
  BY <1>5 DEF Archive, Other, robin, StartType, SyncType, LogType
<1>6. ASSUME NEW w \in Workers, WorkerRemoved(w, c)
      PROVE  TypeInv'
  BY <1>6 DEF WorkerRemoved, Other, robin, StartType, SyncType, LogType
<1>7. QED
  BY <1>1, <1>2, <1>3, <1>4, <1>5, <1>6

(* Subscribing adds channels that are there. *)
LEMMA FoundActive ==
  ASSUME NEW items
  PROVE  Found(items) \subseteq Active
BY DEF Found

LEMMA CopyToType ==
  ASSUME TypeInv, NEW items \in SUBSET AnyItem, NEW un, CopyTo(items, un), status' = status
  PROVE  /\ worker' \in [Workers -> SUBSET Channels]
         /\ \A c \in Channels, w \in Workers :
              status'[c] = "gone" /\ c \notin worker[w] => c \notin worker'[w]
         /\ strays' \subseteq AnyItem
<1>1. Found(items) \subseteq Active /\ Active \subseteq Channels
  BY FoundActive DEF Active
<1>2. \A c \in Active : status[c] # "gone"
  BY DEF Active
<1>3. QED
  BY <1>1, <1>2 DEF CopyTo, Created, TypeInv, TypeOK

LEMMA StartsType ==
  ASSUME TypeInv, StartStep \/ Restart
  PROVE  TypeInv'
<1> USE DEF TypeInv, TypeOK
<1>p. Public \cap Active \in SUBSET Channels /\ main \cap Active \in SUBSET Channels
  BY DEF Active
<1>0. /\ Items(Public \cap Active) \subseteq AnyItem
      /\ Items(main \cap Active) \subseteq AnyItem
  BY <1>p, ItemsType
<1>1. CASE Start
  BY <1>1 DEF Start, Starting, Goto, robin, StartType, SyncType, LogType, StartPlaces, Down
<1>2. CASE ListPublic
  BY <1>0, <1>2 DEF ListPublic, Starting, Goto, Exit, robin, StartType, SyncType, LogType,
     StartPlaces, Down
<1>3. CASE ListSubscribed
  BY <1>3 DEF ListSubscribed, Starting, Goto, Exit, robin, StartType, SyncType, LogType,
     StartPlaces, Down
<1>4. CASE SubscribeMain
  <2> DEFINE found == Found(start.items) \ main
  <2>0. start.items \subseteq AnyItem
    BY <1>4 DEF SubscribeMain, StartType, Down
  <2>1. found \subseteq Active /\ Active \subseteq Channels
    BY FoundActive DEF Active
  <2>2. LogType' /\ Len(log) \in Nat /\ Len(log') \in Nat /\ Len(log) <= Len(log')
    <3>1. log' = log \/ log' = Event("add", found)
      BY <1>4 DEF SubscribeMain
    <3>2. CASE log' = log
      BY <3>2 DEF LogType
    <3>3. CASE log' = Event("add", found)
      <4>1. found \in SUBSET Channels
        BY <2>1
      <4> HIDE DEF found
      <4>2. LogType' /\ Len(log) \in Nat /\ Len(log') = Len(log) + 1
        BY <3>3, <4>1, EventType
      <4>3. QED
        BY <4>2
    <3>4. QED
      BY <3>1, <3>2, <3>3
  <2>3. /\ main' = main \/ main' = main \cup found
        /\ strays' = strays \/ strays' = strays \cup {i \in start.items : ~Current(i)}
        /\ start' = Down \/ start' = [at |-> "worker_list", items |-> {}]
        /\ start.at = "public_subscribe"
        /\ UNCHANGED <<status, name, settled, sync, robin, worker, missed>>
    BY <1>4 DEF SubscribeMain, Goto, Exit, Starting, Created
  <2>4. main' \subseteq Channels /\ \A c \in main' : c \in main \/ status[c] # "gone"
    BY <2>1, <2>3 DEF Active
  <2>5. strays' \subseteq AnyItem
    BY <2>0, <2>3
  <2>6. StartType'
    BY <2>3 DEF StartType, StartPlaces
  <2>7. QED
    BY <2>2, <2>3, <2>4, <2>5, <2>6 DEF robin, SyncType
<1>5. CASE ListMain
  BY <1>0, <1>5 DEF ListMain, Starting, Goto, Exit, robin, StartType, SyncType, LogType,
     StartPlaces, Down
<1>6. CASE SubscribeWorkers
  <2>1. start.items \in SUBSET AnyItem
    BY <1>6 DEF SubscribeWorkers, StartType, Down
  <2>2. CASE Exit /\ UNCHANGED <<worker, strays, sync, missed>>
    BY <1>6, <2>1, <2>2 DEF SubscribeWorkers, Exit, robin, StartType, SyncType, LogType,
       StartPlaces, Down, AnyItem, Off
  <2>3. ASSUME NEW un, CopyTo(start.items, un)
        PROVE  TypeInv'
    <3>1. /\ worker' \in [Workers -> SUBSET Channels]
          /\ \A c \in Channels, w \in Workers :
               status'[c] = "gone" /\ c \notin worker[w] => c \notin worker'[w]
          /\ strays' \subseteq AnyItem
      BY <1>6, <2>1, <2>3, CopyToType DEF SubscribeWorkers
    <3>2. start' = Down \/ start' = [at |-> "running", items |-> {}]
      BY <1>6 DEF SubscribeWorkers, Goto, Exit
    <3>3. sync' = sync \/ (sync' = [at |-> "register"] /\ start'.at = "running")
      BY <1>6 DEF SubscribeWorkers, Goto
    <3>4. StartType' /\ SyncType'
      BY <3>2, <3>3 DEF StartType, SyncType, StartPlaces
    <3>5. missed' \subseteq Channels
      BY <1>6, <2>1 DEF SubscribeWorkers, AnyItem, ChannelsOf
    <3>6. sync # Off => start.at = "running"
      OBVIOUS
    <3>7. sync' # Off => start'.at = "running"
      BY <1>6, <3>3, <3>6 DEF SubscribeWorkers
    <3>8. QED
      BY <1>6, <3>1, <3>3, <3>4, <3>5, <3>7 DEF SubscribeWorkers, robin, LogType
  <2>4. QED
    BY <1>6, <2>2, <2>3 DEF SubscribeWorkers
<1>7. CASE Restart
  BY <1>7 DEF Restart, zulip, robin, StartType, SyncType, LogType, Off
<1>8. QED
  BY <1>1, <1>2, <1>3, <1>4, <1>5, <1>6, <1>7 DEF StartStep

LEMMA ComingType == ASSUME TypeInv PROVE Coming \subseteq AnyItem
<1> SUFFICES ASSUME sync.at = "consume", NEW n \in sync.cursor + 1..Len(log)
             PROVE  log[n].items \subseteq AnyItem
  BY DEF Coming
<1>1. n \in 1..Len(log)
  BY LenProperties DEF TypeInv, TypeOK, LogType
<1>2. log[n] \in Entry
  BY <1>1, ElementOfSeq DEF TypeInv, LogType
<1>3. QED
  BY <1>2 DEF Entry

LEMMA SyncsType ==
  ASSUME TypeInv, SyncStep \/ QueueFails
  PROVE  TypeInv'
<1> USE DEF TypeInv, TypeOK
<1>0. Len(log) \in Nat
  BY DEF LogType
<1>1. CASE RegisterQueue
  BY <1>0, <1>1 DEF RegisterQueue, Syncing, robin, StartType, SyncType, LogType, Off
<1>2. CASE QueueFails
  <2>1. ChannelsOf(Coming) \subseteq Channels
    BY ComingType DEF ChannelsOf, AnyItem
  <2>2. QED
    BY <1>2, <2>1 DEF QueueFails, Syncing, robin, StartType, SyncType, LogType, Off
<1>3. CASE SkipEvent
  BY <1>0, <1>3 DEF SkipEvent, HasEvent, Done, Syncing, robin, StartType, SyncType, LogType, Off
<1>4. CASE CopyEvent
  <2> DEFINE items == log[sync.cursor + 1].items
  <2>1. sync.cursor \in Nat /\ sync.cursor + 1 \in 1..Len(log) /\ sync.at = "consume"
    BY <1>0, <1>4 DEF CopyEvent, HasEvent
  <2>2. items \subseteq AnyItem
    <3>1. log[sync.cursor + 1] \in Entry
      BY <2>1, ElementOfSeq DEF LogType
    <3>2. QED
      BY <3>1 DEF Entry
  <2>3. \/ \E cs : CopyTo(items, cs)
        \/ UNCHANGED <<worker, strays>>
    BY <1>4 DEF CopyEvent
  <2>4. missed' \subseteq Channels
    BY <1>4, <2>2 DEF CopyEvent, AnyItem, ChannelsOf
  <2>5. /\ sync' = [at |-> "consume", cursor |-> sync.cursor + 1]
        /\ UNCHANGED <<status, name, settled, main, log, start, robin>>
    BY <1>4 DEF CopyEvent, Done, Syncing
  <2> HIDE DEF items
  <2>6. /\ worker' \in [Workers -> SUBSET Channels]
        /\ \A c \in Channels, w \in Workers :
             status'[c] = "gone" /\ c \notin worker[w] => c \notin worker'[w]
        /\ strays' \subseteq AnyItem
    BY <2>2, <2>3, <2>5, CopyToType
  <2>7. QED
    BY <2>1, <2>4, <2>5, <2>6 DEF robin, StartType, SyncType, LogType, Off
<1>5. QED
  BY <1>1, <1>2, <1>3, <1>4 DEF SyncStep

LEMMA LookupsType ==
  ASSUME TypeInv, NEW k \in Callers, Lock(k) \/ Unlock(k)
  PROVE  TypeInv'
<1>1. (nextIdx + 1) % NWorkers \in Workers
  BY WorkersAssumption DEF TypeInv, TypeOK, Workers
<1>2. QED
  BY <1>1 DEF TypeInv, TypeOK, Lock, Unlock, LookingUp, zulip, StartType, SyncType, LogType

LEMMA InitType == Init => TypeInv
BY WorkersAssumption DEF Init, TypeInv, TypeOK, Workers, LogType, StartType, SyncType

LEMMA StepType == TypeInv /\ [Next]_vars => TypeInv'
<1>1. TypeInv /\ UNCHANGED vars => TypeInv'
  BY DEF TypeInv, TypeOK, vars, zulip, robin, StartType, SyncType, LogType
<1>2. ASSUME TypeInv, NEW cs \in (SUBSET Channels) \ {{}}, MainAdded(cs)
      PROVE  TypeInv'
  <2>0. cs # {} /\ \A c \in cs : c \in Channels
    OBVIOUS
  <2>1. PICK c \in Channels : c \in cs
    BY <2>0
  <2>2. QED
    BY <1>2, <2>1, OthersType
<1>3. ASSUME TypeInv, NEW c \in Channels,
             \/ MainRemoved(c) \/ Rename(c) \/ Delete(c) \/ Archive(c)
             \/ \E w \in Workers : WorkerRemoved(w, c)
      PROVE  TypeInv'
  <2>1. {} \in SUBSET Channels
    OBVIOUS
  <2>2. QED
    BY <1>3, <2>1, OthersType
<1>4. QED
  BY <1>1, <1>2, <1>3, StartsType, SyncsType, LookupsType DEF Next

(* Nothing the process or others do takes a variable out of its type; the sync
   goroutine runs only in a process that has come up
   (StartWorkerSubscriptionSyncQueue), and never ahead of its events. *)
THEOREM TypeCorrect == Spec => []TypeOK
<1>1. TypeInv => TypeOK
  BY DEF TypeInv
<1>2. QED
  BY <1>1, InitType, StepType, PTL DEF Spec

-----------------------------------------------------------------------------
LEMMA ModSmall == ASSUME NEW n \in Nat \ {0}, NEW a \in Nat, a < n
                  PROVE  a % n = a
BY SMT

LEMMA ModSelf == ASSUME NEW n \in Nat \ {0}
                 PROVE  n % n = 0
BY SMT

(* Turns. The last worker has had as many lookups as there were full rounds; those
   whose turn was in this round had one more. The one at the index has had its
   lookup while the mutex is held. *)

Last == NWorkers - 1
Ahead(w) == IF mu = "free" THEN w < nextIdx ELSE nextIdx # Last /\ w <= nextIdx

TurnInv ==
  /\ uses \in [Workers -> Nat]
  /\ \A w \in Workers : uses[w] = uses[Last] + (IF Ahead(w) THEN 1 ELSE 0)

LEMMA LastWorker == Last \in Workers /\ \A w \in Workers : w \in Nat /\ w <= Last
BY WorkersAssumption DEF Last, Workers

LEMMA InitTurn == Init => TurnInv
BY LastWorker DEF Init, TurnInv, Ahead, Workers

LEMMA StepTurn == TypeInv /\ TurnInv /\ [Next]_vars => TurnInv'
<1> SUFFICES ASSUME TypeInv, TurnInv, [Next]_vars
             PROVE  TurnInv'
  OBVIOUS
<1>0. nextIdx \in Workers /\ NWorkers \in Nat \ {0} /\ "free" \notin Callers
  BY WorkersAssumption DEF TypeInv, TypeOK
<1>1. CASE UNCHANGED robin
  BY <1>1 DEF TurnInv, Ahead, robin
<1>2. ASSUME NEW k \in Callers, Lock(k)
      PROVE  TurnInv'
  <2>1. /\ mu = "free" /\ mu' # "free" /\ nextIdx' = nextIdx
        /\ \A w \in Workers : uses'[w] = IF w = nextIdx THEN uses[w] + 1 ELSE uses[w]
        /\ uses' \in [Workers -> Nat]
    BY <1>0, <1>2 DEF Lock, TurnInv
  <2>2. \A w \in Workers : w \in Nat /\ w <= Last /\ Last \in Workers
    BY LastWorker
  <2>3. \A w \in Workers : uses[w] = uses[Last] + (IF w < nextIdx THEN 1 ELSE 0)
    BY <2>1 DEF TurnInv, Ahead
  <2>4. uses \in [Workers -> Nat] /\ nextIdx \in Nat
    BY <1>0, <2>2 DEF TurnInv
  <2>5. ASSUME NEW w \in Workers
        PROVE  uses'[w] = uses'[Last] + (IF nextIdx # Last /\ w <= nextIdx THEN 1 ELSE 0)
    <3>1. /\ uses'[w] = IF w = nextIdx THEN uses[w] + 1 ELSE uses[w]
          /\ uses'[Last] = IF Last = nextIdx THEN uses[Last] + 1 ELSE uses[Last]
          /\ uses[w] = uses[Last] + (IF w < nextIdx THEN 1 ELSE 0)
          /\ uses[w] \in Nat /\ uses[Last] \in Nat
          /\ w \in Nat /\ nextIdx \in Nat /\ Last \in Nat /\ w <= Last
      BY <2>1, <2>2, <2>3, <2>4
    <3>2. QED
      BY <3>1
  <2>6. QED
    BY <2>1, <2>5 DEF TurnInv, Ahead
<1>3. ASSUME NEW k \in Callers, Unlock(k)
      PROVE  TurnInv'
  <2>1. mu # "free" /\ mu' = "free" /\ uses' = uses /\ nextIdx' = (nextIdx + 1) % NWorkers
    BY <1>0, <1>3 DEF Unlock, LookingUp
  <2>2. nextIdx' = IF nextIdx = Last THEN 0 ELSE nextIdx + 1
    <3>1. CASE nextIdx = Last
      BY <1>0, <2>1, <3>1, ModSelf DEF Last
    <3>2. CASE nextIdx # Last
      <4>1. nextIdx + 1 \in Nat /\ nextIdx + 1 < NWorkers
        BY <1>0, <3>2 DEF Last, Workers
      <4>2. QED
        BY <1>0, <2>1, <3>2, <4>1, ModSmall
    <3>3. QED
      BY <3>1, <3>2
  <2>3. \A w \in Workers : w \in Nat /\ (w < nextIdx' <=> nextIdx # Last /\ w <= nextIdx)
    BY <1>0, <2>2, LastWorker
  <2>4. mu # "free" /\ \A w \in Workers : uses[w] = uses[Last] +
          (IF nextIdx # Last /\ w <= nextIdx THEN 1 ELSE 0)
    BY <2>1 DEF TurnInv, Ahead
  <2>5. \A w \in Workers : uses'[w] = uses'[Last] + (IF w < nextIdx' THEN 1 ELSE 0)
    BY <2>1, <2>3, <2>4
  <2>6. QED
    BY <2>1, <2>5 DEF TurnInv, Ahead
<1>4. QED
  BY <1>1, <1>2, <1>3 DEF Next, vars, MainAdded, MainRemoved, Rename, Delete, Archive,
     WorkerRemoved, Other, StartStep, Start, ListPublic, ListSubscribed, SubscribeMain,
     ListMain, SubscribeWorkers, Starting, Restart, SyncStep, RegisterQueue, SkipEvent,
     CopyEvent, Syncing, QueueFails

(* However the lookups of any number of goroutines overlap, no worker gets more
   than one lookup ahead of another (next). *)
THEOREM TurnsAlways == Spec => []TakeTurns
<1>1. TypeInv /\ TurnInv => TakeTurns
  <2> SUFFICES ASSUME TurnInv, NEW v \in Workers, NEW w \in Workers
               PROVE  uses[v] <= uses[w] + 1
    BY DEF TakeTurns
  <2>1. uses[v] \in Nat /\ uses[w] \in Nat /\ uses[Last] \in Nat
    BY LastWorker DEF TurnInv
  <2>2. QED
    BY <2>1 DEF TurnInv
<1>2. QED
  BY <1>1, InitType, StepType, InitTurn, StepTurn, PTL DEF Spec

-----------------------------------------------------------------------------
(* Names. Whatever was read or sent is not newer than the names in use, and a name
   that its channel has lost does not come back. *)

StartItems == IF start = Down THEN {} ELSE start.items
CurrentItems == {Item(c) : c \in {d \in Channels : status[d] # "gone"}}

NamesInv ==
  /\ \A i \in strays \cup settled \cup StartItems : i.name <= name[i.channel]
  /\ \A n \in DOMAIN log : \A i \in log[n].items : i.name <= name[i.channel]
  /\ \A i \in strays \cup settled : ~Current(i)
  /\ settled \cap Pending = {}
  /\ settled \cap strays = {}

LEMMA InitNames == Init => NamesInv
BY DEF Init, NamesInv, StartItems

(* A step that only reads, sends and copies names in use, or counts events. *)
LEMMA NamesKept ==
  ASSUME TypeInv, TypeInv', NamesInv, UNCHANGED <<name, settled>>,
         \A c \in Channels : status'[c] = "gone" <=> status[c] = "gone",
         strays' \subseteq strays \cup {i \in Pending : ~Current(i)},
         StartItems' \subseteq StartItems \cup CurrentItems,
         \A n \in DOMAIN log : n \in DOMAIN log' /\ log'[n] = log[n],
         \A n \in DOMAIN log' : n \in DOMAIN log \/ log'[n].items \subseteq CurrentItems,
         sync'.at = "consume" => \/ sync'.cursor >= Len(log)
                                 \/ sync.at = "consume" /\ sync.cursor <= sync'.cursor
  PROVE  NamesInv'
<1> DEFINE InUse(i) == i \in AnyItem /\ i.name <= name[i.channel]
<1>1. \A i \in CurrentItems : i \in AnyItem /\ i.name = name[i.channel] /\ Current(i)
  <2>1. ASSUME NEW c \in Channels, status[c] # "gone"
        PROVE  Item(c) \in AnyItem /\ Item(c).name = name[Item(c).channel] /\ Current(Item(c))
    <3>1. Item(c) \in AnyItem
      BY ItemType DEF TypeInv
    <3>2. QED
      BY <2>1, <3>1 DEF Item, Current
  <2>2. QED
    BY <2>1 DEF CurrentItems
<1>2. \A i \in AnyItem : Current(i)' <=> Current(i)
  BY DEF Current, AnyItem
<1>3. \A i \in CurrentItems : i \notin settled
  BY <1>1 DEF NamesInv
<1>4. StartItems \subseteq AnyItem /\ StartItems' \subseteq AnyItem
  BY DEF TypeInv, StartType, StartItems, Down
<1>5. /\ DOMAIN log = 1..Len(log) /\ Len(log) \in Nat
      /\ DOMAIN log' = 1..Len(log') /\ Len(log') \in Nat
      /\ \A n \in DOMAIN log : log[n].items \subseteq AnyItem
  <2>1. \A n \in 1..Len(log) : log[n] \in Entry
    BY ElementOfSeq DEF TypeInv, LogType
  <2>2. QED
    BY <2>1, LenProperties DEF TypeInv, LogType, Entry
<1>6. Coming' \subseteq CurrentItems \cup Coming
  <2> SUFFICES ASSUME sync'.at = "consume", NEW n \in sync'.cursor + 1..Len(log'),
                      log'[n].op = "add", ~(log'[n].items \subseteq CurrentItems)
               PROVE  log'[n].items \subseteq Coming
    BY DEF Coming
  <2>1. sync'.cursor \in Nat /\ n \in Nat /\ n >= sync'.cursor + 1 /\ n <= Len(log')
    BY <1>5 DEF TypeInv, TypeOK
  <2>2. n \in DOMAIN log /\ log'[n] = log[n] /\ n <= Len(log)
    BY <1>5, <2>1
  <2>3. sync.at = "consume" /\ sync.cursor <= sync'.cursor
    BY <1>5, <2>1, <2>2
  <2>4. sync.cursor \in Nat
    BY <2>3 DEF TypeInv, TypeOK
  <2>5. n \in sync.cursor + 1..Len(log) /\ log[n].op = "add"
    BY <1>5, <2>1, <2>2, <2>3, <2>4
  <2>6. QED
    BY <2>2, <2>3, <2>5 DEF Coming
<1>7. Pending' \subseteq Pending \cup CurrentItems
  BY <1>6 DEF Pending, StartItems
<1>8. Pending \subseteq AnyItem /\ \A i \in Pending : i.name <= name[i.channel]
  <2>1. sync.at = "consume" => \A n \in sync.cursor + 1..Len(log) : n \in DOMAIN log
    BY <1>5 DEF TypeInv, TypeOK
  <2>2. QED
    BY <1>4, <1>5, <2>1 DEF Pending, Coming, StartItems, NamesInv
<1>9. \A i \in strays' : i \in AnyItem /\ i.name <= name[i.channel] /\ ~Current(i)
                        /\ i \notin settled
  BY <1>8 DEF NamesInv, TypeInv
<1>10. \A i \in StartItems' : i.name <= name[i.channel]
  BY <1>1 DEF NamesInv, AnyItem
<1>11. \A n \in DOMAIN log' : \A i \in log'[n].items : i.name <= name[i.channel]
  BY <1>1 DEF NamesInv, AnyItem
<1>12. \A i \in settled : i \in AnyItem /\ i.name <= name[i.channel] /\ ~Current(i)
  BY DEF NamesInv, TypeInv
<1>13. QED
  BY <1>2, <1>3, <1>7, <1>9, <1>10, <1>11, <1>12 DEF NamesInv

(* A name is lost: nobody asks for the item any more, or it is not settled. *)
LEMMA NamesLost ==
  ASSUME TypeInv, TypeInv', NamesInv, NEW c \in Channels, Rename(c) \/ Delete(c)
  PROVE  NamesInv'
<1>0. PICK lost \in AnyItem : lost = Item(c)
  BY ItemType DEF TypeInv
<1>1. /\ status[c] # "gone" /\ Current(lost)
      /\ lost.channel = c /\ lost.name = name[c]
  BY <1>0 DEF Rename, Delete, Active, Item, Current
<1>2. /\ name \in [Channels -> Nat] /\ name' \in [Channels -> Nat]
      /\ \A d \in Channels : name[d] <= name'[d]
      /\ \A d \in Channels : status[d] = "gone" => status'[d] = "gone"
      /\ status'[c] = "gone" \/ name'[c] = name[c] + 1
  <2>1. CASE Rename(c)
    BY <2>1 DEF Rename, TypeInv, Other
  <2>2. CASE Delete(c)
    BY <2>2 DEF Delete, TypeInv, TypeOK
  <2>3. QED
    BY <2>1, <2>2
<1>3. (~Current(lost))'
  <2>1. name[c] \in Nat /\ name[c] + 1 # name[c]
    BY <1>2
  <2>2. status'[lost.channel] = "gone" \/ name'[lost.channel] # lost.name
    BY <1>1, <1>2, <2>1
  <2>3. QED
    BY <2>2 DEF Current
<1>4. settled' = settled \cup ({lost} \ Pending)
      /\ UNCHANGED <<strays, start, sync>>
  BY <1>0 DEF Rename, Delete, Settle, Other
<1>5. \A i \in AnyItem : i.name <= name[i.channel] /\ ~Current(i)
        => i.name <= name'[i.channel] /\ (~Current(i))'
  BY <1>2 DEF AnyItem, Current
<1>6. \A i \in AnyItem : i.name <= name[i.channel] => i.name <= name'[i.channel]
  BY <1>2 DEF AnyItem
<1>7. /\ \A n \in DOMAIN log : log[n].items \subseteq AnyItem
      /\ DOMAIN log = 1..Len(log) /\ Len(log) \in Nat
  <2>1. \A n \in 1..Len(log) : log[n] \in Entry
    BY ElementOfSeq DEF TypeInv, LogType
  <2>2. QED
    BY <2>1, LenProperties DEF TypeInv, LogType, Entry
<1>8. /\ \A n \in DOMAIN log' : log'[n].items = {lost} \/ (n \in DOMAIN log /\ log'[n] = log[n])
      /\ Pending' = Pending
  <2>1. CASE log' = log
    BY <1>4, <2>1 DEF Pending, Coming
  <2>2. CASE log' = Event("remove", {c})
    <3>1. /\ DOMAIN log' = 1..Len(log) + 1 /\ Len(log') = Len(log) + 1
          /\ \A n \in DOMAIN log : log'[n] = log[n]
          /\ log'[Len(log) + 1] = [op |-> "remove", items |-> {lost}]
      <4>1. Items({c}) = {lost} /\ {c} \in SUBSET Channels
        BY <1>0 DEF Items
      <4>2. QED
        BY <2>2, <4>1, EventType DEF TypeInv
    <3>2. sync.at = "consume" =>
            {m \in sync.cursor + 1..Len(log') : log'[m].op = "add"}
              = {m \in sync.cursor + 1..Len(log) : log[m].op = "add"}
      <4>1. sync.at = "consume" => sync.cursor \in Nat
        BY DEF TypeInv, TypeOK
      <4>2. QED
        BY <1>7, <3>1, <4>1
    <3>3. sync.at = "consume" =>
            \A n \in {m \in sync.cursor + 1..Len(log) : log[m].op = "add"} : log'[n] = log[n]
      <4>1. sync.at = "consume" => sync.cursor \in Nat
        BY DEF TypeInv, TypeOK
      <4>2. QED
        BY <1>7, <3>1, <4>1
    <3>4. Pending' = Pending
      BY <1>4, <3>2, <3>3 DEF Pending, Coming
    <3>5. QED
      BY <1>7, <3>1, <3>4
  <2>3. QED
    BY <2>1, <2>2 DEF Rename, Delete, Other
<1>9. StartItems' = StartItems /\ StartItems \subseteq AnyItem
  BY <1>4 DEF StartItems, TypeInv, StartType, Down
<1>10. \A i \in strays : i # lost
  BY <1>1 DEF NamesInv
<1>11. lost.name <= name'[lost.channel] /\ strays \cup settled \subseteq AnyItem
  BY <1>1, <1>2 DEF TypeInv, AnyItem
<1>12. \A i \in strays' \cup settled' : i.name <= name'[i.channel] /\ (~Current(i))'
  BY <1>3, <1>4, <1>5, <1>11 DEF NamesInv
<1>13. \A n \in DOMAIN log' : \A i \in log'[n].items : i.name <= name'[i.channel]
  BY <1>6, <1>7, <1>8, <1>11 DEF NamesInv
<1>14. \A i \in StartItems' : i.name <= name'[i.channel]
  BY <1>6, <1>9 DEF NamesInv
<1>15. QED
  BY <1>4, <1>8, <1>10, <1>12, <1>13, <1>14 DEF NamesInv

(* An event about channels that are there has names in use. *)
LEMMA EventLog ==
  ASSUME TypeInv, NEW cs \in SUBSET Channels, \A c \in cs : status[c] # "gone",
         NEW op \in {"add", "remove"}, log' = Event(op, cs)
  PROVE  /\ \A n \in DOMAIN log : n \in DOMAIN log' /\ log'[n] = log[n]
         /\ \A n \in DOMAIN log' : n \in DOMAIN log \/ log'[n].items \subseteq CurrentItems
<1>1. Items(cs) \subseteq CurrentItems
  BY DEF Items, CurrentItems
<1>2. /\ Len(log) \in Nat /\ DOMAIN log = 1..Len(log) /\ DOMAIN log' = 1..Len(log) + 1
      /\ \A n \in DOMAIN log : log'[n] = log[n]
      /\ log'[Len(log) + 1] = [op |-> op, items |-> Items(cs)]
  BY EventType DEF TypeInv
<1>3. QED
  BY <1>1, <1>2

(* Others add, remove and archive. *)
LEMMA OthersNames ==
  ASSUME TypeInv, TypeInv', NamesInv, NEW c \in Channels, NEW cs \in SUBSET Channels,
         \/ MainAdded(cs) \/ MainRemoved(c) \/ Archive(c)
         \/ \E w \in Workers : WorkerRemoved(w, c)
  PROVE  NamesInv'
<1>1. /\ UNCHANGED <<name, settled, strays, start, sync>>
      /\ \A d \in Channels : status'[d] = "gone" <=> status[d] = "gone"
  BY DEF MainAdded, MainRemoved, Archive, WorkerRemoved, Other, TypeInv, TypeOK
<1>2. /\ StartItems' = StartItems
      /\ sync.at = "consume" => sync.cursor \in Nat /\ sync'.cursor = sync.cursor
  BY <1>1 DEF StartItems, TypeInv, TypeOK
<1>4. CASE log' = log
  BY <1>1, <1>2, <1>4, NamesKept
<1>5. CASE MainAdded(cs) \/ MainRemoved(c)
  <2>1. PICK op \in {"add", "remove"}, new \in SUBSET Channels :
          log' = Event(op, new) /\ \A d \in new : status[d] # "gone"
    <3>1. CASE MainAdded(cs)
      BY <3>1 DEF MainAdded, Active
    <3>2. CASE MainRemoved(c)
      <4>1. {c} \in SUBSET Channels /\ status[c] # "gone"
        BY <3>2 DEF MainRemoved, TypeInv, TypeOK
      <4>2. QED
        BY <3>2, <4>1 DEF MainRemoved
    <3>3. QED
      BY <1>5, <3>1, <3>2
  <2>2. /\ \A n \in DOMAIN log : n \in DOMAIN log' /\ log'[n] = log[n]
        /\ \A n \in DOMAIN log' : n \in DOMAIN log \/ log'[n].items \subseteq CurrentItems
    BY <2>1, EventLog
  <2>3. QED
    BY <1>1, <1>2, <2>2, NamesKept
<1>6. QED
  BY <1>4, <1>5 DEF Archive, WorkerRemoved

(* The start reads names in use, and what it sends it has read. *)
LEMMA StartsNames ==
  ASSUME TypeInv, TypeInv', NamesInv, StartStep \/ Restart
  PROVE  NamesInv'
<1>1. UNCHANGED <<name, status, settled>>
  BY DEF StartStep, Start, ListPublic, ListSubscribed, SubscribeMain, ListMain,
     SubscribeWorkers, Starting, Restart, zulip
<1>2. StartItems' \subseteq StartItems \cup CurrentItems
  <2>1. CASE start' = Down
    BY <2>1 DEF StartItems
  <2>2. CASE start' # Down
    BY <2>2 DEF StartStep, Start, ListPublic, ListSubscribed, SubscribeMain, ListMain,
       SubscribeWorkers, Restart, Exit, Goto, StartItems, CurrentItems, Items, Active, Down
  <2>3. QED
    BY <2>1, <2>2
<1>3. strays' \subseteq strays \cup {i \in Pending : ~Current(i)}
  <2>1. CASE strays' = strays
    BY <2>1
  <2>2. CASE strays' = strays \cup {i \in start.items : ~Current(i)} /\ start # Down
    BY <2>2 DEF Pending
  <2>3. QED
    BY <2>1, <2>2 DEF StartStep, Start, ListPublic, ListSubscribed, SubscribeMain, ListMain,
       SubscribeWorkers, Starting, Restart, zulip, Exit, Created, CopyTo, Down
<1>4. /\ \A n \in DOMAIN log : n \in DOMAIN log' /\ log'[n] = log[n]
      /\ \A n \in DOMAIN log' : n \in DOMAIN log \/ log'[n].items \subseteq CurrentItems
  <2>1. CASE log' = log
    BY <2>1
  <2>2. CASE SubscribeMain /\ log' # log
    <3> DEFINE found == Found(start.items) \ main
    <3>1. log' = Event("add", found)
      BY <2>2 DEF SubscribeMain
    <3>2. found \in SUBSET Channels /\ \A d \in found : status[d] # "gone"
      BY DEF Found, Active
    <3>3. QED
      BY <3>1, <3>2, EventLog
  <2>3. QED
    BY <2>1, <2>2 DEF StartStep, Start, ListPublic, ListSubscribed, ListMain,
       SubscribeWorkers, Starting, Restart, zulip
<1>5. sync'.at = "consume" => sync.at = "consume" /\ sync.cursor <= sync'.cursor
  <2>1. sync.at = "consume" => sync.cursor \in Nat
    BY DEF TypeInv, TypeOK
  <2>2. sync' = sync \/ sync'.at # "consume"
    BY DEF StartStep, Start, ListPublic, ListSubscribed, SubscribeMain, ListMain,
       SubscribeWorkers, Starting, Restart, Off
  <2>3. QED
    BY <2>1, <2>2
<1>6. QED
  BY <1>1, <1>2, <1>3, <1>4, <1>5, NamesKept

(* The goroutine copies what is pending. *)
LEMMA SyncsNames ==
  ASSUME TypeInv, TypeInv', NamesInv, SyncStep \/ QueueFails
  PROVE  NamesInv'
<1>1. UNCHANGED <<name, status, settled, log, start>>
  BY DEF SyncStep, RegisterQueue, SkipEvent, CopyEvent, QueueFails, Syncing
<1>2. StartItems' \subseteq StartItems
  BY <1>1 DEF StartItems
<1>3. strays' \subseteq strays \cup {i \in Pending : ~Current(i)}
  <2>1. CASE strays' = strays
    BY <2>1
  <2>2. CASE CopyEvent /\ strays' # strays
    <3> DEFINE items == log[sync.cursor + 1].items
    <3>1. HasEvent /\ log[sync.cursor + 1].op = "add" /\ strays' = strays \cup {j \in items : ~Current(j)}
      BY <2>2 DEF CopyEvent, CopyTo, Created
    <3>2. /\ sync.at = "consume" /\ sync.cursor \in Nat
          /\ sync.cursor + 1 \in sync.cursor + 1..Len(log)
      BY <3>1, LenProperties DEF HasEvent, TypeInv, TypeOK, LogType
    <3>3. items \subseteq Pending
      BY <3>1, <3>2 DEF Pending, Coming
    <3>4. QED
      BY <3>1, <3>3
  <2>3. QED
    BY <2>1, <2>2 DEF SyncStep, RegisterQueue, SkipEvent, QueueFails
<1>4. sync'.at = "consume" => \/ sync'.cursor >= Len(log)
                              \/ sync.at = "consume" /\ sync.cursor <= sync'.cursor
  <2>0. (sync.at = "consume" => sync.cursor \in Nat) /\ Len(log) \in Nat
    BY LenProperties DEF TypeInv, TypeOK, LogType
  <2>1. CASE sync' = sync
    BY <2>0, <2>1
  <2>2. CASE sync' = Done /\ HasEvent
    BY <2>0, <2>2 DEF Done, HasEvent
  <2>3. QED
    BY <2>0, <2>1, <2>2 DEF SyncStep, RegisterQueue, SkipEvent, CopyEvent, QueueFails
<1>5. QED
  BY <1>1, <1>2, <1>3, <1>4, NamesKept

LEMMA StepNames == TypeInv /\ TypeInv' /\ NamesInv /\ [Next]_vars => NamesInv'
<1> SUFFICES ASSUME TypeInv, TypeInv', NamesInv, [Next]_vars
             PROVE  NamesInv'
  OBVIOUS
<1>1. CASE UNCHANGED <<zulip, missed, start, sync>>
  BY <1>1 DEF zulip, NamesInv, StartItems, Pending, Coming, Current
<1>2. ASSUME NEW k \in Callers, Lock(k) \/ Unlock(k)
      PROVE  NamesInv'
  BY <1>1, <1>2 DEF Lock, Unlock, LookingUp
<1>3. ASSUME NEW cs \in (SUBSET Channels) \ {{}}, MainAdded(cs)
      PROVE  NamesInv'
  <2>0. cs # {} /\ \A c \in cs : c \in Channels
    OBVIOUS
  <2>1. PICK c \in Channels : c \in cs
    BY <2>0
  <2>2. QED
    BY <1>3, <2>1, OthersNames
<1>4. ASSUME NEW c \in Channels,
             \/ MainRemoved(c) \/ Archive(c) \/ \E w \in Workers : WorkerRemoved(w, c)
      PROVE  NamesInv'
  <2>1. {} \in SUBSET Channels
    OBVIOUS
  <2>2. QED
    BY <1>4, <2>1, OthersNames
<1>5. QED
  BY <1>1, <1>2, <1>3, <1>4, NamesLost, StartsNames, SyncsNames DEF Next, vars

(* Whatever is renamed, deleted, read and sent in any order, copying does not bring
   back a channel under a name that it lost when neither a list nor an event to
   come asked for it (SyncWorkerSubscriptions, handleWorkerSubscriptionSyncEvent). *)
THEOREM NothingBroughtBack == Spec => []OnlyOvertaken
<1>1. NamesInv => OnlyOvertaken
  BY DEF NamesInv, OnlyOvertaken
<1>2. QED
  BY <1>1, InitType, StepType, InitNames, StepNames, PTL DEF Spec
=============================================================================
