----------------- MODULE ChannelGroupMembershipSerialProofs -----------------
(***************************************************************************)
(* Theorems about ChannelGroupMembership where one caller makes one call    *)
(* after the other, as the bot's event loop does: for any groups, channels, *)
(* users and bounds, what its calls leave of members and subscriptions.     *)
(***************************************************************************)
EXTENDS ChannelGroupMembershipProofs

---------------------------------------------------------------------------
(* What the caller k knows at its places.  It is the only one, so what it   *)
(* read is still true.  Answers are not lost; requests may fail.            *)

Told == faults = 0 \/ "lose" \notin FaultKinds

InSubscribe   == {"subLock", "subAdd", "subBump", "subRead", "subEnter", "subCheck"}
Added         == {"subBump", "subRead", "subEnter", "subCheck"}
InUnsubscribe == Unsubscribing \cup {"unStart", "unRestore", "unFinal"}
BeforeCommit  == {"upMembers", "upEnter", "upCommit"}
Undoing       == {"undoMember", "undoChannels"}
Known         == InSubscribe \cup Undoing \cup InUnsubscribe \cup Updating
                   \cup {"delEmpty", "subClean", "unResub"}

SubscribePlace(k) ==
  /\ pc[k] \in InSubscribe \cup Undoing => "subscribe" \in called
  /\ pc[k] \in Undoing => faults > 0
  /\ pc[k] \in InSubscribe \ {"subLock"} => job[k].g \in exists
  /\ pc[k] \in {"subLock", "subAdd"} => job[k].done = {}
  /\ pc[k] \in Added =>
       /\ job[k].u \in members[job[k].g]
       /\ \A c \in job[k].done : <<job[k].u, c>> \in subs
  /\ pc[k] = "subEnter" => job[k].target = chans[job[k].g] \ job[k].done
  /\ pc[k] # "subClean"

UnsubscribePlace(k) ==
  /\ pc[k] \in InUnsubscribe =>
       job[k].g \in exists /\ job[k].chans = chans[job[k].g] /\ ~job[k].final
  /\ pc[k] \in Unsubscribing => job[k].start = gen[job[k].g][job[k].u]
  /\ pc[k] \in {"unShared", "unCover", "unLeave"} => job[k].target = job[k].chans /\ ~job[k].keep
  /\ pc[k] = "unRestore" => faults > 0 /\ ~job[k].keep
  /\ pc[k] # "unResub"

\* Another group keeps the user of an unsubscribe in a channel.
Elsewhere(k, c) ==
  \E g \in Groups : g # job[k].g /\ job[k].u \in members[g] /\ c \in chans[g]

\* What is covered by other groups is, and what is covered is known or still to
\* be asked for.
CoverPlace(k) ==
  /\ pc[k] = "unCover" =>
       \A g \in Groups, c \in Channels :
         <<g, c>> \in job[k].pending => g # job[k].g /\ c \in chans[g]
  /\ pc[k] \in {"unCover", "unLeave"} =>
       /\ \A c \in job[k].covered : Elsewhere(k, c)
       /\ \A g \in Groups, c \in Channels :
            g # job[k].g /\ job[k].u \in members[g] /\ c \in chans[g] /\ c \in job[k].target =>
              c \in job[k].covered \/ (pc[k] = "unCover" /\ <<g, c>> \in job[k].pending)

UpdatePlace(k) ==
  /\ pc[k] \in Updating => job[k].g \in exists
  /\ pc[k] \in BeforeCommit => job[k].target = job[k].chans \ chans[job[k].g]
  /\ pc[k] = "upEnter" => job[k].users = members[job[k].g]
  /\ pc[k] \in {"upCommit", "upCheck"} => job[k].users \subseteq members[job[k].g]
  /\ pc[k] = "upCommit" =>
       \A u \in members[job[k].g], c \in job[k].target : <<u, c>> \in subs
  /\ pc[k] # "upClean"

DeletePlace(k) == pc[k] = "delEmpty" => job[k].users = members[job[k].g]

PlaceInv(k) ==
  Told => /\ SubscribePlace(k) /\ UnsubscribePlace(k) /\ CoverPlace(k)
          /\ UpdatePlace(k) /\ DeletePlace(k)

\* Nothing fails but what a failure before has left: a group whose row could not
\* be deleted is deactivated.
GroupsInv(k) ==
  Told => /\ \A g \in exists : g \in active \/ faults > 0 \/ (pc[k] = "delRow" /\ job[k].g = g)
          /\ \A g \in Groups \ exists : chans[g] = {}

---------------------------------------------------------------------------
(* What may be missing, and what may be too much, within a call.            *)

Sure == Told /\ faults <= 1 /\ (faults > 0 => "subscribe" \notin called)

\* A user who is about to enter the channels, or has left them.
Left(k, g, u) ==
  /\ g = job[k].g /\ u = job[k].u
  /\ pc[k] \in Added \/ (pc[k] \in {"unLock", "unDelete", "unRestore"} /\ ~job[k].keep)

\* The members whom the undo of a deletion puts back.
Restorable(k) ==
  pc[k] \in {"delEmpty", "delDeactivate", "delRestore"} =>
    \A u \in job[k].users, c \in chans[job[k].g] : <<u, c>> \in subs

MissingInv(k) ==
  Sure => /\ \A g \in Groups : \A u \in members[g], c \in chans[g] :
               <<u, c>> \in subs \/ Left(k, g, u)
          /\ Restorable(k)

\* A member of a group is in its channel.
Due(u, c) == \E g \in Groups : u \in members[g] /\ c \in chans[g]

\* The channel is about to be the group's, or the group about to go.
Ahead(k, u, c) ==
  \/ pc[k] = "upCommit" /\ u \in members[job[k].g] /\ c \in job[k].chans
  \/ pc[k] \in {"delDeactivate", "delRow"} /\ c \in chans[job[k].g]

\* An unsubscribe has left what no other group covers.
Covered(k) ==
  pc[k] \in {"unLock", "unDelete"} /\ ~job[k].keep =>
    \A c \in chans[job[k].g] :
      <<job[k].u, c>> \in subs /\ <<job[k].u, c>> \notin kept => Elsewhere(k, c)

OrphanInv(k) ==
  faults = 0 => /\ \A u \in Users, c \in Channels :
                     <<u, c>> \in subs /\ <<u, c>> \notin kept => Due(u, c) \/ Ahead(k, u, c)
                /\ Covered(k)

SerialInv(k) == PlaceInv(k) /\ GroupsInv(k) /\ MissingInv(k) /\ OrphanInv(k)

---------------------------------------------------------------------------
LEMMA InitSerial ==
  ASSUME NEW k \in Callers, Init
  PROVE  SerialInv(k)
<1>1. pc[k] = "idle" /\ faults = 0
  BY DEF Init
<1>2. PlaceInv(k)
  BY <1>1 DEF PlaceInv, SubscribePlace, UnsubscribePlace, CoverPlace, UpdatePlace, DeletePlace,
              InSubscribe, Added, InUnsubscribe, Unsubscribing, BeforeCommit, Updating, Undoing
<1>3. GroupsInv(k)
  BY <1>1 DEF GroupsInv, Init
<1>4. MissingInv(k)
  <2>1. ASSUME NEW g \in Groups, NEW u \in members[g], NEW c \in chans[g]
        PROVE  <<u, c>> \in subs
    <3>1. u \in Users /\ c \in Channels
      BY DEF Init
    <3> QED BY <3>1 DEF Init
  <2> QED BY <1>1, <2>1 DEF MissingInv, Restorable
<1>5. OrphanInv(k)
  <2>1. ASSUME NEW u \in Users, NEW c \in Channels, <<u, c>> \in subs
        PROVE  Due(u, c)
    BY <2>1 DEF Init, Due
  <2> QED BY <1>1, <2>1 DEF OrphanInv, Covered
<1> QED BY <1>2, <1>3, <1>4, <1>5 DEF SerialInv

---------------------------------------------------------------------------
(* What keeps the parts.                                                    *)

LEMMA UnknownPlace ==
  ASSUME NEW k \in Callers, pc'[k] \notin Known
  PROVE  PlaceInv(k)'
  BY DEF PlaceInv, SubscribePlace, UnsubscribePlace, CoverPlace, UpdatePlace, DeletePlace, Known,
         InSubscribe, Added, InUnsubscribe, Unsubscribing, BeforeCommit, Updating, Undoing

LEMMA ToldBefore ==
  ASSUME faults \in Nat, faults' >= faults, faults' \in Nat
  PROVE  (Told' => Told) /\ (faults' = 0 => faults = 0)
  BY DEF Told

LEMMA SureBefore ==
  ASSUME faults \in Nat, faults' >= faults, faults' \in Nat, called \subseteq called'
  PROVE  Sure' => Sure
  BY DEF Sure, Told

LEMMA GroupsKeep ==
  ASSUME NEW k \in Callers, GroupsInv(k), UNCHANGED <<exists, chans, active>>,
         faults \in Nat, faults' >= faults, faults' \in Nat,
         pc[k] # "delRow" \/ faults' > 0
  PROVE  GroupsInv(k)'
  BY ToldBefore DEF GroupsInv

\* Nobody is added, nothing is left or added to a group.
LEMMA MissingKeep ==
  ASSUME NEW k \in Callers, TypeOK, MissingInv(k), UNCHANGED <<members, chans>>, subs \subseteq subs',
         faults' \in Nat, faults' >= faults, called \subseteq called',
         \A g \in Groups, u \in Users : Left(k, g, u) => Left(k, g, u)',
         Sure' => Restorable(k)'
  PROVE  MissingInv(k)'
<1>1. Sure' => Sure
  BY SureBefore DEF TypeOK, TypeHistory
<1>2. ASSUME Sure', NEW g \in Groups, NEW u \in members[g], NEW c \in chans[g]
      PROVE  <<u, c>> \in subs' \/ Left(k, g, u)'
  <2>1. u \in Users
    BY DEF TypeOK, TypeZulip
  <2> QED
    BY <1>1, <1>2, <2>1 DEF MissingInv
<1> QED
  BY <1>2 DEF MissingInv

LEMMA OrphanKeep ==
  ASSUME NEW k \in Callers, OrphanInv(k), UNCHANGED <<members, chans, subs, kept>>,
         faults' = 0 => faults = 0,
         \A u \in Users, c \in Channels : Ahead(k, u, c) => Ahead(k, u, c)',
         faults' = 0 => Covered(k)'
  PROVE  OrphanInv(k)'
<1>1. \A u, c : Due(u, c)' <=> Due(u, c)
  BY DEF Due
<1> QED
  BY <1>1 DEF OrphanInv

\* A step that changes nothing but the caller, with nothing due.
LEMMA LocalKeeps ==
  ASSUME NEW k \in Callers, TypeOK, SerialInv(k),
         UNCHANGED <<database, zulip, faults, kept>>, called \subseteq called',
         pc[k] # "delRow",
         \A g \in Groups, u \in Users : Left(k, g, u) => Left(k, g, u)',
         \A u \in Users, c \in Channels : Ahead(k, u, c) => Ahead(k, u, c)',
         Sure' => Restorable(k)', faults' = 0 => Covered(k)', PlaceInv(k)'
  PROVE  SerialInv(k)'
<1>1. faults \in Nat /\ faults' = faults
  BY DEF TypeOK, TypeHistory
<1>2. UNCHANGED <<exists, chans, active, members, subs, kept>>
  BY DEF database, zulip
<1>3. GroupsInv(k)'
  BY <1>1, <1>2, GroupsKeep DEF SerialInv
<1>4. MissingInv(k)'
  BY <1>1, <1>2, MissingKeep DEF SerialInv
<1>5. OrphanInv(k)'
  BY <1>1, <1>2, OrphanKeep DEF SerialInv
<1> QED
  BY <1>3, <1>4, <1>5 DEF SerialInv

\* Places at which nothing is due, missing or ahead.
Calm == Places \ (Added \cup {"unLock", "unDelete", "unRestore", "upCommit", "delEmpty",
                              "delDeactivate", "delRestore", "delRow"})

LEMMA CalmKeeps ==
  ASSUME NEW k \in Callers, TypeOK, SerialInv(k),
         UNCHANGED <<database, zulip, faults, kept>>, called \subseteq called',
         pc[k] \in Calm, pc'[k] \in Calm, PlaceInv(k)'
  PROVE  SerialInv(k)'
<1>1. Restorable(k)' /\ Covered(k)'
  BY DEF Restorable, Covered, Calm
<1>2. \A g \in Groups, u \in Users : Left(k, g, u) => Left(k, g, u)'
  BY DEF Left, Calm
<1>3. \A u \in Users, c \in Channels : Ahead(k, u, c) => Ahead(k, u, c)'
  BY DEF Ahead, Calm
<1>4. pc[k] # "delRow"
  BY DEF Calm
<1> QED
  BY <1>1, <1>2, <1>3, <1>4, LocalKeeps

LEMMA OnlySubscribe ==
  ASSUME NEW k \in Callers, pc'[k] \in InSubscribe \cup Undoing, Told' => SubscribePlace(k)'
  PROVE  PlaceInv(k)'
  BY DEF PlaceInv, UnsubscribePlace, CoverPlace, UpdatePlace, DeletePlace,
         InSubscribe, InUnsubscribe, Unsubscribing, BeforeCommit, Updating, Undoing

LEMMA OnlyUnsubscribe ==
  ASSUME NEW k \in Callers, pc'[k] \in InUnsubscribe,
         Told' => UnsubscribePlace(k)' /\ CoverPlace(k)'
  PROVE  PlaceInv(k)'
  BY DEF PlaceInv, SubscribePlace, UpdatePlace, DeletePlace,
         InSubscribe, Added, InUnsubscribe, Unsubscribing, BeforeCommit, Updating, Undoing

LEMMA OnlyUpdate ==
  ASSUME NEW k \in Callers, pc'[k] \in Updating, Told' => UpdatePlace(k)'
  PROVE  PlaceInv(k)'
  BY DEF PlaceInv, SubscribePlace, UnsubscribePlace, CoverPlace, DeletePlace,
         InSubscribe, Added, InUnsubscribe, Unsubscribing, Updating, Undoing

\* A call that returns without anything due.
LEMMA ReturnKeeps ==
  ASSUME NEW k \in Callers, TypeOK, SerialInv(k), Return(k),
         UNCHANGED <<database, zulip, faults, kept>>, called \subseteq called',
         pc[k] \in Calm
  PROVE  SerialInv(k)'
<1>1. pc'[k] = "idle"
  BY ReturnTo DEF TypeOK
<1>2. PlaceInv(k)'
  BY <1>1, UnknownPlace DEF Known, InSubscribe, InUnsubscribe, Unsubscribing, Updating, Undoing
<1>3. "idle" \in Calm
  BY PlacesType DEF Calm, Added
<1> QED
  BY <1>1, <1>2, <1>3, CalmKeeps

---------------------------------------------------------------------------
(* Entering and leaving channels, pair by pair.                             *)

LEMMA EnterPairs ==
  ASSUME NEW us, NEW cs, Enter(us, cs)
  PROVE  /\ \A u, c : <<u, c>> \in subs' <=> <<u, c>> \in subs \/ (u \in us /\ c \in cs)
         /\ kept' = kept /\ subs \subseteq subs'
  BY DEF Enter

LEMMA LeavePairs ==
  ASSUME NEW us, NEW cs, Leave(us, cs)
  PROVE  /\ \A u, c : <<u, c>> \in subs' <=> <<u, c>> \in subs /\ ~(u \in us /\ c \in cs)
         /\ \A u, c : <<u, c>> \in kept' <=> <<u, c>> \in kept /\ ~(u \in us /\ c \in cs)
  BY DEF Leave

---------------------------------------------------------------------------
(* The steps of a subscribe.                                                *)

LEMMA SubLockSerial ==
  ASSUME NEW k \in Callers, TypeOK, SerialInv(k), SubLock(k)
  PROVE  SerialInv(k)'
<1>0. TypeCallers /\ pc[k] = "subLock"
  BY DEF TypeOK, SubLock
<1>1. CASE job[k].g \in exists
  <2>1. pc'[k] = "subAdd" /\ job'[k] = job[k]
    BY <1>0, <1>1, ContinueTo DEF SubLock
  <2>2. PlaceInv(k)'
    <3>1. Told' => Told
      BY DEF Told, SubLock
    <3>2. Told' => SubscribePlace(k)'
      BY <1>0, <1>1, <2>1, <3>1 DEF SubLock, SerialInv, PlaceInv, SubscribePlace, InSubscribe,
                                    Undoing, Added, database
    <3> QED
      BY <2>1, <3>2, OnlySubscribe DEF InSubscribe
  <2>3. pc[k] \in Calm /\ pc'[k] \in Calm
    BY <1>0, <2>1, PlacesType DEF Calm, Added, Subscribing
  <2> QED
    BY <2>2, <2>3, CalmKeeps DEF SubLock
<1>2. CASE job[k].g \notin exists
  <2>1. pc[k] \in Calm
    BY <1>0, PlacesType DEF Calm, Added, Subscribing
  <2> QED
    BY <1>2, <2>1, ReturnKeeps DEF SubLock
<1> QED BY <1>1, <1>2

LEMMA SubAddSerial ==
  ASSUME NEW k \in Callers, TypeOK, SerialInv(k), SubAdd(k)
  PROVE  SerialInv(k)'
<1>0. /\ pc[k] = "subAdd" /\ pc'[k] = "subBump" /\ job' = job
      /\ UNCHANGED <<exists, chans, active, subs, faults, called, kept>>
      /\ job[k].g \in Groups /\ members \in [Groups -> SUBSET Users]
  BY JobType DEF SubAdd, Goto, TypeOK, TypeCallers, TypeZulip, database
<1>1. members' = [members EXCEPT ![job[k].g] = @ \cup {job[k].u}]
  BY DEF SubAdd, AddMembers
<1>2. /\ (Told' <=> Told) /\ (Sure' <=> Sure)
      /\ \A g \in Groups, u \in Users :
           u \in members'[g] <=> u \in members[g] \/ (g = job[k].g /\ u = job[k].u)
  BY <1>0, <1>1, JobType DEF Told, Sure
<1>3. PlaceInv(k)'
  <2>1. Told' => SubscribePlace(k)'
    <3>1. job[k].u \in members'[job[k].g]
      BY <1>0, <1>1
    <3>2. SUFFICES ASSUME Told' PROVE SubscribePlace(k)'
      OBVIOUS
    <3>3. SubscribePlace(k)
      BY <1>2, <3>2 DEF SerialInv, PlaceInv
    <3>4. \A c \in job[k].done : <<job[k].u, c>> \in subs
      BY <1>0, <3>3 DEF SubscribePlace
    <3> QED
      BY <1>0, <3>1, <3>3, <3>4 DEF SubscribePlace, InSubscribe, Undoing, Added
  <2> QED
    BY <1>0, <2>1, OnlySubscribe DEF InSubscribe
<1>4. GroupsInv(k)'
  BY <1>0, <1>2 DEF SerialInv, GroupsInv
<1>5. MissingInv(k)'
  <2>1. ASSUME Sure', NEW g \in Groups, NEW u \in members'[g], NEW c \in chans'[g]
        PROVE  <<u, c>> \in subs' \/ Left(k, g, u)'
    <3>1. u \in Users
      BY <1>0, <1>1, JobType
    <3>2. CASE u \in members[g]
      BY <1>0, <1>2, <2>1, <3>2 DEF SerialInv, MissingInv, Left, Added
    <3>3. CASE u \notin members[g]
      BY <1>0, <1>2, <3>1, <3>3 DEF Left, Added
    <3> QED BY <3>2, <3>3
  <2> QED
    BY <1>0, <2>1 DEF MissingInv, Restorable
<1>6. OrphanInv(k)'
  <2>1. \A u \in Users, c \in Channels : Due(u, c) => Due(u, c)'
    BY <1>0, <1>2 DEF Due
  <2> QED
    BY <1>0, <2>1 DEF SerialInv, OrphanInv, Covered, Ahead
<1> QED BY <1>3, <1>4, <1>5, <1>6 DEF SerialInv

LEMMA SubBumpSerial ==
  ASSUME NEW k \in Callers, TypeOK, SerialInv(k), SubBump(k)
  PROVE  SerialInv(k)'
<1>0. /\ pc[k] = "subBump" /\ pc'[k] = "subRead" /\ job'[k] = job[k]
      /\ UNCHANGED <<database, zulip, faults, called, kept>>
  BY ContinueTo DEF SubBump, TypeOK
<1>1. PlaceInv(k)'
  <2>1. Told' => SubscribePlace(k)'
    BY <1>0 DEF Told, SerialInv, PlaceInv, SubscribePlace, InSubscribe, Undoing, Added, database, zulip
  <2> QED
    BY <1>0, <2>1, OnlySubscribe DEF InSubscribe
<1>2. \A g \in Groups, u \in Users : Left(k, g, u) => Left(k, g, u)'
  BY <1>0 DEF Left, Added
<1>3. \A u \in Users, c \in Channels : ~Ahead(k, u, c)
  BY <1>0 DEF Ahead
<1>4. Restorable(k)' /\ Covered(k)'
  BY <1>0 DEF Restorable, Covered
<1> QED
  BY <1>0, <1>1, <1>2, <1>3, <1>4, LocalKeeps

\* The channels of the group have all been entered when the call returns.
LEMMA SubReadSerial ==
  ASSUME NEW k \in Callers, TypeOK, SerialInv(k), SubRead(k), Told
  PROVE  SerialInv(k)'
<1>0. /\ pc[k] = "subRead" /\ job[k].g \in exists /\ job[k] \in Job
      /\ UNCHANGED <<database, zulip, faults, called, kept>> /\ TypeCallers
      /\ chans[job[k].g] \in SUBSET Channels
  BY JobType DEF SubRead, SerialInv, PlaceInv, SubscribePlace, InSubscribe, TypeOK, TypeDatabase
<1>1. CASE chans[job[k].g] \ job[k].done = {}
  <2>1. pc'[k] = "idle"
    BY <1>0, <1>1, ReturnTo DEF SubRead
  <2>2. PlaceInv(k)'
    BY <2>1, UnknownPlace DEF Known, InSubscribe, InUnsubscribe, Unsubscribing, Updating, Undoing
  <2>3. Restorable(k)' /\ Covered(k)' /\ GroupsInv(k)'
    BY <1>0, <2>1 DEF Restorable, Covered, GroupsInv, SerialInv, Told, database, zulip
  <2>4. ASSUME Sure, NEW g \in Groups, NEW u \in members[g], NEW c \in chans[g]
        PROVE  <<u, c>> \in subs
    <3>1. Left(k, g, u) => c \in job[k].done
      BY <1>1 DEF Left
    <3>2. \A d \in job[k].done : <<job[k].u, d>> \in subs
      BY <1>0, Told DEF SerialInv, PlaceInv, SubscribePlace, Added
    <3> QED
      BY <2>4, <3>1, <3>2 DEF SerialInv, MissingInv, Left
  <2>5. MissingInv(k)'
    BY <1>0, <2>3, <2>4 DEF MissingInv, Sure, Told, database, zulip
  <2>6. \A u \in Users, c \in Channels : ~Ahead(k, u, c)
    BY <1>0 DEF Ahead
  <2>7. OrphanInv(k)'
    BY <1>0, <2>3, <2>6, OrphanKeep DEF SerialInv, database, zulip
  <2> QED
    BY <2>2, <2>3, <2>5, <2>7 DEF SerialInv
<1>2. CASE chans[job[k].g] \ job[k].done # {}
  <2> DEFINE j == [job[k] EXCEPT !.target = chans[job[k].g] \ job[k].done]
  <2>1. j.target = chans[j.g] \ j.done /\ j.g = job[k].g /\ j.u = job[k].u /\ j.done = job[k].done
    BY <1>0 DEF Job
  <2>2. Continue(k, "subEnter", j)
    BY <1>0, <1>2 DEF SubRead
  <2> HIDE DEF j
  <2>3. pc'[k] = "subEnter" /\ job'[k] = j
    BY <1>0, <2>2, ContinueTo
  <2>4. PlaceInv(k)'
    <3>1. Told' => SubscribePlace(k)'
      BY <1>0, <2>1, <2>3, Told DEF SerialInv, PlaceInv, SubscribePlace, InSubscribe, Undoing, Added,
                                    database, zulip
    <3> QED
      BY <2>3, <3>1, OnlySubscribe DEF InSubscribe
  <2>5. \A g \in Groups, u \in Users : Left(k, g, u) => Left(k, g, u)'
    BY <1>0, <2>1, <2>3 DEF Left, Added
  <2>6. \A u \in Users, c \in Channels : ~Ahead(k, u, c)
    BY <1>0 DEF Ahead
  <2>7. Restorable(k)' /\ Covered(k)'
    BY <2>3 DEF Restorable, Covered
  <2> QED
    BY <1>0, <2>4, <2>5, <2>6, <2>7, LocalKeeps
<1> QED BY <1>1, <1>2

\* The channels that were entered stay due, since the user is a member.
LEMMA SubEnterSerial ==
  ASSUME NEW k \in Callers, TypeOK, SerialInv(k), SubEnter(k), Told
  PROVE  SerialInv(k)'
<1>0. /\ pc[k] = "subEnter" /\ job[k] \in Job /\ TypeCallers
      /\ UNCHANGED <<database, active, members, faults, called>>
      /\ Enter({job[k].u}, job[k].target)
  BY JobType DEF SubEnter, TypeOK
<1> DEFINE j == [job[k] EXCEPT !.done = job[k].done \cup job[k].target, !.target = {}]
<1>1. j.done = job[k].done \cup job[k].target /\ j.g = job[k].g /\ j.u = job[k].u
  BY <1>0 DEF Job
<1>2. Continue(k, "subCheck", j)
  BY DEF SubEnter
<1> HIDE DEF j
<1>3. pc'[k] = "subCheck" /\ job'[k] = j
  BY <1>0, <1>2, ContinueTo
<1>4. /\ \A u, c : <<u, c>> \in subs' <=> <<u, c>> \in subs \/ (u = job[k].u /\ c \in job[k].target)
      /\ kept' = kept /\ subs \subseteq subs'
  BY <1>0, EnterPairs
<1>5. SubscribePlace(k)
  BY Told DEF SerialInv, PlaceInv
<1>6. PlaceInv(k)'
  <2>1. \A c \in j.done : <<job[k].u, c>> \in subs'
    BY <1>0, <1>1, <1>4, <1>5 DEF SubscribePlace, Added
  <2>2. SubscribePlace(k)'
    BY <1>0, <1>1, <1>3, <1>5, <2>1 DEF SubscribePlace, InSubscribe, Undoing, Added, database
  <2> QED
    BY <1>3, <2>2, OnlySubscribe DEF InSubscribe
<1>7. GroupsInv(k)'
  BY <1>0, <1>3, Told DEF SerialInv, GroupsInv, Told, database
<1>8. MissingInv(k)'
  <2>1. \A g \in Groups, u \in Users : Left(k, g, u) => Left(k, g, u)'
    BY <1>0, <1>1, <1>3 DEF Left, Added
  <2>2. Restorable(k)'
    BY <1>3 DEF Restorable
  <2> QED
    BY <1>0, <1>4, <2>1, <2>2, MissingKeep, JobType DEF SerialInv, database
<1>9. OrphanInv(k)'
  <2>1. \A c \in job[k].target : Due(job[k].u, c)
    BY <1>0, <1>5, JobType DEF SubscribePlace, Added, Due
  <2>2. \A u, c : Due(u, c) => Due(u, c)'
    BY <1>0 DEF Due, database
  <2>3. \A u, c : ~Ahead(k, u, c)
    BY <1>0 DEF Ahead
  <2>4. Covered(k)'
    BY <1>3 DEF Covered
  <2> QED
    BY <1>0, <1>4, <2>1, <2>2, <2>3, <2>4 DEF SerialInv, OrphanInv
<1> QED BY <1>6, <1>7, <1>8, <1>9 DEF SerialInv

LEMMA SubCheckSerial ==
  ASSUME NEW k \in Callers, TypeOK, SerialInv(k), SubCheck(k), Told
  PROVE  SerialInv(k)'
<1>0. /\ pc[k] = "subCheck" /\ job[k].u \in members[job[k].g] /\ TypeCallers
      /\ UNCHANGED <<database, zulip, faults, called, kept>>
  BY Told DEF SubCheck, SerialInv, PlaceInv, SubscribePlace, Added, TypeOK
<1>1. pc'[k] = "subRead" /\ job'[k] = job[k]
  BY <1>0, ContinueTo DEF SubCheck
<1>2. PlaceInv(k)'
  <2>1. Told' => SubscribePlace(k)'
    BY <1>0, <1>1, Told DEF SerialInv, PlaceInv, SubscribePlace, InSubscribe, Undoing, Added, database, zulip
  <2> QED
    BY <1>1, <2>1, OnlySubscribe DEF InSubscribe
<1>3. \A g \in Groups, u \in Users : Left(k, g, u) => Left(k, g, u)'
  BY <1>1 DEF Left, Added
<1>4. \A u \in Users, c \in Channels : ~Ahead(k, u, c)
  BY <1>0 DEF Ahead
<1>5. Restorable(k)' /\ Covered(k)'
  BY <1>1 DEF Restorable, Covered
<1> QED
  BY <1>0, <1>2, <1>3, <1>4, <1>5, LocalKeeps

\* The undo of a subscribe follows a failure: nothing is promised any more.
LEMMA UndoSerial ==
  ASSUME NEW k \in Callers, TypeOK, SerialInv(k), UndoMember(k) \/ UndoChannels(k), Told
  PROVE  SerialInv(k)'
<1>0. /\ UNCHANGED <<exists, chans, active, faults, called>> /\ TypeCallers
      /\ faults > 0 /\ "subscribe" \in called /\ pc[k] \in Undoing
  BY Told DEF UndoMember, UndoChannels, database, SerialInv, PlaceInv, SubscribePlace, Undoing, TypeOK
<1>1. PlaceInv(k)'
  <2>1. CASE UndoMember(k)
    <3>1. pc'[k] = "undoChannels"
      BY <1>0, <2>1, ContinueTo DEF UndoMember
    <3>2. SubscribePlace(k)'
      BY <1>0, <3>1 DEF SubscribePlace, InSubscribe, Added, Undoing
    <3> QED
      BY <3>1, <3>2, OnlySubscribe DEF Undoing
  <2>2. CASE UndoChannels(k)
    <3>1. pc'[k] = "idle"
      BY <1>0, <2>2, ReturnTo DEF UndoChannels
    <3> QED
      BY <3>1, UnknownPlace DEF Known, InSubscribe, InUnsubscribe, Unsubscribing, Updating, Undoing
  <2> QED BY <2>1, <2>2
<1>2. GroupsInv(k)'
  BY <1>0, GroupsKeep DEF SerialInv, TypeOK, TypeHistory
<1>3. MissingInv(k)' /\ OrphanInv(k)'
  <2>1. faults \in Nat
    BY DEF TypeOK, TypeHistory
  <2> QED
    BY <1>0, <2>1 DEF MissingInv, OrphanInv, Sure
<1> QED BY <1>1, <1>2, <1>3 DEF SerialInv

LEMMA SubscribeSerial ==
  ASSUME NEW k \in Callers, TypeOK, SerialInv(k), Told
  PROVE  /\ SubLock(k) => SerialInv(k)'
         /\ SubAdd(k) => SerialInv(k)'
         /\ SubBump(k) => SerialInv(k)'
         /\ SubRead(k) => SerialInv(k)'
         /\ SubEnter(k) => SerialInv(k)'
         /\ SubCheck(k) => SerialInv(k)'
         /\ ~SubClean(k)
         /\ UndoMember(k) => SerialInv(k)'
         /\ UndoChannels(k) => SerialInv(k)'
<1>1. ~SubClean(k)
  BY Told DEF SubClean, SerialInv, PlaceInv, SubscribePlace
<1> QED
  BY <1>1, SubLockSerial, SubAddSerial, SubBumpSerial, SubReadSerial, SubEnterSerial, SubCheckSerial,
     UndoSerial

---------------------------------------------------------------------------
(* The steps of an unsubscribe.                                             *)

LEMMA UnStartSerial ==
  ASSUME NEW k \in Callers, TypeOK, SerialInv(k), UnStart(k), Told
  PROVE  SerialInv(k)'
<1> DEFINE j == [job[k] EXCEPT !.start = gen[job[k].g][job[k].u], !.target = job[k].chans]
<1>0. /\ pc[k] = "unStart" /\ job[k] \in Job /\ TypeCallers
      /\ UNCHANGED <<database, zulip, gen, faults, called, kept>>
      /\ UnsubscribePlace(k)
  BY JobType, Told DEF UnStart, TypeOK, SerialInv, PlaceInv
<1>1. /\ j.g = job[k].g /\ j.u = job[k].u /\ j.keep = job[k].keep /\ j.chans = job[k].chans
      /\ j.final = job[k].final /\ j.start = gen[j.g][j.u] /\ j.target = j.chans
  BY <1>0 DEF Job
<1>2. PICK p \in {"unLock", "unShared"} :
        /\ Continue(k, p, j)
        /\ p = "unLock" <=> job[k].keep \/ job[k].chans = {}
  BY <1>0, <1>1 DEF UnStart
<1> HIDE DEF j
<1>3. pc'[k] = p /\ job'[k] = j
  BY <1>0, <1>2, ContinueTo
<1>4. PlaceInv(k)'
  <2>1. UnsubscribePlace(k)'
    BY <1>0, <1>1, <1>2, <1>3 DEF UnsubscribePlace, InUnsubscribe, Unsubscribing, database
  <2>2. CoverPlace(k)'
    BY <1>3 DEF CoverPlace
  <2> QED
    BY <1>3, <2>1, <2>2, OnlyUnsubscribe DEF InUnsubscribe, Unsubscribing
<1>5. \A g \in Groups, u \in Users : ~Left(k, g, u)
  BY <1>0 DEF Left, Added
<1>6. \A u \in Users, c \in Channels : ~Ahead(k, u, c)
  BY <1>0 DEF Ahead
<1>7. Restorable(k)' /\ Covered(k)'
  <2>1. job[k].keep \/ chans[job[k].g] = {} \/ p = "unShared"
    BY <1>0, <1>2 DEF UnsubscribePlace, InUnsubscribe
  <2> QED
    BY <1>0, <1>1, <1>3, <2>1 DEF Restorable, Covered, database
<1> QED
  BY <1>0, <1>4, <1>5, <1>6, <1>7, LocalKeeps

\* What is shared is still to be asked for.
LEMMA UnSharedSerial ==
  ASSUME NEW k \in Callers, TypeOK, SerialInv(k), UnShared(k), Told
  PROVE  SerialInv(k)'
<1> DEFINE shared == {p \in (Groups \ {job[k].g}) \X job[k].target :
                        p[2] \in chans[p[1]] \cap chans[job[k].g]}
           j == [job[k] EXCEPT !.pending = shared, !.covered = {}]
<1>0. /\ pc[k] = "unShared" /\ job[k] \in Job /\ TypeCallers
      /\ UNCHANGED <<database, zulip, gen, faults, called, kept>>
      /\ UnsubscribePlace(k)
  BY JobType, Told DEF UnShared, TypeOK, SerialInv, PlaceInv
<1>1. /\ j.g = job[k].g /\ j.u = job[k].u /\ j.keep = job[k].keep /\ j.chans = job[k].chans
      /\ j.final = job[k].final /\ j.start = job[k].start /\ j.target = job[k].target
      /\ j.pending = shared /\ j.covered = {}
  BY <1>0 DEF Job
<1>2. PICK p \in {"unLeave", "unCover"} : Continue(k, p, j) /\ (p = "unLeave" => shared = {})
  BY <1>0 DEF UnShared
<1>s. \A g, c : <<g, c>> \in shared <=>
        /\ g \in Groups /\ g # job[k].g /\ c \in job[k].target
        /\ c \in chans[g] /\ c \in chans[job[k].g]
  OBVIOUS
<1> HIDE DEF j, shared
<1>3. pc'[k] = p /\ job'[k] = j
  BY <1>0, <1>2, ContinueTo
<1>4. PlaceInv(k)'
  <2>1. UnsubscribePlace(k)'
    BY <1>0, <1>1, <1>2, <1>3 DEF UnsubscribePlace, InUnsubscribe, Unsubscribing, database
  <2>2. job[k].target = chans[job[k].g]
    BY <1>0 DEF UnsubscribePlace, InUnsubscribe, Unsubscribing
  <2>3. CoverPlace(k)'
    BY <1>0, <1>1, <1>2, <1>s, <1>3, <2>2 DEF CoverPlace, database, zulip
  <2> QED
    BY <1>3, <2>1, <2>3, OnlyUnsubscribe DEF InUnsubscribe, Unsubscribing
<1>5. pc[k] \in Calm /\ pc'[k] \in Calm
  BY <1>0, <1>3, PlacesType DEF Calm, Added, Unsubscribing
<1> QED
  BY <1>0, <1>4, <1>5, CalmKeeps

LEMMA UnCoverSerial ==
  ASSUME NEW k \in Callers, TypeOK, SerialInv(k), UnCover(k), Told
  PROVE  SerialInv(k)'
<1>0. /\ pc[k] = "unCover" /\ job[k] \in Job /\ TypeCallers
      /\ UNCHANGED <<database, zulip, gen, faults, called, kept>>
      /\ UnsubscribePlace(k) /\ CoverPlace(k) /\ job[k].pending \in SUBSET (Groups \X Channels)
  BY JobType, Told DEF UnCover, TypeOK, SerialInv, PlaceInv
<1>1. PICK g \in {p[1] : p \in job[k].pending} :
        LET asked == {p \in job[k].pending : p[1] = g}
            shared == IF job[k].u \in members[g] THEN {p[2] : p \in asked} ELSE {}
        IN  Continue(k, IF job[k].pending = asked THEN "unLeave" ELSE "unCover",
                     [job[k] EXCEPT !.pending = job[k].pending \ asked,
                                    !.covered = job[k].covered \cup shared])
  BY DEF UnCover
<1> DEFINE asked == {p \in job[k].pending : p[1] = g}
           shared == IF job[k].u \in members[g] THEN {p[2] : p \in asked} ELSE {}
           j == [job[k] EXCEPT !.pending = job[k].pending \ asked,
                               !.covered = job[k].covered \cup shared]
<1>2. /\ j.g = job[k].g /\ j.u = job[k].u /\ j.keep = job[k].keep /\ j.chans = job[k].chans
      /\ j.final = job[k].final /\ j.start = job[k].start /\ j.target = job[k].target
      /\ j.pending = job[k].pending \ asked /\ j.covered = job[k].covered \cup shared
  BY <1>0 DEF Job
<1>3. PICK p \in {"unLeave", "unCover"} :
        Continue(k, p, j) /\ (p = "unLeave" => job[k].pending = asked)
  BY <1>1
<1>4. /\ \A h, c : <<h, c>> \in asked <=> <<h, c>> \in job[k].pending /\ h = g
      /\ \A c : c \in shared <=> job[k].u \in members[g] /\ <<g, c>> \in job[k].pending
  <2>1. \A h, c : <<h, c>> \in asked <=> <<h, c>> \in job[k].pending /\ h = g
    OBVIOUS
  <2>2. \A q \in asked : q = <<g, q[2]>>
    BY <1>0
  <2>3. \A c : c \in shared <=> job[k].u \in members[g] /\ <<g, c>> \in asked
    BY <2>1, <2>2
  <2> QED BY <2>1, <2>3
<1>5. g \in Groups
  BY <1>0
<1> HIDE DEF j, asked, shared
<1>6. pc'[k] = p /\ job'[k] = j
  BY <1>0, <1>3, ContinueTo
<1>7. PlaceInv(k)'
  <2>1. UnsubscribePlace(k)'
    BY <1>0, <1>2, <1>6 DEF UnsubscribePlace, InUnsubscribe, Unsubscribing, database
  <2>2. \A c \in j.covered : Elsewhere(k, c)
    <3>1. ASSUME NEW c \in shared PROVE Elsewhere(k, c)
      <4>1. job[k].u \in members[g] /\ <<g, c>> \in job[k].pending
        BY <1>4
      <4>2. c \in Channels
        BY <1>0, <4>1
      <4>3. g # job[k].g /\ c \in chans[g]
        BY <1>0, <1>5, <4>1, <4>2 DEF CoverPlace
      <4> QED
        BY <1>5, <4>1, <4>3 DEF Elsewhere
    <3>2. \A c \in job[k].covered : Elsewhere(k, c)
      BY <1>0 DEF CoverPlace
    <3> QED BY <1>2, <3>1, <3>2
  <2>3. \A c : Elsewhere(k, c) => Elsewhere(k, c)'
    BY <1>0, <1>2, <1>6 DEF Elsewhere, database, zulip
  <2>4. pc'[k] = "unCover" =>
          \A h \in Groups, c \in Channels : <<h, c>> \in j.pending => h # j.g /\ c \in chans[h]
    BY <1>0, <1>2, <1>4 DEF CoverPlace
  <2>5. ASSUME NEW h \in Groups, NEW c \in Channels, h # j.g, j.u \in members[h], c \in chans[h],
               c \in j.target
        PROVE  c \in j.covered \/ (p = "unCover" /\ <<h, c>> \in j.pending)
    <3>1. c \in job[k].covered \/ <<h, c>> \in job[k].pending
      <4>1. h # job[k].g /\ job[k].u \in members[h] /\ c \in job[k].target
        BY <1>2, <2>5
      <4> QED
        BY <1>0, <2>5, <4>1 DEF CoverPlace
    <3>2. CASE <<h, c>> \in asked
      BY <1>2, <1>4, <2>5, <3>2
    <3>3. CASE <<h, c>> \notin asked
      BY <1>2, <1>3, <3>1, <3>3
    <3> QED BY <3>2, <3>3
  <2>6. CoverPlace(k)'
    BY <1>0, <1>6, <2>2, <2>3, <2>4, <2>5 DEF CoverPlace, database, zulip
  <2> QED
    BY <1>6, <2>1, <2>6, OnlyUnsubscribe DEF InUnsubscribe, Unsubscribing
<1>8. pc[k] \in Calm /\ pc'[k] \in Calm
  BY <1>0, <1>6, PlacesType DEF Calm, Added, Unsubscribing
<1> QED
  BY <1>0, <1>7, <1>8, CalmKeeps

\* The user stays in what other groups have, and is still a member.
LEMMA UnLeaveSerial ==
  ASSUME NEW k \in Callers, TypeOK, SerialInv(k), UnLeave(k), Told
  PROVE  SerialInv(k)'
<1> DEFINE j == [job[k] EXCEPT !.target = {}, !.covered = {}]
<1>0. /\ pc[k] = "unLeave" /\ job[k] \in Job /\ TypeCallers
      /\ UNCHANGED <<database, active, members, gen, faults, called>>
      /\ UnsubscribePlace(k) /\ CoverPlace(k) /\ ~job[k].final
      /\ Leave({job[k].u}, job[k].target \ job[k].covered)
  BY JobType, Told DEF UnLeave, TypeOK, SerialInv, PlaceInv, UnsubscribePlace, InUnsubscribe,
                       Unsubscribing
<1>1. /\ j.g = job[k].g /\ j.u = job[k].u /\ j.keep = job[k].keep /\ j.chans = job[k].chans
      /\ j.final = job[k].final /\ j.start = job[k].start
  BY <1>0 DEF Job
<1>2. Continue(k, "unLock", j)
  BY <1>0 DEF UnLeave
<1> HIDE DEF j
<1>3. pc'[k] = "unLock" /\ job'[k] = j
  BY <1>0, <1>2, ContinueTo
<1>4. /\ job[k].target = chans[job[k].g] /\ ~job[k].keep /\ job[k].chans = chans[job[k].g]
      /\ \A c \in job[k].covered : Elsewhere(k, c)
  BY <1>0 DEF UnsubscribePlace, InUnsubscribe, Unsubscribing, CoverPlace
<1>5. /\ \A u, c : <<u, c>> \in subs' <=>
           <<u, c>> \in subs /\ ~(u = job[k].u /\ c \in job[k].target \ job[k].covered)
      /\ \A u, c : <<u, c>> \in kept' <=>
           <<u, c>> \in kept /\ ~(u = job[k].u /\ c \in job[k].target \ job[k].covered)
  BY <1>0, LeavePairs
<1>6. PlaceInv(k)'
  <2>1. UnsubscribePlace(k)'
    BY <1>0, <1>1, <1>3 DEF UnsubscribePlace, InUnsubscribe, Unsubscribing, database
  <2>2. CoverPlace(k)'
    BY <1>3 DEF CoverPlace
  <2> QED
    BY <1>3, <2>1, <2>2, OnlyUnsubscribe DEF InUnsubscribe, Unsubscribing
<1>7. GroupsInv(k)'
  BY <1>0, GroupsKeep DEF SerialInv, TypeOK, TypeHistory, database
<1>8. MissingInv(k)'
  <2>1. ASSUME Sure, NEW g \in Groups, NEW u \in members[g], NEW c \in chans[g]
        PROVE  <<u, c>> \in subs' \/ Left(k, g, u)'
    <3>1. <<u, c>> \in subs
      BY <1>0, <2>1 DEF SerialInv, MissingInv, Left, Added
    <3>2. u \in Users /\ c \in Channels
      BY DEF TypeOK, TypeZulip, TypeDatabase
    <3>3. CASE u = job[k].u /\ g = job[k].g
      BY <1>1, <1>3, <1>4, <3>3 DEF Left
    <3>4. CASE u = job[k].u /\ g # job[k].g /\ c \in job[k].target
      <4>1. c \in job[k].covered
        BY <1>0, <3>2, <3>4 DEF CoverPlace
      <4> QED
        BY <1>5, <3>1, <4>1
    <3>5. CASE u # job[k].u \/ c \notin job[k].target
      BY <1>5, <3>1, <3>5
    <3> QED BY <3>3, <3>4, <3>5
  <2> QED
    BY <1>0, <1>3, <2>1 DEF MissingInv, Restorable, Sure, Told, database
<1>9. OrphanInv(k)'
  <2>1. \A u, c : (Due(u, c)' <=> Due(u, c)) /\ ~Ahead(k, u, c)
    BY <1>0 DEF Due, Ahead, database
  <2>2. Covered(k)'
    <3>1. ASSUME NEW c \in chans[job[k].g], <<job[k].u, c>> \in subs'
          PROVE  Elsewhere(k, c)'
      <4>1. Elsewhere(k, c)
        BY <1>4, <1>5, <3>1
      <4> QED
        BY <1>0, <1>1, <1>3, <4>1 DEF Elsewhere, database
    <3> QED
      BY <1>0, <1>1, <1>3, <3>1 DEF Covered, database
  <2>3. ASSUME faults = 0, NEW u \in Users, NEW c \in Channels, <<u, c>> \in subs', <<u, c>> \notin kept'
        PROVE  Due(u, c)'
    <3>1. <<u, c>> \in subs /\ <<u, c>> \notin kept
      BY <1>5, <2>3
    <3> QED
      BY <2>1, <2>3, <3>1 DEF SerialInv, OrphanInv
  <2> QED
    BY <1>0, <2>2, <2>3 DEF OrphanInv
<1> QED BY <1>6, <1>7, <1>8, <1>9 DEF SerialInv

\* Nobody overtook the unsubscribe.
LEMMA UnLockSerial ==
  ASSUME NEW k \in Callers, TypeOK, SerialInv(k), UnLock(k), Told
  PROVE  SerialInv(k)'
<1>0. /\ pc[k] = "unLock" /\ TypeCallers
      /\ UNCHANGED <<database, zulip, gen, faults, called, kept>>
      /\ UnsubscribePlace(k)
  BY Told DEF UnLock, TypeOK, SerialInv, PlaceInv
<1>1. gen[job[k].g][job[k].u] = job[k].start
  BY <1>0 DEF UnsubscribePlace, Unsubscribing
<1>2. pc'[k] = "unDelete" /\ job'[k] = job[k]
  BY <1>0, <1>1, ContinueTo DEF UnLock
<1>3. PlaceInv(k)'
  <2>1. UnsubscribePlace(k)'
    BY <1>0, <1>2 DEF UnsubscribePlace, InUnsubscribe, Unsubscribing, database
  <2>2. CoverPlace(k)'
    BY <1>2 DEF CoverPlace
  <2> QED
    BY <1>2, <2>1, <2>2, OnlyUnsubscribe DEF InUnsubscribe, Unsubscribing
<1>4. \A g \in Groups, u \in Users : Left(k, g, u) => Left(k, g, u)'
  BY <1>0, <1>2 DEF Left, Added
<1>5. \A u \in Users, c \in Channels : ~Ahead(k, u, c)
  BY <1>0 DEF Ahead
<1>6. Restorable(k)' /\ (faults' = 0 => Covered(k)')
  BY <1>0, <1>2 DEF Restorable, Covered, Elsewhere, SerialInv, OrphanInv, database, zulip
<1> QED
  BY <1>0, <1>3, <1>4, <1>5, <1>6, LocalKeeps

LEMMA UnDeleteSerial ==
  ASSUME NEW k \in Callers, TypeOK, SerialInv(k), UnDelete(k), Told
  PROVE  SerialInv(k)'
<1>0. /\ pc[k] = "unDelete" /\ job[k] \in Job /\ job[k].g \in Groups /\ TypeCallers
      /\ UNCHANGED <<exists, chans, active, subs, gen, faults, called>>
      /\ members \in [Groups -> SUBSET Users] /\ chans \in [Groups -> SUBSET Channels]
      /\ UnsubscribePlace(k)
  BY JobType, Told DEF UnDelete, TypeOK, TypeZulip, TypeDatabase, SerialInv, PlaceInv, database
<1>1. /\ \A g \in Groups, u \in Users :
           u \in members'[g] <=> u \in members[g] /\ ~(g = job[k].g /\ u = job[k].u)
      /\ members' \in [Groups -> SUBSET Users]
  BY <1>0 DEF UnDelete, DropMembers
<1>2. PICK p \in {"idle", "unFinal"} :
        /\ pc'[k] = p
        /\ p = "unFinal" => job'[k] = job[k]
  <2>1. CASE Return(k)
    BY <1>0, <2>1, ReturnTo
  <2>2. CASE ~Return(k)
    BY <1>0, <2>2, ContinueTo DEF UnDelete
  <2> QED BY <2>1, <2>2
<1>3. \A u, c : <<u, c>> \in kept' <=>
        \/ <<u, c>> \in kept
        \/ job[k].keep /\ <<u, c>> \in subs /\ u = job[k].u /\ c \in chans[job[k].g]
  BY DEF UnDelete
<1>4. PlaceInv(k)'
  <2>1. CASE p = "idle"
    BY <1>2, <2>1, UnknownPlace DEF Known, InSubscribe, InUnsubscribe, Unsubscribing, Updating, Undoing
  <2>2. CASE p = "unFinal"
    <3>1. UnsubscribePlace(k)'
      BY <1>0, <1>2, <2>2 DEF UnsubscribePlace, InUnsubscribe, Unsubscribing
    <3>2. CoverPlace(k)'
      BY <1>2, <2>2 DEF CoverPlace
    <3> QED
      BY <1>2, <2>2, <3>1, <3>2, OnlyUnsubscribe DEF InUnsubscribe
  <2> QED BY <2>1, <2>2
<1>5. GroupsInv(k)'
  BY <1>0, GroupsKeep DEF SerialInv, TypeOK, TypeHistory
<1>6. MissingInv(k)'
  <2>1. ASSUME Sure, NEW g \in Groups, NEW u \in members'[g], NEW c \in chans[g]
        PROVE  <<u, c>> \in subs
    <3>1. u \in members[g] /\ ~(g = job[k].g /\ u = job[k].u)
      BY <1>1
    <3> QED
      BY <2>1, <3>1 DEF SerialInv, MissingInv, Left
  <2> QED
    BY <1>0, <1>2, <2>1 DEF MissingInv, Restorable, Sure, Told
<1>7. OrphanInv(k)'
  <2>1. ASSUME faults = 0, NEW u \in Users, NEW c \in Channels, <<u, c>> \in subs, <<u, c>> \notin kept'
        PROVE  Due(u, c)'
    <3>1. PICK g \in Groups : u \in members[g] /\ c \in chans[g]
      BY <1>0, <1>3, <2>1 DEF SerialInv, OrphanInv, Due, Ahead
    <3>2. CASE g # job[k].g \/ u # job[k].u
      BY <1>0, <1>1, <3>1, <3>2 DEF Due
    <3>3. CASE g = job[k].g /\ u = job[k].u
      <4>1. ~job[k].keep /\ <<u, c>> \notin kept
        BY <1>3, <2>1, <3>1, <3>3
      <4>2. Elsewhere(k, c)
        BY <1>0, <2>1, <3>1, <3>3, <4>1 DEF SerialInv, OrphanInv, Covered
      <4> QED
        BY <1>0, <1>1, <3>3, <4>2 DEF Elsewhere, Due
    <3> QED BY <3>2, <3>3
  <2>2. Covered(k)'
    BY <1>2 DEF Covered
  <2> QED
    BY <1>0, <2>1, <2>2 DEF OrphanInv
<1> QED BY <1>4, <1>5, <1>6, <1>7 DEF SerialInv

\* A user who could not be deleted enters the channels again.
LEMMA UnRestoreSerial ==
  ASSUME NEW k \in Callers, TypeOK, SerialInv(k), UnResub(k), Told
  PROVE  SerialInv(k)'
<1>0. /\ pc[k] = "unRestore" /\ faults > 0 /\ TypeCallers
      /\ UNCHANGED <<database, active, members, gen, faults, called>>
      /\ job[k].chans = chans[job[k].g]
      /\ Enter({job[k].u}, job[k].chans)
  BY Told DEF UnResub, TypeOK, SerialInv, PlaceInv, UnsubscribePlace, InUnsubscribe
<1>1. pc'[k] = "idle"
  BY <1>0, ReturnTo DEF UnResub
<1>2. PlaceInv(k)'
  BY <1>1, UnknownPlace DEF Known, InSubscribe, InUnsubscribe, Unsubscribing, Updating, Undoing
<1>3. GroupsInv(k)'
  BY <1>0, GroupsKeep DEF SerialInv, TypeOK, TypeHistory, database
<1>4. MissingInv(k)'
  <2>1. ASSUME Sure, NEW g \in Groups, NEW u \in members[g], NEW c \in chans[g]
        PROVE  <<u, c>> \in subs'
    <3>1. <<u, c>> \in subs \/ Left(k, g, u)
      BY <2>1 DEF SerialInv, MissingInv
    <3> QED
      BY <1>0, <3>1, EnterPairs DEF Left
  <2> QED
    BY <1>0, <1>1, <2>1 DEF MissingInv, Restorable, Sure, Told, database
<1>5. OrphanInv(k)'
  <2>1. faults \in Nat
    BY DEF TypeOK, TypeHistory
  <2> QED
    BY <1>0, <2>1 DEF OrphanInv
<1> QED BY <1>2, <1>3, <1>4, <1>5 DEF SerialInv

LEMMA UnFinalSerial ==
  ASSUME NEW k \in Callers, TypeOK, SerialInv(k), UnFinal(k), Told
  PROVE  SerialInv(k)'
<1>1. pc[k] = "unFinal" /\ chans[job[k].g] = job[k].chans
  BY Told DEF UnFinal, SerialInv, PlaceInv, UnsubscribePlace, InUnsubscribe
<1>2. Return(k) /\ UNCHANGED <<database, zulip, faults, kept>> /\ called' = called
  BY <1>1 DEF UnFinal
<1>3. pc[k] \in Calm
  BY <1>1, PlacesType DEF Calm, Added
<1> QED
  BY <1>2, <1>3, ReturnKeeps

LEMMA UnsubscribeSerial ==
  ASSUME NEW k \in Callers, TypeOK, SerialInv(k), Told
  PROVE  /\ UnStart(k) => SerialInv(k)'
         /\ UnShared(k) => SerialInv(k)'
         /\ UnCover(k) => SerialInv(k)'
         /\ UnLeave(k) => SerialInv(k)'
         /\ UnLock(k) => SerialInv(k)'
         /\ UnDelete(k) => SerialInv(k)'
         /\ UnResub(k) => SerialInv(k)'
         /\ UnFinal(k) => SerialInv(k)'
  BY UnStartSerial, UnSharedSerial, UnCoverSerial, UnLeaveSerial, UnLockSerial, UnDeleteSerial,
     UnRestoreSerial, UnFinalSerial

---------------------------------------------------------------------------
(* The steps of an update.                                                  *)

LEMMA UpMembersSerial ==
  ASSUME NEW k \in Callers, TypeOK, SerialInv(k), UpMembers(k), Told
  PROVE  SerialInv(k)'
<1> DEFINE j == [job[k] EXCEPT !.users = members[job[k].g]]
<1>0. /\ pc[k] = "upMembers" /\ job[k] \in Job /\ TypeCallers
      /\ UNCHANGED <<database, zulip, gen, faults, called, kept>>
      /\ UpdatePlace(k)
  BY JobType, Told DEF UpMembers, TypeOK, SerialInv, PlaceInv
<1>1. /\ j.g = job[k].g /\ j.chans = job[k].chans /\ j.target = job[k].target
      /\ j.users = members[job[k].g]
  BY <1>0 DEF Job
<1>2. PICK p \in {"upCommit", "upEnter"} :
        /\ Continue(k, p, j)
        /\ p = "upCommit" => job[k].target = {} \/ members[job[k].g] = {}
  BY DEF UpMembers
<1> HIDE DEF j
<1>3. pc'[k] = p /\ job'[k] = j
  BY <1>0, <1>2, ContinueTo
<1>4. PlaceInv(k)'
  <2>1. UpdatePlace(k)'
    BY <1>0, <1>1, <1>2, <1>3 DEF UpdatePlace, Updating, BeforeCommit, database, zulip
  <2> QED
    BY <1>3, <2>1, OnlyUpdate DEF Updating
<1>5. (\A g \in Groups, u \in Users : ~Left(k, g, u)) /\ \A u \in Users, c \in Channels : ~Ahead(k, u, c)
  BY <1>0 DEF Left, Added, Ahead
<1>6. Restorable(k)' /\ Covered(k)'
  BY <1>3 DEF Restorable, Covered
<1> QED
  BY <1>0, <1>4, <1>5, <1>6, LocalKeeps

LEMMA UpEnterSerial ==
  ASSUME NEW k \in Callers, TypeOK, SerialInv(k), UpEnter(k), Told
  PROVE  SerialInv(k)'
<1>0. /\ pc[k] = "upEnter" /\ job[k] \in Job /\ TypeCallers
      /\ UNCHANGED <<database, active, members, gen, faults, called>>
      /\ UpdatePlace(k)
  BY JobType, Told DEF UpEnter, TypeOK, SerialInv, PlaceInv
<1>1. pc'[k] = "upCommit" /\ job'[k] = job[k]
  BY <1>0, ContinueTo DEF UpEnter
<1>2. /\ \A u, c : <<u, c>> \in subs' <=> <<u, c>> \in subs \/ (u \in job[k].users /\ c \in job[k].target)
      /\ kept' = kept /\ subs \subseteq subs'
  BY EnterPairs DEF UpEnter
<1>3. job[k].users = members[job[k].g] /\ job[k].target = job[k].chans \ chans[job[k].g]
  BY <1>0 DEF UpdatePlace, BeforeCommit
<1>4. PlaceInv(k)'
  <2>1. UpdatePlace(k)'
    BY <1>0, <1>1, <1>2, <1>3 DEF UpdatePlace, Updating, BeforeCommit, database
  <2> QED
    BY <1>1, <2>1, OnlyUpdate DEF Updating
<1>5. GroupsInv(k)'
  BY <1>0, GroupsKeep DEF SerialInv, TypeOK, TypeHistory, database
<1>6. MissingInv(k)'
  <2>1. (\A g \in Groups, u \in Users : ~Left(k, g, u)) /\ Restorable(k)'
    BY <1>0, <1>1 DEF Left, Added, Restorable
  <2>2. faults \in Nat
    BY DEF TypeOK, TypeHistory
  <2> QED
    BY <1>0, <1>2, <2>1, <2>2, MissingKeep DEF SerialInv, database
<1>7. OrphanInv(k)'
  <2>1. \A u, c : (Due(u, c)' <=> Due(u, c)) /\ ~Ahead(k, u, c)
    BY <1>0 DEF Due, Ahead, database
  <2>2. \A u, c : u \in job[k].users /\ c \in job[k].target => Ahead(k, u, c)'
    BY <1>0, <1>1, <1>3 DEF Ahead, database
  <2>3. Covered(k)'
    BY <1>1 DEF Covered
  <2> QED
    BY <1>0, <1>2, <2>1, <2>2, <2>3 DEF SerialInv, OrphanInv
<1> QED BY <1>4, <1>5, <1>6, <1>7 DEF SerialInv

\* The commit makes the added channels due, and keeps those of the removed ones.
LEMMA UpCommitSerial ==
  ASSUME NEW k \in Callers, TypeOK, SerialInv(k), UpCommit(k), Told
  PROVE  SerialInv(k)'
<1>0. /\ pc[k] = "upCommit" /\ job[k] \in Job /\ job[k].g \in Groups /\ TypeCallers
      /\ UNCHANGED <<exists, active, members, subs, gen, faults, called>>
      /\ chans \in [Groups -> SUBSET Channels] /\ job[k].chans \in SUBSET Channels
      /\ UpdatePlace(k) /\ job[k].g \in exists
  BY JobType, Told DEF UpCommit, TypeOK, TypeDatabase, SerialInv, PlaceInv, UpdatePlace, Updating, zulip
<1>1. /\ chans' = [chans EXCEPT ![job[k].g] = (@ \ job[k].remove) \cup job[k].chans]
      /\ kept' = kept \cup {s \in subs : s[2] \in (chans[job[k].g] \cap job[k].remove) \ job[k].chans}
  BY <1>0 DEF UpCommit
<1>2. PICK p \in {"idle", "upCheck"} : pc'[k] = p /\ (p = "upCheck" => job'[k] = job[k])
  <2>1. CASE Return(k)
    BY <1>0, <2>1, ReturnTo
  <2>2. CASE ~Return(k)
    BY <1>0, <2>2, ContinueTo DEF UpCommit
  <2> QED BY <2>1, <2>2
<1>3. /\ \A g \in Groups : g # job[k].g => chans'[g] = chans[g]
      /\ chans'[job[k].g] = (chans[job[k].g] \ job[k].remove) \cup job[k].chans
  BY <1>0, <1>1
<1>4. \A u, c : <<u, c>> \in kept' <=>
        \/ <<u, c>> \in kept
        \/ <<u, c>> \in subs /\ c \in chans[job[k].g] /\ c \in job[k].remove /\ c \notin job[k].chans
  BY <1>1
<1>5. PlaceInv(k)'
  <2>1. CASE p = "idle"
    BY <1>2, <2>1, UnknownPlace DEF Known, InSubscribe, InUnsubscribe, Unsubscribing, Updating, Undoing
  <2>2. CASE p = "upCheck"
    <3>1. UpdatePlace(k)'
      BY <1>0, <1>2, <2>2 DEF UpdatePlace, Updating, BeforeCommit
    <3> QED
      BY <1>2, <2>2, <3>1, OnlyUpdate DEF Updating
  <2> QED BY <2>1, <2>2
<1>6. GroupsInv(k)'
  BY <1>0, <1>2, <1>3, Told DEF SerialInv, GroupsInv
<1>7. MissingInv(k)'
  <2>1. ASSUME Sure, NEW g \in Groups, NEW u \in members[g], NEW c \in chans'[g]
        PROVE  <<u, c>> \in subs
    <3>1. CASE c \in chans[g]
      BY <1>0, <2>1, <3>1 DEF SerialInv, MissingInv, Left, Added
    <3>2. CASE c \notin chans[g]
      <4>1. g = job[k].g /\ c \in job[k].chans /\ c \notin chans[job[k].g]
        BY <1>3, <3>2
      <4> QED
        BY <1>0, <4>1 DEF UpdatePlace, BeforeCommit
    <3> QED BY <3>1, <3>2
  <2> QED
    BY <1>0, <1>2, <2>1 DEF MissingInv, Restorable, Sure, Told
<1>8. OrphanInv(k)'
  <2>1. ASSUME faults = 0, NEW u \in Users, NEW c \in Channels, <<u, c>> \in subs, <<u, c>> \notin kept'
        PROVE  Due(u, c)'
    <3>1. Due(u, c) \/ Ahead(k, u, c)
      BY <1>4, <2>1 DEF SerialInv, OrphanInv
    <3>2. CASE Ahead(k, u, c)
      BY <1>0, <1>3, <3>2 DEF Ahead, Due
    <3>3. CASE Due(u, c)
      <4>1. PICK g \in Groups : u \in members[g] /\ c \in chans[g]
        BY <3>3 DEF Due
      <4>2. c \in chans'[g]
        BY <1>3, <1>4, <2>1, <4>1
      <4> QED
        BY <1>0, <4>1, <4>2 DEF Due
    <3> QED BY <3>1, <3>2, <3>3
  <2>2. Covered(k)'
    BY <1>2 DEF Covered
  <2> QED
    BY <1>0, <2>1, <2>2 DEF OrphanInv
<1> QED BY <1>5, <1>6, <1>7, <1>8 DEF SerialInv

LEMMA UpCheckSerial ==
  ASSUME NEW k \in Callers, TypeOK, SerialInv(k), UpCheck(k), Told
  PROVE  SerialInv(k)'
<1>1. pc[k] = "upCheck" /\ job[k].users \ members[job[k].g] = {}
  BY Told DEF UpCheck, SerialInv, PlaceInv, UpdatePlace
<1>2. Return(k) /\ UNCHANGED <<database, zulip, faults, kept>> /\ called' = called
  BY <1>1 DEF UpCheck
<1>3. pc[k] \in Calm
  BY <1>1, PlacesType DEF Calm, Added, Updating
<1> QED
  BY <1>2, <1>3, ReturnKeeps

LEMMA UpdateSerial ==
  ASSUME NEW k \in Callers, TypeOK, SerialInv(k), Told
  PROVE  /\ UpMembers(k) => SerialInv(k)'
         /\ UpEnter(k) => SerialInv(k)'
         /\ UpCommit(k) => SerialInv(k)'
         /\ UpCheck(k) => SerialInv(k)'
         /\ ~UpClean(k)
<1>1. ~UpClean(k)
  BY Told DEF UpClean, SerialInv, PlaceInv, UpdatePlace
<1> QED
  BY <1>1, UpMembersSerial, UpEnterSerial, UpCommitSerial, UpCheckSerial

---------------------------------------------------------------------------
(* The steps of a deletion.                                                 *)

LEMMA DelLockSerial ==
  ASSUME NEW k \in Callers, TypeOK, SerialInv(k), DelLock(k)
  PROVE  SerialInv(k)'
<1>1. /\ pc[k] = "delLock" /\ pc'[k] = "delList"
      /\ UNCHANGED <<database, zulip, faults, called, kept>>
  BY ContinueTo DEF DelLock, TypeOK
<1>2. PlaceInv(k)'
  BY <1>1, UnknownPlace DEF Known, InSubscribe, InUnsubscribe, Unsubscribing, Updating, Undoing
<1>3. pc[k] \in Calm /\ pc'[k] \in Calm
  BY <1>1, PlacesType DEF Calm, Added, Deleting
<1> QED
  BY <1>1, <1>2, <1>3, CalmKeeps

LEMMA DelListSerial ==
  ASSUME NEW k \in Callers, TypeOK, SerialInv(k), DelList(k)
  PROVE  SerialInv(k)'
<1> DEFINE j == [job[k] EXCEPT !.users = members[job[k].g]]
<1>0. /\ pc[k] = "delList" /\ job[k] \in Job /\ job[k].g \in Groups /\ TypeCallers
      /\ UNCHANGED <<database, zulip, gen, faults, called, kept>>
  BY JobType DEF DelList, TypeOK
<1>1. j.g = job[k].g /\ j.users = members[job[k].g]
  BY <1>0 DEF Job
<1>2. PICK p \in {"delDeactivate", "delEmpty"} : Continue(k, p, j)
  BY DEF DelList
<1> HIDE DEF j
<1>3. pc'[k] = p /\ job'[k] = j
  BY <1>0, <1>2, ContinueTo
<1>4. PlaceInv(k)'
  BY <1>0, <1>1, <1>3 DEF PlaceInv, SubscribePlace, UnsubscribePlace, CoverPlace, UpdatePlace,
       DeletePlace, InSubscribe, Added, InUnsubscribe, Unsubscribing, BeforeCommit, Updating,
       Undoing, database, zulip
<1>5. (\A g \in Groups, u \in Users : ~Left(k, g, u)) /\ \A u \in Users, c \in Channels : ~Ahead(k, u, c)
  BY <1>0 DEF Left, Added, Ahead
<1>6. Covered(k)'
  BY <1>3 DEF Covered
<1>7. Sure' => Restorable(k)'
  <2>1. Sure' => Sure
    BY <1>0 DEF Sure, Told
  <2>2. ASSUME Sure, NEW u \in members[job[k].g], NEW c \in chans[job[k].g]
        PROVE  <<u, c>> \in subs
    BY <1>0, <2>2 DEF SerialInv, MissingInv, Left, Added
  <2> QED
    BY <1>0, <1>1, <1>3, <2>1, <2>2 DEF Restorable, database, zulip
<1> QED
  BY <1>0, <1>4, <1>5, <1>6, <1>7, LocalKeeps

\* The members that were listed are all there still, and go at once.
LEMMA DelEmptySerial ==
  ASSUME NEW k \in Callers, TypeOK, SerialInv(k), DelEmpty(k), Told
  PROVE  SerialInv(k)'
<1>0. /\ pc[k] = "delEmpty" /\ job[k].g \in Groups /\ TypeCallers
      /\ job[k].users = members[job[k].g]
      /\ UNCHANGED <<exists, chans, active, subs, gen, faults, called, kept>>
      /\ members \in [Groups -> SUBSET Users]
  BY JobType, Told DEF DelEmpty, TypeOK, TypeZulip, SerialInv, PlaceInv, DeletePlace, database
<1>1. pc'[k] = "delDeactivate" /\ job'[k] = job[k]
  BY <1>0, ContinueTo DEF DelEmpty
<1>2. \A g \in Groups : \A u : u \in members'[g] <=> u \in members[g] /\ g # job[k].g
  BY <1>0 DEF DelEmpty, DropMembers
<1>3. PlaceInv(k)'
  BY <1>1, UnknownPlace DEF Known, InSubscribe, InUnsubscribe, Unsubscribing, Updating, Undoing
<1>4. GroupsInv(k)'
  BY <1>0, GroupsKeep DEF SerialInv, TypeOK, TypeHistory
<1>5. MissingInv(k)'
  <2>1. ASSUME Sure, NEW g \in Groups, NEW u \in members'[g], NEW c \in chans[g]
        PROVE  <<u, c>> \in subs
    BY <1>0, <1>2, <2>1 DEF SerialInv, MissingInv, Left, Added
  <2>2. Sure => Restorable(k)'
    BY <1>0, <1>1 DEF SerialInv, MissingInv, Restorable
  <2> QED
    BY <1>0, <2>1, <2>2 DEF MissingInv, Sure, Told
<1>6. OrphanInv(k)'
  <2>1. ASSUME faults = 0, NEW u \in Users, NEW c \in Channels, <<u, c>> \in subs, <<u, c>> \notin kept
        PROVE  Due(u, c)' \/ Ahead(k, u, c)'
    <3>1. PICK g \in Groups : u \in members[g] /\ c \in chans[g]
      BY <1>0, <2>1 DEF SerialInv, OrphanInv, Due, Ahead
    <3>2. CASE g = job[k].g
      BY <1>0, <1>1, <3>1, <3>2 DEF Ahead
    <3>3. CASE g # job[k].g
      BY <1>0, <1>2, <3>1, <3>3 DEF Due
    <3> QED BY <3>2, <3>3
  <2>2. Covered(k)'
    BY <1>1 DEF Covered
  <2> QED
    BY <1>0, <2>1, <2>2 DEF OrphanInv
<1> QED BY <1>3, <1>4, <1>5, <1>6 DEF SerialInv

LEMMA DelDeactivateSerial ==
  ASSUME NEW k \in Callers, TypeOK, SerialInv(k), DelDeactivate(k), Told
  PROVE  SerialInv(k)'
<1>0. /\ pc[k] = "delDeactivate" /\ pc'[k] = "delRow" /\ job'[k] = job[k]
      /\ UNCHANGED <<exists, chans, members, subs, gen, faults, called, kept>>
      /\ active' = active \ {job[k].g} /\ faults \in Nat
  BY ContinueTo DEF DelDeactivate, TypeOK, TypeHistory, database
<1>1. PlaceInv(k)'
  BY <1>0, UnknownPlace DEF Known, InSubscribe, InUnsubscribe, Unsubscribing, Updating, Undoing
<1>2. GroupsInv(k)'
  BY <1>0, Told DEF SerialInv, GroupsInv
<1>3. MissingInv(k)'
  <2>1. \A g \in Groups, u \in Users : ~Left(k, g, u)
    BY <1>0 DEF Left, Added
  <2>2. Restorable(k)'
    BY <1>0 DEF Restorable
  <2> QED
    BY <1>0, <2>1, <2>2, MissingKeep DEF SerialInv
<1>4. OrphanInv(k)'
  <2>1. \A u \in Users, c \in Channels : Ahead(k, u, c) => Ahead(k, u, c)'
    BY <1>0 DEF Ahead
  <2>2. Covered(k)'
    BY <1>0 DEF Covered
  <2> QED
    BY <1>0, <2>1, <2>2, OrphanKeep DEF SerialInv
<1> QED BY <1>1, <1>2, <1>3, <1>4 DEF SerialInv

\* The members that are put back never left the channels.
LEMMA DelRestoreSerial ==
  ASSUME NEW k \in Callers, TypeOK, SerialInv(k), DelRestore(k), Told
  PROVE  SerialInv(k)'
<1>0. /\ pc[k] = "delRestore" /\ job[k].g \in Groups /\ TypeCallers
      /\ UNCHANGED <<exists, chans, active, subs, gen, faults, called, kept>>
      /\ members \in [Groups -> SUBSET Users] /\ job[k].users \in SUBSET Users
  BY JobType DEF DelRestore, TypeOK, TypeZulip, database
<1>1. pc'[k] = "idle"
  BY <1>0, ReturnTo DEF DelRestore
<1>2. \A g \in Groups : \A u :
        u \in members'[g] <=> u \in members[g] \/ (g = job[k].g /\ u \in job[k].users)
  BY <1>0 DEF DelRestore, AddMembers
<1>3. PlaceInv(k)'
  BY <1>1, UnknownPlace DEF Known, InSubscribe, InUnsubscribe, Unsubscribing, Updating, Undoing
<1>4. GroupsInv(k)'
  BY <1>0, GroupsKeep DEF SerialInv, TypeOK, TypeHistory
<1>5. MissingInv(k)'
  <2>1. ASSUME Sure, NEW g \in Groups, NEW u \in members'[g], NEW c \in chans[g]
        PROVE  <<u, c>> \in subs
    <3>1. CASE u \in members[g]
      BY <1>0, <2>1, <3>1 DEF SerialInv, MissingInv, Left, Added
    <3>2. CASE u \notin members[g]
      <4>1. g = job[k].g /\ u \in job[k].users
        BY <1>2, <3>2
      <4> QED
        BY <1>0, <2>1, <4>1 DEF SerialInv, MissingInv, Restorable
    <3> QED BY <3>1, <3>2
  <2> QED
    BY <1>0, <1>1, <2>1 DEF MissingInv, Restorable, Sure, Told
<1>6. OrphanInv(k)'
  <2>1. \A u \in Users, c \in Channels : (Due(u, c) => Due(u, c)') /\ ~Ahead(k, u, c)
    BY <1>0, <1>2 DEF Due, Ahead
  <2>2. Covered(k)'
    BY <1>1 DEF Covered
  <2> QED
    BY <1>0, <2>1, <2>2 DEF SerialInv, OrphanInv
<1> QED BY <1>3, <1>4, <1>5, <1>6 DEF SerialInv

\* Those who were members keep the channels on purpose.
LEMMA DelRowSerial ==
  ASSUME NEW k \in Callers, TypeOK, SerialInv(k), DelRow(k), Told
  PROVE  SerialInv(k)'
<1>0. /\ pc[k] = "delRow" /\ job[k].g \in Groups /\ TypeCallers
      /\ UNCHANGED <<active, members, subs, gen, faults, called>>
      /\ exists' = exists \ {job[k].g}
      /\ chans \in [Groups -> SUBSET Channels]
  BY JobType DEF DelRow, TypeOK, TypeDatabase, zulip
<1>1. pc'[k] = "idle"
  BY <1>0, ReturnTo DEF DelRow
<1>2. \A g \in Groups : chans'[g] = IF g = job[k].g THEN {} ELSE chans[g]
  BY <1>0 DEF DelRow
<1>3. \A u, c : <<u, c>> \in kept' <=>
        <<u, c>> \in kept \/ (<<u, c>> \in subs /\ c \in chans[job[k].g])
  BY DEF DelRow
<1>4. PlaceInv(k)'
  BY <1>1, UnknownPlace DEF Known, InSubscribe, InUnsubscribe, Unsubscribing, Updating, Undoing
<1>5. GroupsInv(k)'
  BY <1>0, <1>2, Told DEF SerialInv, GroupsInv
<1>6. MissingInv(k)'
  <2>1. ASSUME Sure, NEW g \in Groups, NEW u \in members[g], NEW c \in chans'[g]
        PROVE  <<u, c>> \in subs
    <3>1. c \in chans[g]
      BY <1>2
    <3> QED
      BY <1>0, <2>1, <3>1 DEF SerialInv, MissingInv, Left, Added
  <2> QED
    BY <1>0, <1>1, <2>1 DEF MissingInv, Restorable, Sure, Told
<1>7. OrphanInv(k)'
  <2>1. ASSUME faults = 0, NEW u \in Users, NEW c \in Channels, <<u, c>> \in subs, <<u, c>> \notin kept'
        PROVE  Due(u, c)'
    <3>1. PICK g \in Groups : u \in members[g] /\ c \in chans[g]
      BY <1>0, <1>3, <2>1 DEF SerialInv, OrphanInv, Due, Ahead
    <3>2. g # job[k].g
      BY <1>3, <2>1, <3>1
    <3> QED
      BY <1>0, <1>2, <3>1, <3>2 DEF Due
  <2>2. Covered(k)'
    BY <1>1 DEF Covered
  <2> QED
    BY <1>0, <2>1, <2>2 DEF OrphanInv
<1> QED BY <1>4, <1>5, <1>6, <1>7 DEF SerialInv

LEMMA DeleteSerial ==
  ASSUME NEW k \in Callers, TypeOK, SerialInv(k), Told
  PROVE  /\ DelLock(k) => SerialInv(k)'
         /\ DelList(k) => SerialInv(k)'
         /\ DelEmpty(k) => SerialInv(k)'
         /\ DelDeactivate(k) => SerialInv(k)'
         /\ DelRestore(k) => SerialInv(k)'
         /\ DelRow(k) => SerialInv(k)'
  BY DelLockSerial, DelListSerial, DelEmptySerial, DelDeactivateSerial, DelRestoreSerial, DelRowSerial

---------------------------------------------------------------------------
(* A call, and a failing request.                                           *)

LEMMA BeginSerial ==
  ASSUME NEW k \in Callers, TypeOK, SerialInv(k), pc[k] = "idle",
         UNCHANGED <<database, zulip, faults, kept>>, called \subseteq called',
         pc'[k] \in {"subLock", "unStart", "delLock", "upCommit", "upMembers"}, PlaceInv(k)'
  PROVE  SerialInv(k)'
<1>1. /\ \A g \in Groups, u \in Users : ~Left(k, g, u)
      /\ \A u \in Users, c \in Channels : ~Ahead(k, u, c)
  BY DEF Left, Added, Ahead
<1>2. Restorable(k)' /\ Covered(k)'
  BY DEF Restorable, Covered
<1> QED
  BY <1>1, <1>2, LocalKeeps

LEMMA CallSerial ==
  ASSUME NEW k \in Callers, TypeOK, SerialInv(k), Call(k)
  PROVE  SerialInv(k)'
<1>0. TypeCallers /\ NoJob \in Job /\ NoJob.done = {} /\ NoJob.users = {} /\ ~NoJob.final
  BY NoJobIsJob DEF TypeOK, NoJob
<1>1. ASSUME NEW g \in Groups, NEW u \in Users, Subscribe(k, g, u)
      PROVE  SerialInv(k)'
  <2> DEFINE j == [NoJob EXCEPT !.g = g, !.u = u]
  <2>1. /\ pc[k] = "idle" /\ called' = called \cup {"subscribe"}
        /\ UNCHANGED <<database, zulip, faults, kept>> /\ Continue(k, "subLock", j)
    BY <1>1 DEF Subscribe, Begin
  <2>2. j.done = {}
    BY <1>0 DEF Job
  <2> HIDE DEF j
  <2>3. pc'[k] = "subLock" /\ job'[k] = j
    BY <1>0, <2>1, ContinueTo
  <2>4. SubscribePlace(k)'
    BY <2>1, <2>2, <2>3 DEF SubscribePlace, InSubscribe, Added, Undoing
  <2>5. PlaceInv(k)'
    BY <2>3, <2>4, OnlySubscribe DEF InSubscribe
  <2> QED
    BY <2>1, <2>3, <2>5, BeginSerial
<1>2. ASSUME NEW g \in Groups, NEW u \in Users, NEW keep \in BOOLEAN, Unsubscribe(k, g, u, keep)
      PROVE  SerialInv(k)'
  <2> DEFINE j == [NoJob EXCEPT !.g = g, !.u = u, !.keep = keep, !.chans = chans[g]]
  <2>1. /\ pc[k] = "idle" /\ called \subseteq called' /\ g \in exists
        /\ UNCHANGED <<database, zulip, faults, kept>> /\ Continue(k, "unStart", j)
    BY <1>2 DEF Unsubscribe, Begin
  <2>2. j.g = g /\ j.chans = chans[g] /\ ~j.final
    BY <1>0 DEF Job
  <2> HIDE DEF j
  <2>3. pc'[k] = "unStart" /\ job'[k] = j
    BY <1>0, <2>1, ContinueTo
  <2>4. UnsubscribePlace(k)'
    BY <2>1, <2>2, <2>3 DEF UnsubscribePlace, InUnsubscribe, Unsubscribing, database
  <2>5. CoverPlace(k)'
    BY <2>3 DEF CoverPlace
  <2>6. PlaceInv(k)'
    BY <2>3, <2>4, <2>5, OnlyUnsubscribe DEF InUnsubscribe
  <2> QED
    BY <2>1, <2>3, <2>6, BeginSerial
<1>3. ASSUME NEW g \in Groups, Delete(k, g)
      PROVE  SerialInv(k)'
  <2>1. /\ pc[k] = "idle" /\ called \subseteq called' /\ pc'[k] = "delLock"
        /\ UNCHANGED <<database, zulip, faults, kept>>
    BY <1>0, <1>3, ContinueTo DEF Delete, Begin
  <2>2. PlaceInv(k)'
    BY <2>1, UnknownPlace DEF Known, InSubscribe, InUnsubscribe, Unsubscribing, Updating, Undoing
  <2> QED
    BY <2>1, <2>2, BeginSerial
<1>4. ASSUME NEW g \in Groups, NEW add \in SUBSET Channels, NEW remove \in SUBSET Channels,
             Update(k, g, add, remove)
      PROVE  SerialInv(k)'
  <2> DEFINE added == add \ chans[g]
             j == [NoJob EXCEPT !.g = g, !.chans = add, !.remove = remove, !.target = added]
  <2>1. /\ pc[k] = "idle" /\ called \subseteq called' /\ g \in exists
        /\ UNCHANGED <<database, zulip, faults, kept>>
    BY <1>4 DEF Update, Begin
  <2>2. j.g = g /\ j.chans = add /\ j.target = added /\ j.users = {}
    BY <1>0 DEF Job
  <2>3. PICK p \in {"upCommit", "upMembers"} :
          Continue(k, p, j) /\ (p = "upCommit" => added = {})
    BY <1>4 DEF Update
  <2> HIDE DEF j
  <2>4. pc'[k] = p /\ job'[k] = j
    BY <1>0, <2>3, ContinueTo
  <2>5. UpdatePlace(k)'
    BY <2>1, <2>2, <2>3, <2>4 DEF UpdatePlace, Updating, BeforeCommit, database
  <2>6. PlaceInv(k)'
    BY <2>4, <2>5, OnlyUpdate DEF Updating
  <2> QED
    BY <2>1, <2>4, <2>6, BeginSerial
<1>5. ASSUME NEW g \in Groups, NEW c \in Channels, Update(k, g, {c}, {}) \/ Update(k, g, {}, {c})
      PROVE  SerialInv(k)'
  <2>1. {c} \in SUBSET Channels /\ {} \in SUBSET Channels
    OBVIOUS
  <2> QED
    BY <1>4, <1>5, <2>1
<1> QED
  BY <1>1, <1>2, <1>3, <1>5 DEF Call

\* Where an answer was lost nothing is claimed.
LEMMA UntoldSerial ==
  ASSUME NEW k \in Callers, ~Told'
  PROVE  SerialInv(k)'
  BY DEF SerialInv, PlaceInv, GroupsInv, MissingInv, OrphanInv, Sure, Told

LEMMA AfterErrorCases ==
  ASSUME NEW k \in Callers
  PROVE  \/ /\ AfterError(k) \in Undoing
            /\ pc[k] \in {"subRead", "subEnter", "subCheck", "subClean", "undoMember"}
         \/ AfterError(k) = "unRestore" /\ pc[k] = "unDelete" /\ ~job[k].keep
         \/ AfterError(k) = "delRestore" /\ pc[k] = "delDeactivate" /\ job[k].users # {}
         \/ /\ AfterError(k) = "idle"
            /\ pc[k] \notin {"subRead", "subEnter", "subCheck", "subClean", "undoMember"}
            /\ pc[k] = "unDelete" => job[k].keep
            /\ pc[k] = "delDeactivate" => job[k].users = {}
  BY DEF AfterError, Undoing

\* The places at which Zulip refuses a request.
Refusable == {"subAdd", "undoMember", "unDelete", "delEmpty", "delDeactivate", "delRestore"}

\* A request that fails has done nothing, where answers are not lost.
LEMMA ErrorFacts ==
  ASSUME NEW k \in Callers, TypeOK, Fails(k) \/ Refused(k), Told'
  PROVE  /\ UNCHANGED <<exists, chans, active, members, subs, kept, gen, called>>
         /\ pc'[k] = AfterError(k)
         /\ AfterError(k) # "idle" => job'[k] = job[k]
         /\ faults \in Nat /\ faults' \in Nat /\ pc[k] \in Requests
         /\ \/ faults' = faults + 1
            \/ faults' = faults /\ Refused(k) /\ pc[k] \in Refusable
<1>0. TypeCallers /\ faults \in Nat
  BY DEF TypeOK, TypeHistory
<1>1. Error(k)
  BY DEF Fails, Refused
<1>2. pc'[k] = AfterError(k) /\ (AfterError(k) # "idle" => job'[k] = job[k])
  <2>1. CASE AfterError(k) = "idle"
    BY <1>0, <1>1, <2>1, ReturnTo DEF Error
  <2>2. CASE AfterError(k) # "idle"
    BY <1>0, <1>1, <2>2, ContinueTo DEF Error
  <2> QED BY <2>1, <2>2
<1>3. UNCHANGED <<exists, chans, gen, called>>
  BY <1>1 DEF Error, database
<1>4. CASE Fails(k)
  <2>1. faults' = faults + 1 /\ pc[k] \in Requests
    BY <1>4 DEF Fails
  <2>2. "lose" \notin FaultKinds
    BY <1>0, <2>1 DEF Told
  <2> QED
    BY <1>0, <1>2, <1>3, <1>4, <2>1, <2>2 DEF Fails
<1>5. CASE Refused(k)
  <2>1. pc[k] \in Requests
    BY <1>5, PlacesType DEF Refused, Requests, Subscribing, Unsubscribing, Deleting
  <2> QED
    BY <1>0, <1>2, <1>3, <1>5, <2>1 DEF Refused, zulip, Refusable
<1> QED BY <1>4, <1>5

\* A group that has a row is refused only after a failure.
LEMMA RefusedLate ==
  ASSUME NEW k \in Callers, SerialInv(k), Told, Refused(k), job[k].g \in exists, faults \in Nat
  PROVE  faults > 0
<1>1. job[k].g \notin active /\ pc[k] # "delRow"
  BY DEF Refused
<1> QED
  BY <1>1, Told DEF SerialInv, GroupsInv

LEMMA UndoingAfterError ==
  ASSUME NEW k \in Callers, TypeOK, SerialInv(k), Fails(k) \/ Refused(k), Told, Told',
         AfterError(k) \in Undoing,
         pc[k] \in {"subRead", "subEnter", "subCheck", "subClean", "undoMember"}
  PROVE  PlaceInv(k)' /\ MissingInv(k)' /\ OrphanInv(k)'
<1>1. "subscribe" \in called /\ (pc[k] = "undoMember" => faults > 0)
  BY Told DEF SerialInv, PlaceInv, SubscribePlace, InSubscribe, Undoing
<1>2. "subscribe" \in called' /\ faults' > 0 /\ faults' \in Nat /\ pc'[k] \in Undoing
  BY <1>1, Told', ErrorFacts DEF Refusable
<1>3. SubscribePlace(k)'
  BY <1>2 DEF SubscribePlace, InSubscribe, Added, Undoing
<1>4. PlaceInv(k)'
  BY <1>2, <1>3, OnlySubscribe
<1> QED
  BY <1>2, <1>4 DEF MissingInv, OrphanInv, Sure

LEMMA RestoringAfterError ==
  ASSUME NEW k \in Callers, TypeOK, SerialInv(k), Fails(k) \/ Refused(k), Told, Told',
         AfterError(k) = "unRestore", pc[k] = "unDelete", ~job[k].keep
  PROVE  PlaceInv(k)' /\ MissingInv(k)' /\ OrphanInv(k)'
<1>1. /\ UNCHANGED <<exists, chans, members, subs, kept, gen, called>>
      /\ pc'[k] = "unRestore" /\ job'[k] = job[k] /\ faults \in Nat /\ faults' \in Nat
      /\ faults' = faults + 1 \/ (faults' = faults /\ Refused(k))
  BY Told', ErrorFacts
<1>2. UnsubscribePlace(k) /\ job[k].g \in exists
  BY Told DEF SerialInv, PlaceInv, UnsubscribePlace, InUnsubscribe, Unsubscribing
<1>3. faults' > 0 /\ faults' >= faults
  BY <1>1, <1>2, Told, RefusedLate
<1>4. PlaceInv(k)'
  <2>1. UnsubscribePlace(k)'
    BY <1>1, <1>2, <1>3 DEF UnsubscribePlace, InUnsubscribe, Unsubscribing
  <2>2. CoverPlace(k)'
    BY <1>1 DEF CoverPlace
  <2> QED
    BY <1>1, <2>1, <2>2, OnlyUnsubscribe DEF InUnsubscribe
<1>5. MissingInv(k)'
  <2>1. \A g \in Groups, u \in Users : Left(k, g, u) => Left(k, g, u)'
    BY <1>1 DEF Left
  <2>2. Restorable(k)'
    BY <1>1 DEF Restorable
  <2> QED
    BY <1>1, <1>3, <2>1, <2>2, MissingKeep DEF SerialInv
<1>6. OrphanInv(k)'
  BY <1>3 DEF OrphanInv
<1> QED BY <1>4, <1>5, <1>6

LEMMA PuttingBackAfterError ==
  ASSUME NEW k \in Callers, IInv, SerialInv(k), Fails(k) \/ Refused(k), Told, Told',
         AfterError(k) = "delRestore", pc[k] = "delDeactivate", job[k].users # {}
  PROVE  PlaceInv(k)' /\ MissingInv(k)' /\ OrphanInv(k)'
<1>0. TypeOK
  BY DEF IInv
<1>1. /\ UNCHANGED <<exists, chans, members, subs, kept, gen, called>>
      /\ pc'[k] = "delRestore" /\ job'[k] = job[k] /\ faults \in Nat /\ faults' \in Nat
      /\ faults' = faults + 1 \/ (faults' = faults /\ Refused(k))
  BY <1>0, Told', ErrorFacts
<1>2. job[k].g \in exists
  BY DEF IInv, DeleteInv, DeleteOf
<1>3. faults' > 0 /\ faults' >= faults
  BY <1>1, <1>2, Told, RefusedLate
<1>4. PlaceInv(k)'
  BY <1>1, UnknownPlace DEF Known, InSubscribe, InUnsubscribe, Unsubscribing, Updating, Undoing
<1>5. MissingInv(k)'
  <2>1. \A g \in Groups, u \in Users : ~Left(k, g, u)
    BY DEF Left, Added
  <2>2. Sure' => Restorable(k)'
    <3>1. Sure' => Sure
      BY <1>1, <1>3, SureBefore
    <3> QED
      BY <1>1, <3>1 DEF SerialInv, MissingInv, Restorable
  <2> QED
    BY <1>0, <1>1, <1>3, <2>1, <2>2, MissingKeep DEF SerialInv
<1>6. OrphanInv(k)'
  BY <1>3 DEF OrphanInv
<1> QED BY <1>4, <1>5, <1>6

\* A call that an error ends has left nobody out of a channel, nor in one: what
\* was under way had not begun.
LEMMA EndingAfterError ==
  ASSUME NEW k \in Callers, TypeOK, SerialInv(k), Fails(k) \/ Refused(k), Told, Told',
         AfterError(k) = "idle",
         pc[k] \notin {"subRead", "subEnter", "subCheck", "subClean", "undoMember"},
         pc[k] = "unDelete" => job[k].keep,
         pc[k] = "delDeactivate" => job[k].users = {}
  PROVE  PlaceInv(k)' /\ MissingInv(k)' /\ OrphanInv(k)'
<1>1. /\ UNCHANGED <<exists, chans, members, subs, kept, gen, called>>
      /\ pc'[k] = "idle" /\ faults \in Nat /\ faults' \in Nat /\ pc[k] \in Requests
      /\ \/ faults' = faults + 1
         \/ faults' = faults /\ Refused(k) /\ pc[k] \in Refusable
  BY Told', ErrorFacts
<1>2. faults' >= faults
  BY <1>1
<1>3. PlaceInv(k)'
  BY <1>1, UnknownPlace DEF Known, InSubscribe, InUnsubscribe, Unsubscribing, Updating, Undoing
<1>4. MissingInv(k)'
  <2>1. Sure' => \A g \in Groups, u \in Users : ~Left(k, g, u)
    <3>1. SUFFICES ASSUME Sure', NEW g \in Groups, NEW u \in Users, Left(k, g, u)
                   PROVE  FALSE
      OBVIOUS
    <3>2. pc[k] = "unRestore"
      BY <1>1, <3>1 DEF Left, Added, Requests
    <3>3. faults > 0
      BY <3>2, Told DEF SerialInv, PlaceInv, UnsubscribePlace
    <3>4. faults' = faults + 1
      BY <1>1, <3>2 DEF Refusable
    <3> QED
      BY <1>1, <3>1, <3>3, <3>4 DEF Sure
  <2>2. Restorable(k)'
    BY <1>1 DEF Restorable
  <2>3. Sure' => Sure
    BY <1>1, <1>2, SureBefore
  <2>4. ASSUME Sure', NEW g \in Groups, NEW u \in members[g], NEW c \in chans[g]
        PROVE  <<u, c>> \in subs
    <3>1. u \in Users
      BY DEF TypeOK, TypeZulip
    <3> QED
      BY <2>1, <2>3, <2>4, <3>1 DEF SerialInv, MissingInv
  <2> QED
    BY <1>1, <2>2, <2>4 DEF MissingInv
<1>5. OrphanInv(k)'
  <2>1. CASE faults' > 0
    BY <1>1, <2>1 DEF OrphanInv
  <2>2. CASE faults' = 0
    <3>1. faults = 0 /\ Refused(k) /\ pc[k] \in Refusable
      BY <1>1, <2>2
    <3>2. job[k].g \in Groups /\ job[k].g \notin exists
      BY <3>1, Told, RefusedLate, JobType
    <3>3. chans[job[k].g] = {}
      BY <3>2, Told DEF SerialInv, GroupsInv
    <3>4. \A u \in Users, c \in Channels : ~Ahead(k, u, c)
      BY <3>1, <3>3 DEF Ahead, Refusable
    <3>5. Covered(k)'
      BY <1>1 DEF Covered
    <3> QED
      BY <1>1, <3>1, <3>4, <3>5, OrphanKeep DEF SerialInv
  <2> QED BY <1>1, <2>1, <2>2
<1> QED BY <1>3, <1>4, <1>5

LEMMA ErrorSerial ==
  ASSUME NEW k \in Callers, IInv, SerialInv(k), Fails(k) \/ Refused(k), Told, Told'
  PROVE  SerialInv(k)'
<1>0. TypeOK
  BY DEF IInv
<1>1. /\ UNCHANGED <<exists, chans, active>> /\ faults \in Nat /\ faults' \in Nat
      /\ faults' >= faults /\ (pc[k] # "delRow" \/ faults' > 0)
  BY <1>0, Told', ErrorFacts DEF Refusable
<1>2. GroupsInv(k)'
  BY <1>1, GroupsKeep DEF SerialInv
<1>3. PlaceInv(k)' /\ MissingInv(k)' /\ OrphanInv(k)'
  BY <1>0, Told, Told', AfterErrorCases, UndoingAfterError, RestoringAfterError,
     PuttingBackAfterError, EndingAfterError
<1> QED BY <1>2, <1>3 DEF SerialInv

---------------------------------------------------------------------------
(* The theorems.                                                            *)

\* The bot's event loop, which makes one call after the other.
OneCaller == \E k \in Callers : Callers = {k}

LEMMA SerialStep ==
  ASSUME NEW k \in Callers, Callers = {k}, IInv, SerialInv(k), [Next]_vars
  PROVE  SerialInv(k)'
<1>0. TypeOK /\ TypeOK'
  BY InvStep DEF IInv
<1>1. CASE UNCHANGED vars
  BY <1>1 DEF vars, database, zulip, lock, callers, SerialInv, PlaceInv, GroupsInv, MissingInv,
       OrphanInv, Told, Sure, SubscribePlace, UnsubscribePlace, CoverPlace, Elsewhere, UpdatePlace,
       DeletePlace, Left, Restorable, Due, Ahead, Covered
<1>2. CASE Call(k)
  BY <1>0, <1>2, CallSerial
<1>3. CASE ~Told'
  BY <1>3, UntoldSerial
<1>4. CASE Step(k) /\ Told'
  <2>1. Told
    BY <1>4 DEF Step, Told, SubLock, SubAdd, SubBump, SubRead, SubEnter, SubCheck, SubClean,
         UndoMember, UndoChannels, UnStart, UnShared, UnCover, UnLeave, UnLock, UnDelete, UnResub,
         UnFinal, UpMembers, UpEnter, UpCommit, UpCheck, UpClean, DelLock, DelList, DelEmpty,
         DelDeactivate, DelRestore, DelRow
  <2> QED
    BY <1>0, <1>4, <2>1, SubscribeSerial, UnsubscribeSerial, UpdateSerial, DeleteSerial DEF Step
<1>5. CASE (Fails(k) \/ Refused(k)) /\ Told'
  <2>1. Told
    BY <1>0, <1>5, ErrorFacts DEF Told
  <2> QED
    BY <1>5, <2>1, ErrorSerial
<1>6. Call(k) \/ Step(k) \/ Fails(k) \/ Refused(k) \/ UNCHANGED vars
  BY DEF Next
<1> QED
  BY <1>1, <1>2, <1>3, <1>4, <1>5, <1>6

\* The inductive invariant of a single caller.
LEMMA SerialAlways ==
  ASSUME NEW k \in Callers, Callers = {k}
  PROVE  Spec => [](IInv /\ SerialInv(k))
<1>1. Init => IInv /\ SerialInv(k)
  BY InvInit, InitSerial
<1>2. IInv /\ SerialInv(k) /\ [Next]_vars => (IInv /\ SerialInv(k))'
  BY InvStep, SerialStep
<1> QED
  BY <1>1, <1>2, PTL DEF Spec

\* A lone caller, whose calls follow each other as the commands of the bot do,
\* leaves nobody in a channel without a reason: when it is idle and nothing
\* failed, a subscription that nobody keeps on purpose is a channel of a group of
\* the user.  Unsubscribing leaves exactly what no other group covers (UnShared,
\* UnCover, UnLeave), and adding a channel enters only members.
THEOREM SerialNoOrphans == OneCaller => (Spec => []NoOrphans)
<1>1. SUFFICES ASSUME NEW k \in Callers, Callers = {k} PROVE Spec => []NoOrphans
  BY DEF OneCaller
<1>2. IInv /\ SerialInv(k) => NoOrphans
  <2>1. SUFFICES ASSUME IInv, SerialInv(k), Quiet, faults = 0, NEW s \in subs \ kept
                 PROVE  Justified(s)
    BY DEF NoOrphans
  <2>2. PICK u \in Users, c \in Channels : s = <<u, c>>
    BY <2>1 DEF IInv, TypeOK, TypeZulip
  <2>3. ~Ahead(k, u, c)
    BY <2>1 DEF Quiet, Ahead
  <2>4. Due(u, c)
    BY <2>1, <2>2, <2>3 DEF SerialInv, OrphanInv
  <2> QED
    BY <2>2, <2>4 DEF Due, Justified
<1> QED
  BY <1>1, <1>2, SerialAlways, PTL

\* A lone caller keeps every member of a group in all the group's channels, calls
\* that fail included, where a failing request does nothing and at most one fails,
\* if it is not a subscribe's.  The undos of api_channel_groups.go restore what was
\* there: the channels of a member who could not be deleted, and the members of a
\* user group that could not be deactivated.
THEOREM SerialMaterialized ==
  OneCaller /\ "lose" \notin FaultKinds => (Spec => []MaterializedUnlessUndone)
<1>1. SUFFICES ASSUME NEW k \in Callers, Callers = {k}, "lose" \notin FaultKinds
               PROVE  Spec => []MaterializedUnlessUndone
  BY DEF OneCaller
<1>2. IInv /\ SerialInv(k) => MaterializedUnlessUndone
  <2>1. SUFFICES ASSUME IInv, SerialInv(k), Quiet, faults <= 1, faults > 0 => "subscribe" \notin called
                 PROVE  Subscribed
    BY DEF MaterializedUnlessUndone
  <2>2. Sure
    BY <1>1, <2>1 DEF Sure, Told
  <2>3. \A g \in Groups, u \in Users : ~Left(k, g, u)
    BY <2>1 DEF Quiet, Left, Added
  <2>4. ASSUME NEW g \in Groups, NEW u \in members[g], NEW c \in chans[g]
        PROVE  <<u, c>> \in subs
    <3>1. u \in Users
      BY <2>1 DEF IInv, TypeOK, TypeZulip
    <3> QED
      BY <2>1, <2>2, <2>3, <3>1 DEF SerialInv, MissingInv
  <2> QED
    BY <2>4 DEF Subscribed
<1> QED
  BY <1>1, <1>2, SerialAlways, PTL
=============================================================================
