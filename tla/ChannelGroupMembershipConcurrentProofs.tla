--------------- MODULE ChannelGroupMembershipConcurrentProofs ---------------
(***************************************************************************)
(* Theorems about ChannelGroupMembership where any number of callers call  *)
(* the service at the same time for one group, and no request fails: which *)
(* calls leave its members subscribed, and nobody else in its channels.    *)
(***************************************************************************)
EXTENDS ChannelGroupMembershipSerialProofs

---------------------------------------------------------------------------
(* What is called.                                                          *)

G        == CHOOSE g \in Groups : TRUE
OneGroup == Groups = {G}

\* The operation that a caller carries out.
OperationOf(k) ==
  CASE pc[k] \in Subscribing -> "subscribe"
    [] pc[k] \in Updating    -> IF job[k].chans # {} THEN "add" ELSE "remove"
    [] pc[k] \in Deleting    -> "delete"
    [] OTHER                 -> IF job[k].keep THEN "keep" ELSE "unsubscribe"

TraceInv == \A k \in Callers : pc[k] # "idle" => OperationOf(k) \in called

\* With two calls in progress there has been no other.
CountInv ==
  /\ ops = 0 => called = {} /\ Quiet
  /\ ops <= 1 => \A i, k \in Callers :
       pc[i] # "idle" => (pc[k] # "idle" => i = k) /\ called \subseteq {OperationOf(i)}
  /\ ops <= 2 => \A i, k \in Callers :
       i # k /\ pc[i] # "idle" /\ pc[k] # "idle" => called \subseteq {OperationOf(i), OperationOf(k)}
  /\ ops <= 1 => \A o \in called, p \in called : o = p
  /\ ops <= 2 => \A o \in called, p \in called, q \in called : o = p \/ o = q \/ p = q

---------------------------------------------------------------------------
(* What holds at the places of the callers, whatever is called.             *)

\* A group that has no row has no channels, and was deactivated only before.
GoneInv ==
  /\ G \in exists => G \in active \/ \E d \in Callers : pc[d] = "delRow"
  /\ G \notin exists => chans[G] = {} /\ "delete" \in called

SubscribeAt(k) ==
  /\ pc[k] \in {"subLock", "subAdd", "subBump"} => job[k].done = {}
  /\ pc[k] = "subEnter" /\ "remove" \notin called => job[k].target \subseteq chans[G] \/ G \notin exists
  /\ pc[k] \in Undoing => G \notin exists

\* From the reading of the channels to the deletion of the member, and after it.
InLeaving == Unsubscribing \cup {"unStart", "unResub", "unFinal"}
Leaving   == InLeaving \cup {"unRestore"}

UnsubscribeAt(k) ==
  /\ pc[k] # "unCover"
  /\ pc[k] = "unLeave" => job[k].covered = {}
  /\ pc[k] \in {"unShared", "unLeave", "unFinal", "unResub", "unRestore"} => ~job[k].keep
  /\ pc[k] \in {"unShared", "unLeave"} =>
       IF job[k].final THEN "add" \in called ELSE job[k].target = job[k].chans
  /\ pc[k] \in Unsubscribing \cup {"unFinal"} /\ "subscribe" \notin called =>
       job[k].start = gen[G][job[k].u]
  /\ pc[k] = "unResub" => "subscribe" \in called
  /\ pc[k] = "unRestore" => G \notin exists
  /\ pc[k] \in InLeaving /\ "add" \notin called => chans[G] \subseteq job[k].chans
  /\ pc[k] \in InLeaving /\ "remove" \notin called /\ "delete" \notin called =>
       job[k].chans \subseteq chans[G]

UpdateAt(k) ==
  /\ pc[k] \in Updating => job[k].target \subseteq job[k].chans
  /\ pc[k] \in {"upEnter", "upCheck", "upClean"} => job[k].target # {}
  /\ pc[k] \in BeforeCommit /\ ops <= 2 /\ ~(called \subseteq {"add"}) =>
       job[k].target \cap chans[G] = {}
  /\ pc[k] \in BeforeCommit /\ ops <= 1 => job[k].target \cap chans[G] = {}
  /\ pc[k] \in BeforeCommit => job[k].chans = {} \/ job[k].remove = {}

DeleteAt(k) == pc[k] # "delRestore"

At(k) == SubscribeAt(k) /\ UnsubscribeAt(k) /\ UpdateAt(k) /\ DeleteAt(k)

AtInv == TraceInv /\ CountInv /\ GoneInv /\ \A k \in Callers : At(k)

---------------------------------------------------------------------------
(* Members without a channel.                                               *)

\* The calls that do not disturb each other in this.
Gentle ==
  \/ "subscribe" \notin called
  \/ called \subseteq {"subscribe", "remove", "delete"}
  \/ ops <= 2 /\ called \subseteq {"subscribe", "unsubscribe", "keep"}

\* A user on the way in, and one on the way out.
Joining(k, u) == pc[k] \in Added /\ u = job[k].u
Parting(k, u) == pc[k] \in {"unLock", "unDelete", "unResub"} /\ ~job[k].keep /\ u = job[k].u

Parts(u) == \E k \in Callers : Parting(k, u)

Held(u, c) == <<u, c>> \in subs \/ Parts(u) \/ \E k \in Callers : Joining(k, u)

\* The group is gone or about to go.
Doomed == G \notin exists \/ \E d \in Callers : pc[d] \in {"delDeactivate", "delRow"}

\* Somebody may have been taken out of the group.
Away == Doomed \/ "unsubscribe" \in called \/ "keep" \in called

MemberHeld == \A u \in members[G], c \in chans[G] : Held(u, c)

SubscribeHeld(k) ==
  /\ pc[k] \in Added /\ job[k].u \notin members[G] => Away
  /\ pc[k] = "subClean" => job[k].u \notin members[G] /\ Away
  /\ pc[k] \in {"subRead", "subEnter", "subCheck"} =>
       \A u \in members[G], c \in job[k].done \cap chans[G] :
         u = job[k].u => <<u, c>> \in subs \/ Parts(u)

UnsubscribeHeld(k) ==
  pc[k] = "unFinal" \/ (pc[k] \in {"unShared", "unLeave"} /\ job[k].final) =>
    "subscribe" \in called \/ job[k].u \notin members[G]

UpdateHeld(k) ==
  /\ pc[k] \in BeforeCommit => \A u \in members[G], c \in job[k].chans :
       (pc[k] # "upCommit" /\ c \in job[k].target) \/ Held(u, c)
  /\ pc[k] = "upEnter" => members[G] \subseteq job[k].users
  /\ pc[k] = "upClean" => job[k].users \cap members[G] = {}

HeldInv ==
  Gentle => /\ MemberHeld
            /\ \A k \in Callers : SubscribeHeld(k) /\ UnsubscribeHeld(k) /\ UpdateHeld(k)

---------------------------------------------------------------------------
(* Channels without membership.                                             *)

\* The calls that do not disturb each other in this.
Tidy ==
  \/ \E together \in Companions : called \subseteq together
  \/ ops <= 2 /\ called \subseteq {"unsubscribe", "add"}

Loose(u, c) == <<u, c>> \in subs /\ <<u, c>> \notin kept

\* What a caller is still to add to the group, to look at again, or to leave.
Adding(k, u, c)    == pc[k] = "upCommit" /\ u \in job[k].users /\ c \in job[k].target
Comparing(k, u, c) == pc[k] \in {"upCheck", "upClean"} /\ u \in job[k].users /\ c \in job[k].target
Checking(k, u, c)  == pc[k] \in {"subCheck", "subClean"} /\ u = job[k].u /\ c \in job[k].done
Finishing(k, u, c) ==
  /\ u = job[k].u
  /\ \/ pc[k] = "unFinal" /\ c \in chans[G] \ job[k].chans
     \/ pc[k] \in {"unShared", "unLeave"} /\ job[k].final /\ c \in job[k].target

ChannelPend(k, u, c) == Adding(k, u, c) \/ (Checking(k, u, c) /\ G \notin exists)

MemberPend(k, u, c) ==
  \/ Adding(k, u, c) \/ Comparing(k, u, c) \/ Checking(k, u, c) \/ Finishing(k, u, c)
  \/ pc[k] \in {"delDeactivate", "delRow"}

ChannelDue(u, c) == c \in chans[G] \/ \E k \in Callers : ChannelPend(k, u, c)
MemberDue(u, c)  == u \in members[G] \/ \E k \in Callers : MemberPend(k, u, c)

\* An unsubscribe has left the channels it read.
LeftAt(k) ==
  pc[k] \in {"unLock", "unDelete"} /\ ~job[k].keep =>
    \A c \in job[k].chans : ~Loose(job[k].u, c)

LooseInv ==
  Tidy => /\ \A u \in Users, c \in Channels : Loose(u, c) => ChannelDue(u, c) /\ MemberDue(u, c)
          /\ \A k \in Callers : LeftAt(k)

---------------------------------------------------------------------------
(* What the steps do, for the one group.                                    *)

LEMMA TheGroup ==
  ASSUME NEW k \in Callers, TypeOK, OneGroup
  PROVE  /\ G \in Groups /\ job[k].g = G /\ job[k] \in Job /\ TypeCallers
         /\ chans[G] \in SUBSET Channels /\ members[G] \in SUBSET Users
         /\ job[k].u \in Users /\ \A g \in Groups : g = G
<1>1. Groups # {}
  BY SetsAssumption
<1>2. G \in Groups
  BY <1>1 DEF G
<1> QED
  BY <1>2, JobType DEF OneGroup, TypeOK, TypeDatabase, TypeZulip

\* The steps of a subscribe that come back to the reading of the channels.
LEMMA SubLockDoes ==
  ASSUME NEW k \in Callers, TypeOK, OneGroup, SubLock(k)
  PROVE  /\ MovesAlone(k) /\ pc[k] = "subLock"
         /\ UNCHANGED <<exists, chans, active, members, subs, kept, gen, ops, called, faults>>
         /\ pc'[k] = "idle" \/ (pc'[k] = "subAdd" /\ job'[k] = job[k] /\ G \in exists)
<1>1. CASE job[k].g \in exists
  BY <1>1, TheGroup, ContinueTo DEF SubLock, database, zulip
<1>2. CASE job[k].g \notin exists
  BY <1>2, TheGroup, ReturnTo DEF SubLock, database, zulip
<1> QED BY <1>1, <1>2

LEMMA SubAddDoes ==
  ASSUME NEW k \in Callers, TypeOK, OneGroup, SubAdd(k)
  PROVE  /\ MovesAlone(k) /\ pc[k] = "subAdd" /\ pc'[k] = "subBump" /\ job'[k] = job[k]
         /\ UNCHANGED <<exists, chans, active, subs, kept, gen, ops, called, faults>>
         /\ \A u : u \in members'[G] <=> u \in members[G] \/ u = job[k].u
<1>1. MovesAlone(k) /\ pc'[k] = "subBump" /\ job' = job
  BY TheGroup DEF SubAdd, Goto, MovesAlone, TypeCallers
<1>2. members' = [members EXCEPT ![G] = members[G] \cup {job[k].u}]
  BY TheGroup DEF SubAdd, AddMembers
<1> QED
  BY <1>1, <1>2, TheGroup DEF SubAdd, database, TypeOK, TypeZulip

LEMMA SubBumpDoes ==
  ASSUME NEW k \in Callers, TypeOK, OneGroup, SubBump(k)
  PROVE  /\ MovesAlone(k) /\ pc[k] = "subBump" /\ pc'[k] = "subRead" /\ job'[k] = job[k]
         /\ UNCHANGED <<exists, chans, active, members, subs, kept, ops, called, faults>>
  BY TheGroup, ContinueTo DEF SubBump, database, zulip

LEMMA SubReadDoes ==
  ASSUME NEW k \in Callers, TypeOK, OneGroup, SubRead(k)
  PROVE  /\ MovesAlone(k) /\ pc[k] = "subRead"
         /\ UNCHANGED <<exists, chans, active, members, subs, kept, gen, ops, called, faults>>
         /\ \/ pc'[k] = "undoMember" /\ G \notin exists
            \/ pc'[k] = "idle" /\ chans[G] \subseteq job[k].done
            \/ /\ pc'[k] = "subEnter" /\ job'[k].target \subseteq chans[G]
               /\ job'[k].u = job[k].u /\ job'[k].done = job[k].done
<1>1. CASE job[k].g \notin exists
  BY <1>1, TheGroup, ContinueTo DEF SubRead, database, zulip
<1>2. CASE job[k].g \in exists /\ chans[job[k].g] \ job[k].done = {}
  BY <1>2, TheGroup, ReturnTo DEF SubRead, database, zulip
<1>3. CASE job[k].g \in exists /\ chans[job[k].g] \ job[k].done # {}
  <2> DEFINE j == [job[k] EXCEPT !.target = chans[job[k].g] \ job[k].done]
  <2>1. j.target \subseteq chans[G] /\ j.u = job[k].u /\ j.done = job[k].done
    BY TheGroup DEF Job
  <2>2. Continue(k, "subEnter", j)
    BY <1>3 DEF SubRead
  <2> HIDE DEF j
  <2> QED
    BY <2>1, <2>2, TheGroup, ContinueTo DEF SubRead, database, zulip
<1> QED BY <1>1, <1>2, <1>3

LEMMA SubEnterDoes ==
  ASSUME NEW k \in Callers, TypeOK, OneGroup, SubEnter(k)
  PROVE  /\ MovesAlone(k) /\ pc[k] = "subEnter" /\ pc'[k] = "subCheck"
         /\ UNCHANGED <<exists, chans, active, members, kept, gen, ops, called, faults>>
         /\ job'[k].u = job[k].u /\ job'[k].done = job[k].done \cup job[k].target
         /\ \A u, c : <<u, c>> \in subs' <=>
              <<u, c>> \in subs \/ (u = job[k].u /\ c \in job[k].target)
<1> DEFINE j == [job[k] EXCEPT !.done = job[k].done \cup job[k].target, !.target = {}]
<1>1. j.u = job[k].u /\ j.done = job[k].done \cup job[k].target
  BY TheGroup DEF Job
<1>2. Continue(k, "subCheck", j) /\ Enter({job[k].u}, job[k].target)
  BY DEF SubEnter
<1> HIDE DEF j
<1>3. MovesAlone(k) /\ pc'[k] = "subCheck" /\ job'[k] = j
  BY <1>2, TheGroup, ContinueTo
<1> QED
  BY <1>1, <1>2, <1>3, EnterPairs DEF SubEnter, database

LEMMA SubCheckDoes ==
  ASSUME NEW k \in Callers, TypeOK, OneGroup, SubCheck(k)
  PROVE  /\ MovesAlone(k) /\ pc[k] = "subCheck" /\ job'[k] = job[k]
         /\ UNCHANGED <<exists, chans, active, members, subs, kept, gen, ops, called, faults>>
         /\ \/ pc'[k] = "subRead" /\ job[k].u \in members[G]
            \/ pc'[k] = "subClean" /\ job[k].u \notin members[G]
<1>1. CASE job[k].u \in members[job[k].g]
  BY <1>1, TheGroup, ContinueTo DEF SubCheck, database, zulip
<1>2. CASE job[k].u \notin members[job[k].g]
  BY <1>2, TheGroup, ContinueTo DEF SubCheck, database, zulip
<1> QED BY <1>1, <1>2

\* Leaving the channels, on the way out of a subscribe.
LEMMA SubLeavesDoes ==
  ASSUME NEW k \in Callers, TypeOK, OneGroup, SubClean(k) \/ UndoChannels(k)
  PROVE  /\ MovesAlone(k) /\ pc[k] \in {"subClean", "undoChannels"} /\ pc'[k] = "idle"
         /\ UNCHANGED <<exists, chans, active, members, gen, ops, called, faults>>
         /\ \A u, c : <<u, c>> \in subs' <=>
              <<u, c>> \in subs /\ ~(u = job[k].u /\ c \in job[k].done)
         /\ \A u, c : <<u, c>> \in kept' <=>
              <<u, c>> \in kept /\ ~(u = job[k].u /\ c \in job[k].done)
<1>1. Return(k) /\ Leave({job[k].u}, job[k].done)
  BY DEF SubClean, UndoChannels
<1>2. MovesAlone(k) /\ pc'[k] = "idle"
  BY <1>1, TheGroup, ReturnTo
<1>3. /\ pc[k] \in {"subClean", "undoChannels"}
      /\ UNCHANGED <<exists, chans, active, members, gen, ops, called, faults>>
  BY DEF SubClean, UndoChannels, database
<1> QED
  BY <1>1, <1>2, <1>3, LeavePairs

LEMMA UndoMemberDoes ==
  ASSUME NEW k \in Callers, TypeOK, OneGroup, UndoMember(k)
  PROVE  /\ MovesAlone(k) /\ pc[k] = "undoMember" /\ pc'[k] = "undoChannels" /\ job'[k] = job[k]
         /\ UNCHANGED <<exists, chans, active, subs, kept, gen, ops, called, faults>>
         /\ \A u : u \in members'[G] <=> u \in members[G] /\ u # job[k].u
<1>1. MovesAlone(k) /\ pc'[k] = "undoChannels" /\ job'[k] = job[k]
  BY TheGroup, ContinueTo DEF UndoMember
<1>2. members' = [members EXCEPT ![G] = members[G] \ {job[k].u}]
  BY TheGroup DEF UndoMember, DropMembers
<1> QED
  BY <1>1, <1>2, TheGroup DEF UndoMember, database, TypeOK, TypeZulip

LEMMA UnStartDoes ==
  ASSUME NEW k \in Callers, TypeOK, OneGroup, UnStart(k)
  PROVE  /\ MovesAlone(k) /\ pc[k] = "unStart"
         /\ UNCHANGED <<exists, chans, active, members, subs, kept, gen, ops, called, faults>>
         /\ job'[k].u = job[k].u /\ job'[k].keep = job[k].keep /\ job'[k].chans = job[k].chans
         /\ job'[k].final = job[k].final /\ job'[k].target = job[k].chans
         /\ job'[k].start = gen[G][job[k].u]
         /\ \/ pc'[k] = "unLock" /\ (job[k].keep \/ job[k].chans = {})
            \/ pc'[k] = "unShared" /\ ~job[k].keep
<1> DEFINE j == [job[k] EXCEPT !.start = gen[job[k].g][job[k].u], !.target = job[k].chans]
<1>1. /\ j.u = job[k].u /\ j.keep = job[k].keep /\ j.chans = job[k].chans
      /\ j.final = job[k].final /\ j.target = job[k].chans /\ j.start = gen[G][job[k].u]
  BY TheGroup DEF Job
<1>2. Continue(k, IF j.keep \/ j.chans = {} THEN "unLock" ELSE "unShared", j)
  BY DEF UnStart
<1> HIDE DEF j
<1>3. MovesAlone(k) /\ job'[k] = j /\ pc'[k] = IF j.keep \/ j.chans = {} THEN "unLock" ELSE "unShared"
  BY <1>2, TheGroup, ContinueTo
<1> QED
  BY <1>1, <1>3 DEF UnStart, database, zulip

\* No other group shares a channel.
LEMMA UnSharedDoes ==
  ASSUME NEW k \in Callers, TypeOK, OneGroup, UnShared(k)
  PROVE  /\ MovesAlone(k) /\ pc[k] = "unShared" /\ pc'[k] = "unLeave"
         /\ UNCHANGED <<exists, chans, active, members, subs, kept, gen, ops, called, faults>>
         /\ job'[k].u = job[k].u /\ job'[k].keep = job[k].keep /\ job'[k].chans = job[k].chans
         /\ job'[k].final = job[k].final /\ job'[k].target = job[k].target
         /\ job'[k].start = job[k].start /\ job'[k].covered = {}
<1> DEFINE shared == {p \in (Groups \ {job[k].g}) \X job[k].target :
                        p[2] \in chans[p[1]] \cap chans[job[k].g]}
           j == [job[k] EXCEPT !.pending = shared, !.covered = {}]
<1>1. /\ j.u = job[k].u /\ j.keep = job[k].keep /\ j.chans = job[k].chans
      /\ j.final = job[k].final /\ j.target = job[k].target /\ j.start = job[k].start
      /\ j.covered = {}
  BY TheGroup DEF Job
<1>2. Continue(k, IF shared = {} THEN "unLeave" ELSE "unCover", j)
  BY DEF UnShared
<1>3. shared = {}
  BY TheGroup
<1> HIDE DEF j, shared
<1>4. MovesAlone(k) /\ job'[k] = j /\ pc'[k] = "unLeave"
  BY <1>2, <1>3, TheGroup, ContinueTo
<1> QED
  BY <1>1, <1>4 DEF UnShared, database, zulip

LEMMA UnLeaveDoes ==
  ASSUME NEW k \in Callers, TypeOK, OneGroup, UnLeave(k), job[k].covered = {}
  PROVE  /\ MovesAlone(k) /\ pc[k] = "unLeave"
         /\ UNCHANGED <<exists, chans, active, members, gen, ops, called, faults>>
         /\ \A u, c : <<u, c>> \in subs' <=>
              <<u, c>> \in subs /\ ~(u = job[k].u /\ c \in job[k].target)
         /\ \A u, c : <<u, c>> \in kept' <=>
              <<u, c>> \in kept /\ ~(u = job[k].u /\ c \in job[k].target)
         /\ \/ pc'[k] = "idle" /\ job[k].final
            \/ /\ pc'[k] = "unLock" /\ ~job[k].final
               /\ job'[k].u = job[k].u /\ job'[k].keep = job[k].keep
               /\ job'[k].chans = job[k].chans /\ job'[k].start = job[k].start
<1>1. Leave({job[k].u}, job[k].target \ job[k].covered)
  BY DEF UnLeave
<1>2. /\ \A u, c : <<u, c>> \in subs' <=>
           <<u, c>> \in subs /\ ~(u = job[k].u /\ c \in job[k].target)
      /\ \A u, c : <<u, c>> \in kept' <=>
           <<u, c>> \in kept /\ ~(u = job[k].u /\ c \in job[k].target)
  BY <1>1, LeavePairs
<1>3. CASE job[k].final
  <2>1. MovesAlone(k) /\ pc'[k] = "idle"
    BY <1>3, TheGroup, ReturnTo DEF UnLeave
  <2> QED
    BY <1>2, <1>3, <2>1 DEF UnLeave, database
<1>4. CASE ~job[k].final
  <2> DEFINE j == [job[k] EXCEPT !.target = {}, !.covered = {}]
  <2>1. j.u = job[k].u /\ j.keep = job[k].keep /\ j.chans = job[k].chans /\ j.start = job[k].start
    BY TheGroup DEF Job
  <2>2. Continue(k, "unLock", j)
    BY <1>4 DEF UnLeave
  <2> HIDE DEF j
  <2>3. MovesAlone(k) /\ pc'[k] = "unLock" /\ job'[k] = j
    BY <2>2, TheGroup, ContinueTo
  <2> QED
    BY <1>2, <1>4, <2>1, <2>3 DEF UnLeave, database
<1> QED BY <1>3, <1>4

LEMMA UnLockDoes ==
  ASSUME NEW k \in Callers, TypeOK, OneGroup, UnLock(k)
  PROVE  /\ MovesAlone(k) /\ pc[k] = "unLock"
         /\ UNCHANGED <<exists, chans, active, members, subs, kept, gen, ops, called, faults>>
         /\ \/ pc'[k] = "unDelete" /\ job'[k] = job[k]
            \/ /\ gen[G][job[k].u] # job[k].start
               /\ \/ pc'[k] = "idle" /\ (job[k].keep \/ job[k].chans = {})
                  \/ pc'[k] = "unResub" /\ job'[k] = job[k] /\ ~job[k].keep
<1>1. CASE gen[job[k].g][job[k].u] = job[k].start
  BY <1>1, TheGroup, ContinueTo DEF UnLock, database, zulip
<1>2. CASE gen[job[k].g][job[k].u] # job[k].start /\ (job[k].keep \/ job[k].chans = {})
  BY <1>2, TheGroup, ReturnTo DEF UnLock, database, zulip
<1>3. CASE gen[job[k].g][job[k].u] # job[k].start /\ ~(job[k].keep \/ job[k].chans = {})
  BY <1>3, TheGroup, ContinueTo DEF UnLock, database, zulip
<1> QED BY <1>1, <1>2, <1>3

LEMMA UnDeleteDoes ==
  ASSUME NEW k \in Callers, TypeOK, OneGroup, UnDelete(k)
  PROVE  /\ MovesAlone(k) /\ pc[k] = "unDelete"
         /\ UNCHANGED <<exists, chans, active, subs, gen, ops, called, faults>>
         /\ \A u : u \in members'[G] <=> u \in members[G] /\ u # job[k].u
         /\ \A u, c : <<u, c>> \in kept' <=>
              \/ <<u, c>> \in kept
              \/ job[k].keep /\ <<u, c>> \in subs /\ u = job[k].u /\ c \in chans[G]
         /\ \/ pc'[k] = "idle" /\ (job[k].u \notin members[G] \/ job[k].keep)
            \/ pc'[k] = "unFinal" /\ job'[k] = job[k] /\ ~job[k].keep
<1>1. members' = [members EXCEPT ![G] = members[G] \ {job[k].u}]
  BY TheGroup DEF UnDelete, DropMembers
<1>2. \A u : u \in members'[G] <=> u \in members[G] /\ u # job[k].u
  BY <1>1, TheGroup DEF TypeOK, TypeZulip
<1>3. \A u, c : <<u, c>> \in kept' <=>
        \/ <<u, c>> \in kept
        \/ job[k].keep /\ <<u, c>> \in subs /\ u = job[k].u /\ c \in chans[G]
  BY TheGroup DEF UnDelete
<1>4. CASE job[k].u \notin members[job[k].g] \/ job[k].keep
  <2>1. MovesAlone(k) /\ pc'[k] = "idle"
    BY <1>4, TheGroup, ReturnTo DEF UnDelete
  <2> QED
    BY <1>2, <1>3, <1>4, <2>1, TheGroup DEF UnDelete, database
<1>5. CASE ~(job[k].u \notin members[job[k].g] \/ job[k].keep)
  <2>1. MovesAlone(k) /\ pc'[k] = "unFinal" /\ job'[k] = job[k]
    BY <1>5, TheGroup, ContinueTo DEF UnDelete
  <2> QED
    BY <1>2, <1>3, <1>5, <2>1, TheGroup DEF UnDelete, database
<1> QED BY <1>4, <1>5

LEMMA UnResubDoes ==
  ASSUME NEW k \in Callers, TypeOK, OneGroup, UnResub(k)
  PROVE  /\ MovesAlone(k) /\ pc[k] \in {"unResub", "unRestore"} /\ pc'[k] = "idle"
         /\ UNCHANGED <<exists, chans, active, members, kept, gen, ops, called, faults>>
         /\ \A u, c : <<u, c>> \in subs' <=>
              <<u, c>> \in subs \/ (u = job[k].u /\ c \in job[k].chans)
<1>1. Enter({job[k].u}, job[k].chans) /\ Return(k)
  BY DEF UnResub
<1>2. MovesAlone(k) /\ pc'[k] = "idle"
  BY <1>1, TheGroup, ReturnTo
<1> QED
  BY <1>1, <1>2, EnterPairs DEF UnResub, database

LEMMA UnFinalDoes ==
  ASSUME NEW k \in Callers, TypeOK, OneGroup, UnFinal(k)
  PROVE  /\ MovesAlone(k) /\ pc[k] = "unFinal"
         /\ UNCHANGED <<exists, chans, active, members, subs, kept, gen, ops, called, faults>>
         /\ \/ pc'[k] = "idle" /\ (G \notin exists \/ chans[G] \subseteq job[k].chans)
            \/ /\ pc'[k] = "unShared" /\ ~(chans[G] \subseteq job[k].chans)
               /\ job'[k].u = job[k].u /\ job'[k].keep = job[k].keep
               /\ job'[k].chans = job[k].chans /\ job'[k].start = job[k].start
               /\ job'[k].final /\ job'[k].target = chans[G] \ job[k].chans
<1>1. CASE job[k].g \notin exists \/ chans[job[k].g] \ job[k].chans = {}
  BY <1>1, TheGroup, ReturnTo DEF UnFinal, database, zulip
<1>2. CASE ~(job[k].g \notin exists \/ chans[job[k].g] \ job[k].chans = {})
  <2> DEFINE j == [job[k] EXCEPT !.target = chans[job[k].g] \ job[k].chans, !.final = TRUE]
  <2>1. /\ j.u = job[k].u /\ j.keep = job[k].keep /\ j.chans = job[k].chans /\ j.start = job[k].start
        /\ j.final = TRUE /\ j.target = chans[G] \ job[k].chans
    BY TheGroup DEF Job
  <2>2. Continue(k, "unShared", j)
    BY <1>2 DEF UnFinal
  <2> HIDE DEF j
  <2>3. MovesAlone(k) /\ pc'[k] = "unShared" /\ job'[k] = j
    BY <2>2, TheGroup, ContinueTo
  <2>4. ~(chans[G] \subseteq job[k].chans)
    BY <1>2, TheGroup
  <2> QED
    BY <2>1, <2>3, <2>4 DEF UnFinal, database, zulip
<1> QED BY <1>1, <1>2

LEMMA UpMembersDoes ==
  ASSUME NEW k \in Callers, TypeOK, OneGroup, UpMembers(k)
  PROVE  /\ MovesAlone(k) /\ pc[k] = "upMembers"
         /\ UNCHANGED <<exists, chans, active, members, subs, kept, gen, ops, called, faults>>
         /\ job'[k].chans = job[k].chans /\ job'[k].target = job[k].target
         /\ job'[k].remove = job[k].remove /\ job'[k].users = members[G]
         /\ \/ pc'[k] = "upCommit" /\ (job[k].target = {} \/ members[G] = {})
            \/ pc'[k] = "upEnter" /\ job[k].target # {}
<1> DEFINE j == [job[k] EXCEPT !.users = members[job[k].g]]
           out == job[k].target = {} \/ members[job[k].g] = {}
<1>1. /\ j.chans = job[k].chans /\ j.target = job[k].target
      /\ j.remove = job[k].remove /\ j.users = members[G]
  BY TheGroup DEF Job
<1>2. Continue(k, IF out THEN "upCommit" ELSE "upEnter", j)
  BY DEF UpMembers
<1>3. out <=> job[k].target = {} \/ members[G] = {}
  BY TheGroup
<1> HIDE DEF j, out
<1>4. MovesAlone(k) /\ job'[k] = j /\ pc'[k] = IF out THEN "upCommit" ELSE "upEnter"
  BY <1>2, TheGroup, ContinueTo
<1> QED
  BY <1>1, <1>3, <1>4 DEF UpMembers, database, zulip

LEMMA UpEnterDoes ==
  ASSUME NEW k \in Callers, TypeOK, OneGroup, UpEnter(k)
  PROVE  /\ MovesAlone(k) /\ pc[k] = "upEnter" /\ pc'[k] = "upCommit" /\ job'[k] = job[k]
         /\ UNCHANGED <<exists, chans, active, members, kept, gen, ops, called, faults>>
         /\ \A u, c : <<u, c>> \in subs' <=>
              <<u, c>> \in subs \/ (u \in job[k].users /\ c \in job[k].target)
<1>1. Enter(job[k].users, job[k].target) /\ Continue(k, "upCommit", job[k])
  BY DEF UpEnter
<1>2. MovesAlone(k) /\ pc'[k] = "upCommit" /\ job'[k] = job[k]
  BY <1>1, TheGroup, ContinueTo
<1> QED
  BY <1>1, <1>2, EnterPairs DEF UpEnter, database

LEMMA UpCommitDoes ==
  ASSUME NEW k \in Callers, TypeOK, OneGroup, UpCommit(k)
  PROVE  /\ MovesAlone(k) /\ pc[k] = "upCommit"
         /\ UNCHANGED <<exists, active, members, subs, gen, ops, called, faults>>
         /\ \/ G \notin exists /\ pc'[k] = "idle" /\ UNCHANGED <<chans, kept>>
            \/ /\ G \in exists
               /\ chans'[G] = (chans[G] \ job[k].remove) \cup job[k].chans
               /\ \A u, c : <<u, c>> \in kept' <=>
                    \/ <<u, c>> \in kept
                    \/ <<u, c>> \in subs /\ c \in chans[G] \cap job[k].remove /\ c \notin job[k].chans
               /\ \/ pc'[k] = "idle" /\ (job[k].target = {} \/ job[k].users = {})
                  \/ pc'[k] = "upCheck" /\ job'[k] = job[k] /\ job[k].target # {}
<1>0. /\ pc[k] = "upCommit"
      /\ UNCHANGED <<exists, active, members, subs, gen, ops, called, faults>>
  BY DEF UpCommit, zulip
<1>1. CASE job[k].g \notin exists
  BY <1>0, <1>1, TheGroup, ReturnTo DEF UpCommit
<1>2. CASE job[k].g \in exists
  <2>1. /\ chans' = [chans EXCEPT ![G] = (chans[G] \ job[k].remove) \cup job[k].chans]
        /\ kept' = kept \cup {s \in subs : s[2] \in (chans[G] \cap job[k].remove) \ job[k].chans}
    BY <1>2, TheGroup DEF UpCommit
  <2>2. chans'[G] = (chans[G] \ job[k].remove) \cup job[k].chans
    BY <2>1, TheGroup DEF TypeOK, TypeDatabase
  <2>3. \A u, c : <<u, c>> \in kept' <=>
          \/ <<u, c>> \in kept
          \/ <<u, c>> \in subs /\ c \in chans[G] \cap job[k].remove /\ c \notin job[k].chans
    BY <2>1
  <2>4. CASE job[k].target = {} \/ job[k].users = {}
    <3>1. MovesAlone(k) /\ pc'[k] = "idle"
      BY <1>2, <2>4, TheGroup, ReturnTo DEF UpCommit
    <3> QED
      BY <1>0, <1>2, <2>2, <2>3, <2>4, <3>1, TheGroup
  <2>5. CASE ~(job[k].target = {} \/ job[k].users = {})
    <3>1. MovesAlone(k) /\ pc'[k] = "upCheck" /\ job'[k] = job[k]
      BY <1>2, <2>5, TheGroup, ContinueTo DEF UpCommit
    <3> QED
      BY <1>0, <1>2, <2>2, <2>3, <2>5, <3>1, TheGroup
  <2> QED BY <2>4, <2>5
<1> QED BY <1>1, <1>2

LEMMA UpCheckDoes ==
  ASSUME NEW k \in Callers, TypeOK, OneGroup, UpCheck(k)
  PROVE  /\ MovesAlone(k) /\ pc[k] = "upCheck"
         /\ UNCHANGED <<exists, chans, active, members, subs, kept, gen, ops, called, faults>>
         /\ \/ pc'[k] = "idle" /\ job[k].users \subseteq members[G]
            \/ /\ pc'[k] = "upClean" /\ job'[k].users = job[k].users \ members[G]
               /\ job'[k].chans = job[k].chans /\ job'[k].target = job[k].target
<1>1. CASE job[k].users \ members[job[k].g] = {}
  BY <1>1, TheGroup, ReturnTo DEF UpCheck, database, zulip
<1>2. CASE job[k].users \ members[job[k].g] # {}
  <2> DEFINE j == [job[k] EXCEPT !.users = job[k].users \ members[job[k].g]]
  <2>1. /\ j.users = job[k].users \ members[G]
        /\ j.chans = job[k].chans /\ j.target = job[k].target
    BY TheGroup DEF Job
  <2>2. Continue(k, "upClean", j)
    BY <1>2 DEF UpCheck
  <2> HIDE DEF j
  <2> QED
    BY <2>1, <2>2, TheGroup, ContinueTo DEF UpCheck, database, zulip
<1> QED BY <1>1, <1>2

LEMMA UpCleanDoes ==
  ASSUME NEW k \in Callers, TypeOK, OneGroup, UpClean(k)
  PROVE  /\ MovesAlone(k) /\ pc[k] = "upClean" /\ pc'[k] = "idle"
         /\ UNCHANGED <<exists, chans, active, members, gen, ops, called, faults>>
         /\ \A u, c : <<u, c>> \in subs' <=>
              <<u, c>> \in subs /\ ~(u \in job[k].users /\ c \in job[k].target)
         /\ \A u, c : <<u, c>> \in kept' <=>
              <<u, c>> \in kept /\ ~(u \in job[k].users /\ c \in job[k].target)
<1>1. Leave(job[k].users, job[k].target) /\ Return(k)
  BY DEF UpClean
<1>2. MovesAlone(k) /\ pc'[k] = "idle"
  BY <1>1, TheGroup, ReturnTo
<1> QED
  BY <1>1, <1>2, LeavePairs DEF UpClean, database

\* The steps of a deletion, up to the row.
LEMMA DeletingDoes ==
  ASSUME NEW k \in Callers, IInv, OneGroup,
         DelLock(k) \/ DelList(k) \/ DelEmpty(k) \/ DelDeactivate(k)
  PROVE  /\ MovesAlone(k) /\ UNCHANGED <<exists, chans, subs, kept, gen, ops, called, faults>>
         /\ \/ /\ pc[k] \in {"delLock", "delList"} /\ UNCHANGED <<active, members>>
               /\ pc'[k] \in {"delList", "delEmpty", "delDeactivate"}
            \/ /\ pc[k] = "delEmpty" /\ UNCHANGED active
               /\ \/ pc'[k] = "delDeactivate" /\ \A u : u \in members'[G] => u \in members[G]
                  \/ pc'[k] = "idle" /\ UNCHANGED members
            \/ pc[k] = "delDeactivate" /\ pc'[k] = "delRow" /\ UNCHANGED members
<1>0. TypeOK
  BY DEF IInv
<1>1. CASE DelLock(k)
  BY <1>0, <1>1, TheGroup, ContinueTo DEF DelLock, database, zulip
<1>2. CASE DelList(k)
  <2> DEFINE j == [job[k] EXCEPT !.users = members[job[k].g]]
  <2>1. Continue(k, "delDeactivate", j) \/ Continue(k, "delEmpty", j)
    BY <1>2 DEF DelList
  <2> HIDE DEF j
  <2>2. MovesAlone(k) /\ pc'[k] \in {"delDeactivate", "delEmpty"}
    BY <1>0, <2>1, TheGroup, ContinueTo
  <2> QED
    BY <1>2, <2>2 DEF DelList, database, zulip
<1>3. CASE DelEmpty(k)
  <2>1. CASE job[k].users \subseteq members[job[k].g]
    <3>1. members' = [members EXCEPT ![G] = members[G] \ job[k].users]
      BY <1>0, <1>3, <2>1, TheGroup DEF DelEmpty, DropMembers
    <3>2. \A u : u \in members'[G] => u \in members[G]
      BY <1>0, <3>1, TheGroup DEF TypeOK, TypeZulip
    <3>3. MovesAlone(k) /\ pc'[k] = "delDeactivate"
      BY <1>0, <1>3, <2>1, TheGroup, ContinueTo DEF DelEmpty
    <3> QED
      BY <1>3, <3>2, <3>3 DEF DelEmpty, database
  <2>2. CASE ~(job[k].users \subseteq members[job[k].g])
    <3>1. MovesAlone(k) /\ pc'[k] = "idle"
      BY <1>0, <1>3, <2>2, TheGroup, ReturnTo DEF DelEmpty
    <3> QED
      BY <1>3, <2>2, <3>1 DEF DelEmpty, database
  <2> QED BY <2>1, <2>2
<1>4. CASE DelDeactivate(k)
  BY <1>0, <1>4, TheGroup, ContinueTo DEF DelDeactivate, database
<1> QED BY <1>1, <1>2, <1>3, <1>4

LEMMA DelRowDoes ==
  ASSUME NEW k \in Callers, TypeOK, OneGroup, DelRow(k)
  PROVE  /\ MovesAlone(k) /\ pc[k] = "delRow" /\ pc'[k] = "idle"
         /\ UNCHANGED <<active, members, subs, gen, ops, called, faults>>
         /\ G \notin exists' /\ chans'[G] = {} /\ exists' \subseteq exists
         /\ \A u, c : <<u, c>> \in kept' <=>
              <<u, c>> \in kept \/ (<<u, c>> \in subs /\ c \in chans[G])
<1>1. MovesAlone(k) /\ pc'[k] = "idle"
  BY TheGroup, ReturnTo DEF DelRow
<1>2. exists' = exists \ {G} /\ chans' = [chans EXCEPT ![G] = {}]
  BY TheGroup DEF DelRow
<1>3. chans'[G] = {}
  BY <1>2, TheGroup DEF TypeOK, TypeDatabase
<1>4. kept' = kept \cup {s \in subs : s[2] \in chans[G]}
  BY TheGroup DEF DelRow
<1>5. \A u, c : <<u, c>> \in kept' <=>
        <<u, c>> \in kept \/ (<<u, c>> \in subs /\ c \in chans[G])
  BY <1>4
<1> QED
  BY <1>1, <1>2, <1>3, <1>5 DEF DelRow, zulip

\* A call begins at one of these places, with the group as it is.
BeginsAt(k) ==
  \/ pc'[k] = "subLock" /\ job'[k].done = {}
  \/ pc'[k] = "unStart" /\ job'[k].chans = chans[G]
  \/ pc'[k] = "delLock"
  \/ /\ pc'[k] \in {"upMembers", "upCommit"} /\ job'[k].users = {}
     /\ job'[k].target = job'[k].chans \ chans[G]
     /\ job'[k].chans = {} \/ job'[k].remove = {}
     /\ pc'[k] = "upCommit" => job'[k].target = {}

LEMMA CallDoes ==
  ASSUME NEW k \in Callers, TypeOK, OneGroup, Call(k)
  PROVE  /\ MovesAlone(k) /\ pc[k] = "idle" /\ pc'[k] # "idle" /\ BeginsAt(k)
         /\ UNCHANGED <<exists, chans, active, members, subs, kept, gen, faults>>
         /\ ops' = ops + 1 /\ ops \in Nat /\ called' = called \cup {OperationOf(k)'}
<1> DEFINE goal == /\ MovesAlone(k) /\ pc'[k] # "idle" /\ BeginsAt(k)
                   /\ called' = called \cup {OperationOf(k)'}
<1>0. NoJob.chans = {} /\ NoJob.users = {}
  BY DEF NoJob
<1>1. ASSUME NEW g \in Groups, NEW u \in Users, Subscribe(k, g, u) PROVE goal
  <2> DEFINE j == [NoJob EXCEPT !.g = g, !.u = u]
  <2>1. j.done = {}
    BY DEF NoJob
  <2>2. Continue(k, "subLock", j)
    BY <1>1 DEF Subscribe
  <2> HIDE DEF j
  <2>3. pc'[k] = "subLock" /\ MovesAlone(k) /\ job'[k] = j
    BY <2>2, TheGroup, ContinueTo
  <2>4. OperationOf(k)' = "subscribe"
    BY <2>3 DEF OperationOf, Subscribing, Updating, Deleting
  <2> QED
    BY <1>1, <2>1, <2>3, <2>4 DEF Subscribe, Begin, BeginsAt
<1>2. ASSUME NEW g \in Groups, NEW u \in Users, NEW keep \in BOOLEAN, Unsubscribe(k, g, u, keep)
      PROVE  goal
  <2> DEFINE j == [NoJob EXCEPT !.g = g, !.u = u, !.keep = keep, !.chans = chans[g]]
  <2>1. j.chans = chans[G] /\ j.keep = keep
    BY TheGroup DEF NoJob
  <2>2. Continue(k, "unStart", j)
    BY <1>2 DEF Unsubscribe
  <2> HIDE DEF j
  <2>3. pc'[k] = "unStart" /\ MovesAlone(k) /\ job'[k] = j
    BY <2>2, TheGroup, ContinueTo
  <2>4. OperationOf(k)' = IF keep THEN "keep" ELSE "unsubscribe"
    BY <2>1, <2>3 DEF OperationOf, Subscribing, Updating, Deleting
  <2>5. called' = called \cup {IF keep THEN "keep" ELSE "unsubscribe"}
    BY <1>2 DEF Unsubscribe, Begin
  <2> QED
    BY <2>1, <2>3, <2>4, <2>5 DEF BeginsAt
<1>3. ASSUME NEW g \in Groups, Delete(k, g) PROVE goal
  <2>1. pc'[k] = "delLock" /\ MovesAlone(k)
    BY <1>3, TheGroup, ContinueTo DEF Delete
  <2>2. OperationOf(k)' = "delete"
    BY <2>1 DEF OperationOf, Subscribing, Updating, Deleting
  <2> QED
    BY <1>3, <2>1, <2>2 DEF Delete, Begin, BeginsAt
<1>4. ASSUME NEW g \in Groups, NEW add \in SUBSET Channels, NEW remove \in SUBSET Channels,
             add = {} \/ remove = {}, Update(k, g, add, remove)
      PROVE  goal
  <2> DEFINE j == [NoJob EXCEPT !.g = g, !.chans = add, !.remove = remove,
                                !.target = add \ chans[g]]
             none == add \ chans[g] = {} /\ remove \cap chans[g] = {}
  <2>1. j.chans = add /\ j.remove = remove /\ j.target = add \ chans[G] /\ j.users = {}
    BY TheGroup DEF NoJob
  <2>2. Continue(k, IF none THEN "upCommit" ELSE "upMembers", j)
    BY <1>4 DEF Update
  <2>3. none => j.target = {}
    BY <2>1, TheGroup
  <2> HIDE DEF j, none
  <2>4. /\ MovesAlone(k) /\ job'[k] = j
        /\ pc'[k] = IF none THEN "upCommit" ELSE "upMembers"
    BY <2>2, TheGroup, ContinueTo
  <2>5. OperationOf(k)' = IF add # {} THEN "add" ELSE "remove"
    BY <2>1, <2>4 DEF OperationOf, Subscribing, Updating, Deleting
  <2>6. called' = called \cup {IF add # {} THEN "add" ELSE "remove"}
    BY <1>4 DEF Update, Begin
  <2> QED
    BY <1>4, <2>1, <2>3, <2>4, <2>5, <2>6 DEF BeginsAt
<1>5. ASSUME NEW g \in Groups, NEW c \in Channels, Update(k, g, {c}, {}) \/ Update(k, g, {}, {c})
      PROVE  goal
  <2>1. {c} \in SUBSET Channels /\ {} \in SUBSET Channels
    OBVIOUS
  <2> QED
    BY <1>4, <1>5, <2>1
<1>6. goal
  BY <1>1, <1>2, <1>3, <1>5 DEF Call
<1>7. /\ pc[k] = "idle" /\ ops' = ops + 1
      /\ UNCHANGED <<exists, chans, active, members, subs, kept, gen, faults>>
  BY DEF Call, Subscribe, Unsubscribe, Update, Delete, Begin, database, zulip
<1>8. ops \in Nat
  BY SetsAssumption DEF TypeOK, TypeHistory
<1> QED
  BY <1>6, <1>7, <1>8

\* A refused request changes nothing, and ends the call or undoes it.
LEMMA RefusedDoes ==
  ASSUME NEW k \in Callers, TypeOK, OneGroup, Refused(k)
  PROVE  /\ MovesAlone(k) /\ pc[k] \in Refusable /\ G \notin active
         /\ UNCHANGED <<exists, chans, active, members, subs, kept, gen, ops, called, faults>>
         /\ \/ pc[k] = "undoMember" /\ pc'[k] = "undoChannels" /\ job'[k] = job[k]
            \/ pc[k] = "unDelete" /\ pc'[k] = "unRestore" /\ job'[k] = job[k] /\ ~job[k].keep
            \/ pc[k] = "delDeactivate" /\ pc'[k] = "delRestore" /\ job[k].users # {}
            \/ pc'[k] = "idle" /\ (pc[k] = "unDelete" => job[k].keep)
<1>0. Error(k) /\ pc[k] \in Refusable /\ UNCHANGED <<active, members, subs, kept, faults>>
  BY DEF Refused, Refusable, zulip
<1>1. MovesAlone(k) /\ pc'[k] = AfterError(k) /\ (AfterError(k) # "idle" => job'[k] = job[k])
  <2>1. CASE AfterError(k) = "idle"
    BY <1>0, <2>1, TheGroup, ReturnTo DEF Error
  <2>2. CASE AfterError(k) # "idle"
    BY <1>0, <2>2, TheGroup, ContinueTo DEF Error
  <2> QED BY <2>1, <2>2
<1>2. UNCHANGED <<exists, chans, gen, ops, called>>
  BY <1>0 DEF Error, database
<1>3. \/ pc[k] = "undoMember" /\ AfterError(k) = "undoChannels"
      \/ pc[k] = "unDelete" /\ AfterError(k) = "unRestore" /\ ~job[k].keep
      \/ pc[k] = "delDeactivate" /\ AfterError(k) = "delRestore" /\ job[k].users # {}
      \/ AfterError(k) = "idle" /\ (pc[k] = "unDelete" => job[k].keep)
  BY <1>0 DEF AfterError, Refusable
<1> QED
  BY <1>0, <1>1, <1>2, <1>3, TheGroup DEF Refused

---------------------------------------------------------------------------
(* The steps keep what holds at the places.                                 *)

LEMMA SameOperation ==
  ASSUME NEW k \in Callers,
         \/ pc[k] \in Subscribing /\ pc'[k] \in Subscribing
         \/ pc[k] \in Updating /\ pc'[k] \in Updating /\ job'[k].chans = job[k].chans
         \/ pc[k] \in Deleting /\ pc'[k] \in Deleting
         \/ pc[k] \in Leaving /\ pc'[k] \in Leaving /\ job'[k].keep = job[k].keep
  PROVE  OperationOf(k)' = OperationOf(k)
  BY DEF OperationOf, Subscribing, Updating, Deleting, Leaving, InLeaving, Unsubscribing

LEMMA OperationCases ==
  ASSUME NEW k \in Callers
  PROVE  /\ pc[k] \in Subscribing => OperationOf(k) = "subscribe"
         /\ pc[k] \in Updating /\ job[k].chans # {} => OperationOf(k) = "add"
         /\ pc[k] \in Updating /\ job[k].chans = {} => OperationOf(k) = "remove"
         /\ pc[k] \in Deleting => OperationOf(k) = "delete"
         /\ pc[k] \in Leaving /\ job[k].keep => OperationOf(k) = "keep"
         /\ pc[k] \in Leaving /\ ~job[k].keep => OperationOf(k) = "unsubscribe"
<1> USE DEF OperationOf, Subscribing, Updating, Deleting, Leaving, InLeaving, Unsubscribing
<1>1. pc[k] \in Subscribing => OperationOf(k) = "subscribe"
  OBVIOUS
<1>2. pc[k] \in Updating /\ job[k].chans # {} => OperationOf(k) = "add"
  OBVIOUS
<1>3. pc[k] \in Updating /\ job[k].chans = {} => OperationOf(k) = "remove"
  OBVIOUS
<1>4. pc[k] \in Deleting => OperationOf(k) = "delete"
  OBVIOUS
<1>5. pc[k] \in Leaving /\ job[k].keep => OperationOf(k) = "keep"
  OBVIOUS
<1>6. pc[k] \in Leaving /\ ~job[k].keep => OperationOf(k) = "unsubscribe"
  OBVIOUS
<1> QED
  BY <1>1, <1>2, <1>3, <1>4, <1>5, <1>6

\* What a caller does tells what has been called.
LEMMA Calls ==
  ASSUME NEW k \in Callers, TraceInv
  PROVE  /\ pc[k] \in Subscribing => "subscribe" \in called
         /\ pc[k] \in Updating /\ job[k].chans # {} => "add" \in called
         /\ pc[k] \in Updating /\ job[k].chans = {} => "remove" \in called
         /\ pc[k] \in Deleting => "delete" \in called
         /\ pc[k] \in Leaving /\ job[k].keep => "keep" \in called
         /\ pc[k] \in Leaving /\ ~job[k].keep => "unsubscribe" \in called
<1>1. "idle" \notin Subscribing \cup Updating \cup Deleting \cup Leaving
  BY DEF Subscribing, Updating, Deleting, Leaving, InLeaving, Unsubscribing
<1>2. pc[k] \in Subscribing \cup Updating \cup Deleting \cup Leaving => OperationOf(k) \in called
  BY <1>1 DEF TraceInv
<1> QED
  BY <1>2, OperationCases

LEMMA CallsKeep ==
  ASSUME NEW k \in Callers, MovesAlone(k), UNCHANGED <<ops, called>>, pc[k] # "idle",
         pc'[k] = "idle" \/ OperationOf(k)' = OperationOf(k), TraceInv, CountInv
  PROVE  TraceInv' /\ CountInv'
<1>1. \A i \in Callers : pc'[i] # "idle" => pc[i] # "idle" /\ OperationOf(i)' = OperationOf(i)
  BY DEF MovesAlone, OperationOf
<1>2. TraceInv'
  BY <1>1 DEF TraceInv
<1>3. ops # 0
  BY DEF CountInv, Quiet
<1>4. CountInv'
  BY <1>1, <1>3 DEF CountInv
<1> QED BY <1>2, <1>4

LEMMA CallsBegin ==
  ASSUME NEW k \in Callers, MovesAlone(k), pc[k] = "idle", pc'[k] # "idle", ops \in Nat,
         ops' = ops + 1, called' = called \cup {OperationOf(k)'}, TraceInv, CountInv
  PROVE  TraceInv' /\ CountInv'
<1>1. \A i \in Callers \ {k} : pc'[i] = pc[i] /\ OperationOf(i)' = OperationOf(i)
  BY DEF MovesAlone, OperationOf
<1>2. TraceInv'
  BY <1>1 DEF TraceInv
<1>3. ops' # 0 /\ (ops' <= 1 => ops = 0) /\ (ops' <= 2 => ops <= 1)
  OBVIOUS
<1>4. ops' <= 1 => called' = {OperationOf(k)'} /\ \A i \in Callers : pc'[i] # "idle" => i = k
  BY <1>1, <1>3 DEF CountInv, Quiet
<1>5. ASSUME ops' <= 2, NEW i \in Callers, NEW j \in Callers, i # j, pc'[i] # "idle", pc'[j] # "idle"
      PROVE  called' \subseteq {OperationOf(i)', OperationOf(j)'}
  <2>1. CASE i # k /\ j # k
    BY <1>1, <1>3, <1>5, <2>1 DEF CountInv
  <2>2. CASE i = k
    BY <1>1, <1>3, <1>5, <2>2 DEF CountInv
  <2>3. CASE j = k
    BY <1>1, <1>3, <1>5, <2>3 DEF CountInv
  <2> QED BY <2>1, <2>2, <2>3
<1>6. ASSUME ops' <= 2, NEW o \in called', NEW p \in called', NEW q \in called'
      PROVE  o = p \/ o = q \/ p = q
  BY <1>3, <1>6 DEF CountInv
<1>7. CountInv'
  BY <1>3, <1>4, <1>5, <1>6 DEF CountInv
<1> QED BY <1>2, <1>7

\* What the other callers know, whatever becomes of the group,
LEMMA AtFrame ==
  ASSUME NEW k \in Callers, MovesAlone(k), AtInv, called \subseteq called', exists' \subseteq exists,
         UNCHANGED gen \/ "subscribe" \in called,
         "add" \notin called => chans'[G] \subseteq chans[G],
         "remove" \notin called /\ "delete" \notin called => chans[G] \subseteq chans'[G],
         "remove" \notin called => chans[G] \subseteq chans'[G] \/ G \notin exists',
         \A i \in Callers \ {k} : UpdateAt(i)', At(k)'
  PROVE  \A i \in Callers : At(i)'
<1> SUFFICES ASSUME NEW i \in Callers \ {k} PROVE At(i)'
  OBVIOUS
<1>1. pc'[i] = pc[i] /\ job'[i] = job[i] /\ At(i)
  BY DEF MovesAlone, AtInv
<1>2. SubscribeAt(i)'
  BY <1>1 DEF At, SubscribeAt
<1>3. UnsubscribeAt(i)'
  BY <1>1 DEF At, UnsubscribeAt
<1>4. DeleteAt(i)'
  BY <1>1 DEF At, DeleteAt
<1> QED
  BY <1>2, <1>3, <1>4 DEF At

\* and where its channels stay.
LEMMA AtLocal ==
  ASSUME NEW k \in Callers, MovesAlone(k), AtInv, UNCHANGED <<exists, chans, active, ops, called>>,
         UNCHANGED gen \/ "subscribe" \in called, pc[k] \notin {"idle", "delRow"},
         pc'[k] = "idle" \/ OperationOf(k)' = OperationOf(k), At(k)'
  PROVE  AtInv'
<1>1. TraceInv' /\ CountInv'
  BY CallsKeep DEF AtInv
<1>2. GoneInv'
  BY DEF AtInv, GoneInv, MovesAlone
<1>3. \A i \in Callers \ {k} : UpdateAt(i)'
  BY DEF AtInv, At, UpdateAt, MovesAlone
<1>4. \A i \in Callers : At(i)'
  BY <1>3, AtFrame
<1> QED
  BY <1>1, <1>2, <1>4 DEF AtInv

\* A caller of whom nothing is known after the step.
LEMMA AtNothing ==
  ASSUME NEW k \in Callers,
         pc'[k] \in {"idle", "subRead", "subCheck", "subClean",
                     "delLock", "delList", "delEmpty", "delDeactivate", "delRow"}
  PROVE  At(k)'
  BY DEF At, SubscribeAt, UnsubscribeAt, UpdateAt, DeleteAt, Undoing, InLeaving, Unsubscribing,
         Updating, BeforeCommit

LEMMA AtSubscribe ==
  ASSUME NEW k \in Callers, pc'[k] \in Subscribing, SubscribeAt(k)'
  PROVE  At(k)'
  BY DEF At, UnsubscribeAt, UpdateAt, DeleteAt, InLeaving, Unsubscribing, Subscribing,
         Updating, BeforeCommit

LEMMA AtUnsubscribe ==
  ASSUME NEW k \in Callers, pc'[k] \in Leaving, UnsubscribeAt(k)'
  PROVE  At(k)'
  BY DEF At, SubscribeAt, UpdateAt, DeleteAt, InLeaving, Leaving, Unsubscribing, Undoing,
         Updating, BeforeCommit

LEMMA AtUpdate ==
  ASSUME NEW k \in Callers, pc'[k] \in Updating, UpdateAt(k)'
  PROVE  At(k)'
  BY DEF At, SubscribeAt, UnsubscribeAt, DeleteAt, InLeaving, Unsubscribing, Undoing, Updating

LEMMA SubscribeSteps ==
  ASSUME NEW k \in Callers, TypeOK, OneGroup, AtInv
  PROVE  /\ SubLock(k) => AtInv'
         /\ SubAdd(k) => AtInv'
         /\ SubBump(k) => AtInv'
         /\ SubRead(k) => AtInv'
         /\ SubEnter(k) => AtInv'
         /\ SubCheck(k) => AtInv'
         /\ SubClean(k) => AtInv'
         /\ UndoMember(k) => AtInv'
         /\ UndoChannels(k) => AtInv'
<1> DEFINE tame == /\ MovesAlone(k) /\ UNCHANGED <<exists, chans, active, ops, called>>
                   /\ pc[k] \in Subscribing /\ pc'[k] \in Subscribing \cup {"idle"} /\ SubscribeAt(k)'
<1>1. ASSUME tame PROVE AtInv'
  <2>1. "subscribe" \in called
    BY <1>1, Calls DEF AtInv
  <2>2. pc'[k] = "idle" \/ OperationOf(k)' = OperationOf(k)
    BY <1>1, SameOperation
  <2>3. At(k)'
    BY <1>1, AtNothing, AtSubscribe
  <2>4. pc[k] \notin {"idle", "delRow"}
    BY <1>1 DEF Subscribing
  <2> QED
    BY <1>1, <2>1, <2>2, <2>3, <2>4, AtLocal
<1> USE DEF Subscribing, SubscribeAt, Undoing
<1>2. SubLock(k) => tame
  BY SubLockDoes DEF AtInv, At
<1>3. SubAdd(k) => tame
  BY SubAddDoes DEF AtInv, At
<1>4. SubBump(k) => tame
  BY SubBumpDoes DEF AtInv, At
<1>5. SubRead(k) => tame
  BY SubReadDoes
<1>6. SubEnter(k) => tame
  BY SubEnterDoes
<1>7. SubCheck(k) => tame
  BY SubCheckDoes
<1>8. SubClean(k) \/ UndoChannels(k) => tame
  BY SubLeavesDoes
<1>9. UndoMember(k) => tame
  BY UndoMemberDoes DEF AtInv, At
<1> HIDE DEF tame
<1> QED
  BY <1>1, <1>2, <1>3, <1>4, <1>5, <1>6, <1>7, <1>8, <1>9

LEMMA UnsubscribeSteps ==
  ASSUME NEW k \in Callers, IInv, OneGroup, AtInv
  PROVE  /\ UnStart(k) => AtInv'
         /\ UnShared(k) => AtInv'
         /\ UnCover(k) => AtInv'
         /\ UnLeave(k) => AtInv'
         /\ UnLock(k) => AtInv'
         /\ UnDelete(k) => AtInv'
         /\ UnResub(k) => AtInv'
         /\ UnFinal(k) => AtInv'
<1> DEFINE tame == /\ MovesAlone(k) /\ UNCHANGED <<exists, chans, active, gen, ops, called>>
                   /\ pc[k] \in Leaving
                   /\ \/ pc'[k] = "idle"
                      \/ pc'[k] \in Leaving /\ job'[k].keep = job[k].keep /\ UnsubscribeAt(k)'
<1>0. TypeOK /\ UnsubscribeAt(k) /\ (pc[k] = "unStart" => ~job[k].final)
  BY DEF IInv, LateInv, LateOf, AtInv, At
<1>1. ASSUME tame PROVE AtInv'
  <2>1. pc'[k] = "idle" \/ OperationOf(k)' = OperationOf(k)
    BY <1>1, SameOperation
  <2>2. At(k)'
    BY <1>1, AtNothing, AtUnsubscribe
  <2>3. pc[k] \notin {"idle", "delRow"}
    BY <1>1 DEF Leaving, InLeaving, Unsubscribing
  <2> QED
    BY <1>1, <2>1, <2>2, <2>3, AtLocal
<1> USE DEF Leaving, InLeaving, Unsubscribing, UnsubscribeAt
<1>2. UnStart(k) => tame
  BY <1>0, UnStartDoes
<1>3. UnShared(k) => tame
  BY <1>0, UnSharedDoes
<1>4. ~UnCover(k)
  BY <1>0 DEF UnCover
<1>5. UnLeave(k) => tame
  <2>1. UnLeave(k) => job[k].covered = {}
    BY <1>0 DEF UnLeave
  <2> QED
    BY <1>0, <2>1, UnLeaveDoes
<1>6. UnLock(k) => tame
  BY <1>0, UnLockDoes
<1>7. UnDelete(k) => tame
  BY <1>0, UnDeleteDoes
<1>8. UnResub(k) => tame
  BY <1>0, UnResubDoes
<1>9. UnFinal(k) => tame
  BY <1>0, UnFinalDoes
<1> HIDE DEF tame
<1> QED
  BY <1>1, <1>2, <1>3, <1>4, <1>5, <1>6, <1>7, <1>8, <1>9

\* A channel is added by the one update there is, or by two of those that add.
LEMMA AddedOnce ==
  ASSUME NEW k \in Callers, NEW i \in Callers, i # k, AtInv, ops <= 2,
         pc[i] \in Updating, pc[k] \in Updating, job[i].chans # {}, job[k].chans # {}
  PROVE  called \subseteq {"add"} /\ ~(ops <= 1)
<1>1. OperationOf(i) = "add" /\ OperationOf(k) = "add" /\ pc[i] # "idle" /\ pc[k] # "idle"
  BY OperationCases DEF Updating
<1> QED
  BY <1>1 DEF AtInv, CountInv

LEMMA UpdateSteps ==
  ASSUME NEW k \in Callers, TypeOK, OneGroup, AtInv
  PROVE  /\ UpMembers(k) => AtInv'
         /\ UpEnter(k) => AtInv'
         /\ UpCommit(k) => AtInv'
         /\ UpCheck(k) => AtInv'
         /\ UpClean(k) => AtInv'
<1> DEFINE tame == /\ MovesAlone(k) /\ UNCHANGED <<exists, chans, active, gen, ops, called>>
                   /\ pc[k] \in Updating
                   /\ \/ pc'[k] = "idle"
                      \/ pc'[k] \in Updating /\ job'[k].chans = job[k].chans /\ UpdateAt(k)'
<1>0. UpdateAt(k)
  BY DEF AtInv, At
<1>1. ASSUME tame PROVE AtInv'
  <2>1. pc'[k] = "idle" \/ OperationOf(k)' = OperationOf(k)
    BY <1>1, SameOperation
  <2>2. At(k)'
    BY <1>1, AtNothing, AtUpdate
  <2>3. pc[k] \notin {"idle", "delRow"}
    BY <1>1 DEF Updating
  <2> QED
    BY <1>1, <2>1, <2>2, <2>3, AtLocal
<1>2. UpMembers(k) => tame
  BY <1>0, UpMembersDoes DEF Updating, UpdateAt, BeforeCommit
<1>3. UpEnter(k) => tame
  BY <1>0, UpEnterDoes DEF Updating, UpdateAt, BeforeCommit
<1>4. UpCheck(k) => tame
  <2>1. UpCheck(k) /\ pc'[k] = "upClean" => job'[k].target # {}
    BY <1>0, UpCheckDoes DEF UpdateAt
  <2> QED
    BY <1>0, <2>1, UpCheckDoes DEF Updating, UpdateAt, BeforeCommit
<1>5. UpClean(k) => tame
  BY UpCleanDoes DEF Updating
<1>6. ASSUME UpCommit(k), G \notin exists PROVE tame
  BY <1>6, UpCommitDoes DEF Updating
<1>7. ASSUME UpCommit(k), G \in exists PROVE AtInv'
  <2>0. /\ MovesAlone(k) /\ pc[k] = "upCommit"
        /\ UNCHANGED <<exists, active, members, subs, gen, ops, called>>
        /\ chans'[G] = (chans[G] \ job[k].remove) \cup job[k].chans
        /\ pc'[k] = "idle" \/ (pc'[k] = "upCheck" /\ job'[k] = job[k] /\ job[k].target # {})
    BY <1>7, UpCommitDoes
  <2>1. job[k].chans = {} \/ job[k].remove = {}
    BY <1>0, <2>0 DEF UpdateAt, BeforeCommit
  <2>2. IF job[k].chans # {} THEN "add" \in called ELSE "remove" \in called
    BY <2>0, Calls DEF AtInv, Updating
  <2>3. pc'[k] = "idle" \/ OperationOf(k)' = OperationOf(k)
    BY <2>0, SameOperation DEF Updating
  <2>4. TraceInv' /\ CountInv'
    BY <2>0, <2>3, CallsKeep DEF AtInv
  <2>5. GoneInv'
    BY <1>7, <2>0 DEF AtInv, GoneInv, MovesAlone
  <2>6. At(k)'
    <3>1. pc'[k] = "upCheck" => UpdateAt(k)'
      BY <1>0, <2>0 DEF UpdateAt, Updating, BeforeCommit
    <3> QED
      BY <2>0, <3>1, AtNothing, AtUpdate DEF Updating
  <2>7. ASSUME NEW i \in Callers \ {k} PROVE UpdateAt(i)'
    <3>1. pc'[i] = pc[i] /\ job'[i] = job[i] /\ UpdateAt(i)
      BY <2>0 DEF MovesAlone, AtInv, At
    <3>2. ASSUME pc[i] \in BeforeCommit, ops <= 2, ops <= 1 \/ ~(called \subseteq {"add"})
          PROVE  job[i].target \cap chans'[G] = {}
      <4>1. pc[i] \in Updating /\ pc[k] \in Updating
        BY <2>0, <3>2 DEF BeforeCommit, Updating
      <4>2. job[i].target \subseteq job[i].chans /\ job[i].target \cap chans[G] = {}
        BY <3>1, <3>2, <4>1 DEF UpdateAt
      <4>3. job[i].chans = {} \/ job[k].chans = {}
        BY <3>2, <4>1, AddedOnce
      <4> QED
        BY <2>0, <4>2, <4>3
    <3>3. ops <= 1 => ops <= 2
      BY SetsAssumption DEF TypeOK, TypeHistory
    <3> QED
      BY <2>0, <3>1, <3>2, <3>3 DEF UpdateAt
  <2>8. \A i \in Callers : At(i)'
    BY <2>0, <2>1, <2>2, <2>6, <2>7, AtFrame
  <2> QED
    BY <2>4, <2>5, <2>8 DEF AtInv
<1> HIDE DEF tame
<1> QED
  BY <1>1, <1>2, <1>3, <1>4, <1>5, <1>6, <1>7

LEMMA DeleteSteps ==
  ASSUME NEW k \in Callers, IInv, OneGroup, AtInv
  PROVE  /\ DelLock(k) \/ DelList(k) \/ DelEmpty(k) \/ DelDeactivate(k) => AtInv'
         /\ ~DelRestore(k)
         /\ DelRow(k) => AtInv'
<1>0. TypeOK
  BY DEF IInv
<1>1. ASSUME DelLock(k) \/ DelList(k) \/ DelEmpty(k) \/ DelDeactivate(k) PROVE AtInv'
  <2>0. /\ MovesAlone(k) /\ UNCHANGED <<exists, chans, gen, ops, called>>
        /\ pc[k] \in Deleting /\ pc'[k] \in {"idle", "delList", "delEmpty", "delDeactivate", "delRow"}
        /\ UNCHANGED active \/ pc'[k] = "delRow"
        /\ pc[k] # "delRow"
    BY <1>1, DeletingDoes DEF Deleting
  <2>1. pc'[k] = "idle" \/ OperationOf(k)' = OperationOf(k)
    BY <2>0, SameOperation DEF Deleting
  <2>2. TraceInv' /\ CountInv'
    BY <2>0, <2>1, CallsKeep DEF AtInv, Deleting
  <2>3. GoneInv'
    BY <2>0 DEF AtInv, GoneInv, MovesAlone
  <2>4. \A i \in Callers \ {k} : UpdateAt(i)'
    BY <2>0 DEF AtInv, At, UpdateAt, MovesAlone
  <2>5. At(k)'
    BY <2>0, AtNothing
  <2>6. \A i \in Callers : At(i)'
    BY <2>0, <2>4, <2>5, AtFrame
  <2> QED
    BY <2>2, <2>3, <2>6 DEF AtInv
<1>2. ~DelRestore(k)
  BY DEF DelRestore, AtInv, At, DeleteAt
<1>3. ASSUME DelRow(k) PROVE AtInv'
  <2>0. /\ MovesAlone(k) /\ UNCHANGED <<active, gen, ops, called>>
        /\ pc[k] = "delRow" /\ pc'[k] = "idle"
        /\ G \notin exists' /\ chans'[G] = {} /\ exists' \subseteq exists
    BY <1>0, <1>3, DelRowDoes
  <2>1. "delete" \in called
    BY <2>0, Calls DEF AtInv, Deleting
  <2>2. TraceInv' /\ CountInv'
    BY <2>0, CallsKeep DEF AtInv
  <2>3. GoneInv'
    BY <2>0, <2>1 DEF GoneInv
  <2>4. \A i \in Callers \ {k} : UpdateAt(i)'
    BY <2>0 DEF AtInv, At, UpdateAt, MovesAlone
  <2>5. At(k)'
    BY <2>0, AtNothing
  <2>6. \A i \in Callers : At(i)'
    BY <2>0, <2>1, <2>4, <2>5, AtFrame
  <2> QED
    BY <2>2, <2>3, <2>6 DEF AtInv
<1> QED BY <1>1, <1>2, <1>3

LEMMA CallSteps ==
  ASSUME NEW k \in Callers, TypeOK, OneGroup, AtInv, Call(k)
  PROVE  AtInv'
<1>0. /\ MovesAlone(k) /\ pc[k] = "idle" /\ pc'[k] # "idle" /\ BeginsAt(k)
      /\ UNCHANGED <<exists, chans, active, gen>>
      /\ ops' = ops + 1 /\ ops \in Nat /\ called' = called \cup {OperationOf(k)'}
  BY CallDoes
<1>1. TraceInv' /\ CountInv'
  BY <1>0, CallsBegin DEF AtInv
<1>2. GoneInv'
  BY <1>0 DEF AtInv, GoneInv, MovesAlone
<1>3. ASSUME NEW i \in Callers \ {k} PROVE UpdateAt(i)'
  <2>1. pc'[i] = pc[i] /\ job'[i] = job[i] /\ UpdateAt(i)
    BY <1>0 DEF MovesAlone, AtInv, At
  <2>2. pc[i] # "idle" => ops # 0
    BY DEF AtInv, CountInv, Quiet
  <2>3. (ops' <= 2 => ops <= 1) /\ (ops' <= 1 => ops = 0)
    BY <1>0
  <2> QED
    BY <1>0, <2>1, <2>2, <2>3 DEF UpdateAt, BeforeCommit
<1>4. At(k)'
  <2>1. CASE pc'[k] = "subLock" /\ job'[k].done = {}
    BY <2>1, AtSubscribe DEF SubscribeAt, Undoing, Subscribing
  <2>0. CASE pc'[k] = "delLock"
    BY <2>0, AtNothing
  <2>2. CASE pc'[k] = "unStart" /\ job'[k].chans = chans[G]
    <3>1. UnsubscribeAt(k)'
      BY <1>0, <2>2 DEF UnsubscribeAt, Unsubscribing
    <3> QED
      BY <2>2, <3>1, AtUnsubscribe DEF Leaving, InLeaving
  <2>3. CASE /\ pc'[k] \in {"upMembers", "upCommit"}
             /\ job'[k].target = job'[k].chans \ chans[G]
             /\ job'[k].chans = {} \/ job'[k].remove = {}
    <3>1. UpdateAt(k)'
      BY <1>0, <2>3 DEF UpdateAt
    <3> QED
      BY <2>3, <3>1, AtUpdate DEF Updating
  <2> QED
    BY <1>0, <2>0, <2>1, <2>2, <2>3 DEF BeginsAt
<1>5. \A i \in Callers : At(i)'
  BY <1>0, <1>3, <1>4, AtFrame
<1> QED
  BY <1>1, <1>2, <1>5 DEF AtInv

\* Zulip refuses only what is asked of a group that is gone.
LEMMA RefusedGone ==
  ASSUME NEW k \in Callers, IInv, OneGroup, AtInv, Refused(k)
  PROVE  /\ G \notin exists
         /\ pc[k] \in {"undoMember", "unDelete", "delDeactivate"}
         /\ pc[k] = "delDeactivate" => job[k].users = {}
<1>0. /\ TypeOK /\ LockInv /\ DeleteOf(k) /\ At(k) /\ GoneInv
      /\ G \in Groups /\ job[k].g = G /\ \A d \in Callers : job[d].g = G
  BY TheGroup DEF IInv, DeleteInv, AtInv
<1>1. pc[k] \in Refusable /\ G \notin active
  BY <1>0, RefusedDoes
<1>2. pc[k] # "delRestore" /\ (pc[k] = "undoMember" => G \notin exists)
  BY <1>0 DEF At, DeleteAt, SubscribeAt, Undoing
<1>3. ASSUME G \in exists PROVE FALSE
  <2>1. PICK d \in Callers : pc[d] = "delRow"
    BY <1>0, <1>1, <1>3 DEF GoneInv
  <2>2. d \in writers[G]
    BY <1>0, <2>1 DEF LockInv, Exclusive, Deleting
  <2>3. pc[k] \in Sharing \cup Exclusive /\ k # d
    BY <1>1, <1>2, <1>3, <2>1 DEF Refusable, Sharing, Exclusive, Deleting
  <2> QED
    BY <1>0, <2>2, <2>3 DEF LockInv
<1> QED
  BY <1>0, <1>1, <1>2, <1>3 DEF DeleteOf, Refusable

LEMMA RefusedStep ==
  ASSUME NEW k \in Callers, IInv, OneGroup, AtInv, Refused(k)
  PROVE  AtInv'
<1>0. TypeOK
  BY DEF IInv
<1>1. /\ MovesAlone(k) /\ UNCHANGED <<exists, chans, active, gen, ops, called>>
      /\ G \notin exists
      /\ \/ pc[k] = "undoMember" /\ pc'[k] = "undoChannels"
         \/ pc[k] = "unDelete" /\ pc'[k] = "unRestore" /\ job'[k] = job[k] /\ ~job[k].keep
         \/ pc'[k] = "idle" /\ pc[k] \notin {"idle", "delRow"}
  BY <1>0, RefusedDoes, RefusedGone
<1>2. At(k)'
  <2>1. CASE pc'[k] = "undoChannels"
    BY <1>1, <2>1, AtSubscribe DEF SubscribeAt, Undoing, Subscribing
  <2>2. CASE pc'[k] = "unRestore" /\ job'[k] = job[k] /\ ~job[k].keep
    <3>1. UnsubscribeAt(k)'
      BY <1>1, <2>2 DEF UnsubscribeAt, Unsubscribing, InLeaving
    <3> QED
      BY <2>2, <3>1, AtUnsubscribe DEF Leaving
  <2>3. CASE pc'[k] = "idle"
    BY <2>3, AtNothing
  <2> QED
    BY <1>1, <2>1, <2>2, <2>3
<1>3. pc'[k] = "idle" \/ OperationOf(k)' = OperationOf(k)
  BY <1>1, SameOperation DEF Subscribing, Leaving, InLeaving, Unsubscribing
<1> QED
  BY <1>1, <1>2, <1>3, AtLocal

LEMMA AtInit == Init => AtInv
<1> SUFFICES ASSUME Init PROVE AtInv
  OBVIOUS
<1>1. \A k \in Callers : pc[k] = "idle"
  BY DEF Init
<1>2. TraceInv /\ CountInv
  BY <1>1 DEF Init, TraceInv, CountInv, Quiet
<1>3. G \in Groups
  BY SetsAssumption DEF G
<1>4. GoneInv
  BY <1>3 DEF Init, GoneInv
<1>5. \A k \in Callers : At(k)
  BY <1>1 DEF At, SubscribeAt, UnsubscribeAt, UpdateAt, DeleteAt, Undoing, InLeaving, Unsubscribing,
     Updating, BeforeCommit
<1> QED
  BY <1>2, <1>4, <1>5 DEF AtInv

\* Where no request fails: a refused one is not counted as one that does.
LEMMA NoFailure ==
  ASSUME NEW k \in Callers, TypeOK, MaxFaults = 0
  PROVE  ~Fails(k)
  BY DEF Fails, TypeOK, TypeHistory

LEMMA AtStep ==
  ASSUME IInv, OneGroup, MaxFaults = 0, AtInv, [Next]_vars
  PROVE  AtInv'
<1>0. TypeOK
  BY DEF IInv
<1>1. ASSUME NEW k \in Callers, Call(k) PROVE AtInv'
  BY <1>0, <1>1, CallSteps
<1>2. ASSUME NEW k \in Callers, Step(k) PROVE AtInv'
  BY <1>0, <1>2, SubscribeSteps, UnsubscribeSteps, UpdateSteps, DeleteSteps DEF Step
<1>3. ASSUME NEW k \in Callers, Fails(k) \/ Refused(k) PROVE AtInv'
  BY <1>0, <1>3, RefusedStep, NoFailure
<1>4. CASE UNCHANGED vars
  BY <1>4 DEF vars, database, zulip, lock, callers, AtInv, TraceInv, CountInv, GoneInv, Quiet,
     OperationOf, At, SubscribeAt, UnsubscribeAt, UpdateAt, DeleteAt
<1> QED
  BY <1>1, <1>2, <1>3, <1>4 DEF Next

---------------------------------------------------------------------------
(* The steps keep the members in the channels.                              *)

HeldAt(k) == SubscribeHeld(k) /\ UnsubscribeHeld(k) /\ UpdateHeld(k)

\* What holds of the calls that have been made held before.
LEMMA GentleBefore ==
  ASSUME called \subseteq called', ops \in Nat, ops' \in Nat, ops <= ops', Gentle'
  PROVE  Gentle
  BY DEF Gentle

\* Where a user is subscribed to a channel while another is added to the group,
\* the user is no member before.
LEMMA GentleUpdates ==
  ASSUME NEW k \in Callers, AtInv, Gentle, "subscribe" \in called, pc[k] \in Updating
  PROVE  job[k].chans = {} /\ job[k].target = {}
         /\ pc[k] \notin {"upEnter", "upCheck", "upClean"}
<1>1. "add" \notin called
  BY DEF Gentle
<1>2. job[k].chans = {}
  BY <1>1, Calls DEF AtInv
<1>3. UpdateAt(k)
  BY DEF AtInv, At
<1> QED
  BY <1>2, <1>3 DEF UpdateAt

\* A step of a caller that adds neither a member nor a channel: what it takes
\* from a member is taken by one who parts.
LEMMA HeldFrame ==
  ASSUME NEW k \in Callers, MovesAlone(k), AtInv, HeldInv, Gentle, called \subseteq called',
         \A u : u \in members'[G] => u \in members[G],
         \A c : c \in chans'[G] => c \in chans[G],
         Doomed => Doomed',
         (\E u : u \in members[G] /\ u \notin members'[G]) => Away',
         \A u \in members'[G] : \A c : <<u, c>> \in subs => <<u, c>> \in subs' \/ Parts(u)',
         \A u \in members'[G] : Parting(k, u) =>
           Parts(u)' \/ ("subscribe" \in called /\ \A c \in chans'[G] : <<u, c>> \in subs'),
         \A u \in members'[G] : Joining(k, u) =>
           \/ Joining(k, u)'
           \/ "subscribe" \in called /\ \A c \in chans'[G] : <<u, c>> \in subs' \/ Parts(u)',
         HeldAt(k)'
  PROVE  HeldInv'
<1>1. \A i \in Callers \ {k} : pc'[i] = pc[i] /\ job'[i] = job[i]
  BY DEF MovesAlone
<1>2. \A i \in Callers \ {k} : \A u : /\ Joining(i, u)' <=> Joining(i, u)
                                      /\ Parting(i, u)' <=> Parting(i, u)
  BY <1>1 DEF Joining, Parting
<1>3. ASSUME NEW u \in members'[G], Parts(u)
      PROVE  Parts(u)' \/ ("subscribe" \in called /\ \A c \in chans'[G] : <<u, c>> \in subs')
  BY <1>2, <1>3 DEF Parts
<1>4. ASSUME NEW u \in members'[G], NEW c, Held(u, c)
      PROVE  Held(u, c)' \/ ("subscribe" \in called /\ (c \in chans'[G] => Held(u, c)'))
  BY <1>2, <1>3, <1>4 DEF Held
<1>5. MemberHeld'
  BY <1>4 DEF HeldInv, MemberHeld
<1>6. ASSUME NEW i \in Callers \ {k} PROVE HeldAt(i)'
  <2>1. SubscribeHeld(i) /\ UnsubscribeHeld(i) /\ UpdateHeld(i)
    BY DEF HeldInv
  <2>2. Away => Away'
    BY DEF Away
  <2>3. SubscribeHeld(i)'
    <3>1. ASSUME pc[i] \in {"subRead", "subEnter", "subCheck"}, NEW u \in members'[G],
                 NEW c \in job[i].done \cap chans'[G], u = job[i].u
          PROVE  <<u, c>> \in subs' \/ Parts(u)'
      <4>1. <<u, c>> \in subs \/ Parts(u)
        BY <2>1, <3>1 DEF SubscribeHeld
      <4> QED
        BY <1>3, <3>1, <4>1
    <3>2. (pc[i] \in Added /\ job[i].u \notin members'[G]) \/ pc[i] = "subClean" =>
            Away' /\ job[i].u \notin members'[G]
      BY <2>1, <2>2 DEF SubscribeHeld
    <3> QED
      BY <1>1, <3>1, <3>2 DEF SubscribeHeld
  <2>4. UnsubscribeHeld(i)'
    BY <1>1, <2>1 DEF UnsubscribeHeld
  <2>5. UpdateHeld(i)'
    <3>1. ASSUME pc[i] \in BeforeCommit, NEW u \in members'[G], NEW c \in job[i].chans
          PROVE  (pc[i] # "upCommit" /\ c \in job[i].target) \/ Held(u, c)'
      <4>1. "subscribe" \notin called
        BY <3>1, GentleUpdates DEF BeforeCommit, Updating
      <4>2. (pc[i] # "upCommit" /\ c \in job[i].target) \/ Held(u, c)
        BY <2>1, <3>1 DEF UpdateHeld
      <4> QED
        BY <1>4, <4>1, <4>2
    <3> QED
      BY <1>1, <2>1, <3>1 DEF UpdateHeld
  <2> QED
    BY <2>3, <2>4, <2>5 DEF HeldAt
<1> QED
  BY <1>5, <1>6 DEF HeldInv, HeldAt

\* A step that changes nothing but the caller, and what it holds.
LEMMA HeldLocal ==
  ASSUME NEW k \in Callers, MovesAlone(k), AtInv, HeldInv, Gentle,
         UNCHANGED <<exists, chans, members>>, called \subseteq called', subs \subseteq subs',
         pc[k] \in {"delDeactivate", "delRow"} => Doomed',
         \A u \in members[G] : Parting(k, u) => Parting(k, u)',
         \A u \in members[G] : Joining(k, u) => Joining(k, u)',
         HeldAt(k)'
  PROVE  HeldInv'
<1>1. Doomed => Doomed'
  BY DEF Doomed, MovesAlone
<1>2. \A u : Parting(k, u)' => Parts(u)'
  BY DEF Parts
<1> QED
  BY <1>1, <1>2, HeldFrame

\* A caller of whom nothing is known after the step.
LEMMA HeldNothing ==
  ASSUME NEW k \in Callers,
         pc'[k] \in {"idle", "subLock", "subAdd", "undoMember", "undoChannels", "unStart", "unLock",
                     "unDelete", "unResub", "unRestore", "upCheck"} \cup Deleting
  PROVE  HeldAt(k)'
  BY DEF HeldAt, SubscribeHeld, UnsubscribeHeld, UpdateHeld, Added, BeforeCommit, Deleting

LEMMA GoneEmpty ==
  ASSUME IInv, OneGroup, G \notin exists
  PROVE  members[G] = {}
<1>1. G \in Groups
  BY SetsAssumption DEF G
<1> QED
  BY <1>1 DEF IInv, DeleteInv, DeletedIsEmpty

\* Who is held stays so, where a caller holds nobody or goes on holding.
LEMMA HeldStays ==
  ASSUME NEW k \in Callers, MovesAlone(k), subs \subseteq subs',
         NEW u, Parting(k, u) => Parting(k, u)', Joining(k, u) => Joining(k, u)'
  PROVE  /\ Parts(u) => Parts(u)'
         /\ \A c : Held(u, c) => Held(u, c)'
<1>1. \A i \in Callers \ {k} : /\ Joining(i, u)' <=> Joining(i, u)
                               /\ Parting(i, u)' <=> Parting(i, u)
  BY DEF MovesAlone, Joining, Parting
<1> QED
  BY <1>1 DEF Held, Parts

LEMMA SubAddHeld ==
  ASSUME NEW k \in Callers, IInv, OneGroup, AtInv, HeldInv, Gentle, SubAdd(k)
  PROVE  HeldInv'
<1>0. /\ MovesAlone(k) /\ pc[k] = "subAdd" /\ pc'[k] = "subBump" /\ job'[k] = job[k]
      /\ UNCHANGED <<exists, chans, subs, ops, called>>
      /\ \A u : u \in members'[G] <=> u \in members[G] \/ u = job[k].u
  BY SubAddDoes DEF IInv
<1>1. \A i \in Callers \ {k} : pc'[i] = pc[i] /\ job'[i] = job[i]
  BY <1>0 DEF MovesAlone
<1>2. "subscribe" \in called
  BY <1>0, Calls DEF AtInv, Subscribing
<1>3. ~Doomed
  <2>1. G \in Groups /\ \A d \in Callers : job[d].g = G
    BY TheGroup DEF IInv
  <2>2. G \in exists
    BY <1>0, <2>1 DEF IInv, DeleteInv, DeleteOf
  <2>3. k \in readers[G]
    BY <1>0, <2>1 DEF IInv, LockInv, Sharing
  <2>4. \A d \in Callers : pc[d] \in {"delDeactivate", "delRow"} => d \in writers[G]
    BY <2>1 DEF IInv, LockInv, Exclusive, Deleting
  <2> QED
    BY <2>1, <2>2, <2>3, <2>4 DEF Doomed, IInv, LockInv
<1>4. ASSUME NEW i \in Callers \ {k}, pc[i] \in Subscribing PROVE ~Away
  <2>1. OperationOf(i) = "subscribe" /\ OperationOf(k) = "subscribe" /\ pc[i] # "idle" /\ pc[k] # "idle"
    BY <1>0, <1>4, OperationCases DEF Subscribing
  <2>2. ops <= 2 => called \subseteq {"subscribe"}
    BY <2>1 DEF AtInv, CountInv
  <2> QED
    BY <1>2, <1>3, <2>2 DEF Away, Gentle
<1>5. \A u : Parts(u) <=> Parts(u)'
  BY <1>0, <1>1 DEF Parts, Parting
<1>6. MemberHeld'
  <2>1. \A u, c : Held(u, c) => Held(u, c)'
    BY <1>0, HeldStays DEF Parting, Joining, Added
  <2>2. \A c : Held(job[k].u, c)'
    BY <1>0 DEF Held, Joining, Added
  <2> QED
    BY <1>0, <2>1, <2>2 DEF HeldInv, MemberHeld
<1>7. ASSUME NEW i \in Callers \ {k} PROVE HeldAt(i)'
  <2>1. SubscribeHeld(i)'
    <3>1. CASE pc[i] \notin Added \cup {"subClean"}
      BY <1>1, <3>1 DEF SubscribeHeld, Added
    <3>2. CASE pc[i] \in Added \cup {"subClean"}
      <4>1. ~Away
        BY <1>4, <3>2 DEF Added, Subscribing
      <4>2. pc[i] \in Added /\ job[i].u \in members[G] /\ SubscribeHeld(i)
        BY <3>2, <4>1 DEF HeldInv, SubscribeHeld
      <4> QED
        BY <1>0, <1>1, <1>5, <4>2 DEF SubscribeHeld, Added
    <3> QED BY <3>1, <3>2
  <2>2. UnsubscribeHeld(i)'
    BY <1>0, <1>2 DEF UnsubscribeHeld
  <2>3. UpdateHeld(i)'
    BY <1>1, <1>2, GentleUpdates DEF UpdateHeld, BeforeCommit, Updating
  <2> QED
    BY <2>1, <2>2, <2>3 DEF HeldAt
<1>8. HeldAt(k)'
  BY <1>0 DEF HeldAt, SubscribeHeld, UnsubscribeHeld, UpdateHeld, Added, BeforeCommit
<1> QED
  BY <1>6, <1>7, <1>8 DEF HeldInv, HeldAt

LEMMA HeldSubscribe ==
  ASSUME NEW k \in Callers, pc'[k] \in Subscribing, SubscribeHeld(k)'
  PROVE  HeldAt(k)'
  BY DEF HeldAt, UnsubscribeHeld, UpdateHeld, Subscribing, BeforeCommit

LEMMA SubReadHeld ==
  ASSUME NEW k \in Callers, IInv, OneGroup, AtInv, HeldInv, Gentle, SubRead(k)
  PROVE  HeldInv'
<1>0. /\ MovesAlone(k) /\ pc[k] = "subRead"
      /\ UNCHANGED <<exists, chans, members, subs, called>>
      /\ \/ pc'[k] = "undoMember" /\ G \notin exists
         \/ pc'[k] = "idle" /\ chans[G] \subseteq job[k].done
         \/ /\ pc'[k] = "subEnter" /\ job'[k].u = job[k].u /\ job'[k].done = job[k].done
  BY SubReadDoes DEF IInv
<1>1. SubscribeHeld(k) /\ "subscribe" \in called
  BY <1>0, Calls DEF HeldInv, AtInv, Subscribing
<1>2. \A u : ~Parting(k, u) /\ (Parts(u) => Parts(u)')
  BY <1>0 DEF Parting, Parts, MovesAlone
<1>3. Doomed => Doomed'
  BY <1>0 DEF Doomed, MovesAlone
<1>4. CASE pc'[k] = "undoMember" /\ G \notin exists
  BY <1>0, <1>2, <1>4, GoneEmpty, HeldNothing, HeldLocal
<1>5. CASE pc'[k] = "idle" /\ chans[G] \subseteq job[k].done
  <2>1. \A u \in members[G] : Joining(k, u) => \A c \in chans[G] : <<u, c>> \in subs \/ Parts(u)
    BY <1>0, <1>1, <1>5 DEF Joining, SubscribeHeld
  <2> QED
    BY <1>0, <1>1, <1>2, <1>3, <1>5, <2>1, HeldNothing, HeldFrame
<1>6. CASE pc'[k] = "subEnter" /\ job'[k].u = job[k].u /\ job'[k].done = job[k].done
  <2>1. Away => Away'
    BY <1>0, <1>3 DEF Away
  <2>2. SubscribeHeld(k)'
    BY <1>0, <1>1, <1>2, <1>6, <2>1 DEF SubscribeHeld, Added
  <2>3. \A u : Joining(k, u) => Joining(k, u)'
    BY <1>0, <1>6 DEF Joining, Added
  <2> QED
    BY <1>0, <1>2, <1>6, <2>2, <2>3, HeldSubscribe, HeldLocal DEF Subscribing
<1> QED BY <1>0, <1>4, <1>5, <1>6

LEMMA SubscribeStepsHeld ==
  ASSUME NEW k \in Callers, IInv, OneGroup, AtInv, HeldInv, Gentle
  PROVE  /\ SubLock(k) => HeldInv'
         /\ SubBump(k) => HeldInv'
         /\ SubEnter(k) => HeldInv'
         /\ SubCheck(k) => HeldInv'
         /\ SubClean(k) \/ UndoChannels(k) => HeldInv'
         /\ UndoMember(k) => HeldInv'
<1>0. TypeOK /\ SubscribeHeld(k) /\ SubscribeAt(k)
  BY DEF IInv, HeldInv, AtInv, At
<1>1. ASSUME SubLock(k) PROVE HeldInv'
  <2>0. /\ MovesAlone(k) /\ pc[k] = "subLock" /\ pc'[k] \in {"idle", "subAdd"}
        /\ UNCHANGED <<exists, chans, members, subs, called>>
    BY <1>0, <1>1, SubLockDoes
  <2>1. \A u : ~Parting(k, u) /\ ~Joining(k, u)
    BY <2>0 DEF Parting, Joining, Added
  <2> QED
    BY <2>0, <2>1, HeldNothing, HeldLocal
<1>2. ASSUME SubBump(k) PROVE HeldInv'
  <2>0. /\ MovesAlone(k) /\ pc[k] = "subBump" /\ pc'[k] = "subRead" /\ job'[k] = job[k]
        /\ UNCHANGED <<exists, chans, members, subs, called>>
    BY <1>0, <1>2, SubBumpDoes
  <2>1. \A u : ~Parting(k, u) /\ (Joining(k, u) => Joining(k, u)')
    BY <2>0 DEF Parting, Joining, Added
  <2>2. Away => Away'
    BY <2>0 DEF Away, Doomed, MovesAlone
  <2>3. SubscribeHeld(k)'
    BY <1>0, <2>0, <2>2 DEF SubscribeHeld, SubscribeAt, Added
  <2> QED
    BY <2>0, <2>1, <2>3, HeldSubscribe, HeldLocal DEF Subscribing
<1>3. ASSUME SubEnter(k) PROVE HeldInv'
  <2>0. /\ MovesAlone(k) /\ pc[k] = "subEnter" /\ pc'[k] = "subCheck"
        /\ UNCHANGED <<exists, chans, members, called>>
        /\ job'[k].u = job[k].u /\ job'[k].done = job[k].done \cup job[k].target
        /\ \A u, c : <<u, c>> \in subs' <=>
             <<u, c>> \in subs \/ (u = job[k].u /\ c \in job[k].target)
    BY <1>0, <1>3, SubEnterDoes
  <2>1. subs \subseteq subs'
    <3>1. Enter({job[k].u}, job[k].target)
      BY <1>3 DEF SubEnter
    <3> QED BY <3>1, EnterPairs
  <2>2. \A u : ~Parting(k, u) /\ (Joining(k, u) => Joining(k, u)')
    BY <2>0 DEF Parting, Joining, Added
  <2>3. Away => Away'
    BY <2>0 DEF Away, Doomed, MovesAlone
  <2>4. \A u : Parts(u) => Parts(u)'
    BY <2>0, <2>1, <2>2, HeldStays
  <2>5. SubscribeHeld(k)'
    BY <1>0, <2>0, <2>3, <2>4 DEF SubscribeHeld, Added
  <2> QED
    BY <2>0, <2>1, <2>2, <2>5, HeldSubscribe, HeldLocal DEF Subscribing
<1>4. ASSUME SubCheck(k) PROVE HeldInv'
  <2>0. /\ MovesAlone(k) /\ pc[k] = "subCheck" /\ job'[k] = job[k]
        /\ UNCHANGED <<exists, chans, members, subs, called>>
        /\ \/ pc'[k] = "subRead" /\ job[k].u \in members[G]
           \/ pc'[k] = "subClean" /\ job[k].u \notin members[G]
    BY <1>0, <1>4, SubCheckDoes
  <2>1. \A u \in members[G] : ~Parting(k, u) /\ (Joining(k, u) => Joining(k, u)')
    BY <2>0 DEF Parting, Joining, Added
  <2>2. Away => Away'
    BY <2>0 DEF Away, Doomed, MovesAlone
  <2>3. \A u : Parts(u) => Parts(u)'
    BY <2>0 DEF Parts, Parting, MovesAlone
  <2>4. SubscribeHeld(k)'
    BY <1>0, <2>0, <2>2, <2>3 DEF SubscribeHeld, Added
  <2> QED
    BY <2>0, <2>1, <2>4, HeldSubscribe, HeldLocal DEF Subscribing
<1>5. ASSUME SubClean(k) \/ UndoChannels(k) PROVE HeldInv'
  <2>0. /\ MovesAlone(k) /\ pc[k] \in {"subClean", "undoChannels"} /\ pc'[k] = "idle"
        /\ UNCHANGED <<exists, chans, members, called>>
        /\ \A u, c : <<u, c>> \in subs' <=>
             <<u, c>> \in subs /\ ~(u = job[k].u /\ c \in job[k].done)
    BY <1>0, <1>5, SubLeavesDoes
  <2>1. job[k].u \notin members[G]
    BY <1>0, <2>0, GoneEmpty DEF SubscribeHeld, SubscribeAt, Undoing
  <2>2. \A u : ~Parting(k, u) /\ ~Joining(k, u)
    BY <2>0 DEF Parting, Joining, Added
  <2>3. Doomed => Doomed'
    BY <2>0 DEF Doomed, MovesAlone
  <2> QED
    BY <2>0, <2>1, <2>2, <2>3, HeldNothing, HeldFrame
<1>6. ASSUME UndoMember(k) PROVE HeldInv'
  <2>0. /\ MovesAlone(k) /\ pc[k] = "undoMember" /\ pc'[k] = "undoChannels"
        /\ UNCHANGED <<exists, chans, subs, called>>
        /\ \A u : u \in members'[G] <=> u \in members[G] /\ u # job[k].u
    BY <1>0, <1>6, UndoMemberDoes
  <2>1. members[G] = {}
    BY <1>0, <2>0, GoneEmpty DEF SubscribeAt, Undoing
  <2>2. Doomed => Doomed'
    BY <2>0 DEF Doomed, MovesAlone
  <2> QED
    BY <2>0, <2>1, <2>2, HeldNothing, HeldFrame
<1> QED BY <1>1, <1>2, <1>3, <1>4, <1>5, <1>6

LEMMA HeldUnsubscribe ==
  ASSUME NEW k \in Callers, pc'[k] \in Leaving, UnsubscribeHeld(k)'
  PROVE  HeldAt(k)'
  BY DEF HeldAt, SubscribeHeld, UpdateHeld, Leaving, InLeaving, Unsubscribing, BeforeCommit, Added

LEMMA UnLeaveHeld ==
  ASSUME NEW k \in Callers, IInv, OneGroup, AtInv, HeldInv, Gentle, UnLeave(k)
  PROVE  HeldInv'
<1>0. TypeOK /\ UnsubscribeHeld(k) /\ UnsubscribeAt(k) /\ pc[k] = "unLeave"
  BY DEF IInv, HeldInv, AtInv, At, UnLeave
<1>1. /\ MovesAlone(k) /\ UNCHANGED <<exists, chans, members, called>>
      /\ \A u, c : <<u, c>> \in subs' <=>
           <<u, c>> \in subs /\ ~(u = job[k].u /\ c \in job[k].target)
      /\ \/ pc'[k] = "idle" /\ job[k].final
         \/ pc'[k] = "unLock" /\ ~job[k].final /\ job'[k].u = job[k].u /\ job'[k].keep = job[k].keep
  BY <1>0, UnLeaveDoes DEF UnsubscribeAt
<1>2. Doomed => Doomed'
  BY <1>0, <1>1 DEF Doomed, MovesAlone
<1>3. \A u : ~Parting(k, u) /\ ~Joining(k, u)
  BY <1>0 DEF Parting, Joining, Added
<1>4. ASSUME NEW u \in members'[G], NEW c, <<u, c>> \in subs
      PROVE  <<u, c>> \in subs' \/ Parts(u)'
  <2>1. CASE job[k].final
    <3>1. "subscribe" \notin called
      BY <1>0, <2>1 DEF UnsubscribeAt, Gentle
    <3>2. job[k].u \notin members[G]
      BY <1>0, <2>1, <3>1 DEF UnsubscribeHeld
    <3> QED
      BY <1>1, <1>4, <3>2
  <2>2. CASE ~job[k].final
    <3>1. u = job[k].u => Parting(k, u)'
      BY <1>0, <1>1, <2>2 DEF Parting, UnsubscribeAt
    <3> QED
      BY <1>1, <1>4, <3>1 DEF Parts
  <2> QED BY <2>1, <2>2
<1> QED
  BY <1>1, <1>2, <1>3, <1>4, HeldNothing, HeldFrame

LEMMA UnLockHeld ==
  ASSUME NEW k \in Callers, IInv, OneGroup, AtInv, HeldInv, Gentle, UnLock(k)
  PROVE  HeldInv'
<1>0. TypeOK /\ UnsubscribeAt(k)
  BY DEF IInv, AtInv, At
<1>1. /\ MovesAlone(k) /\ pc[k] = "unLock" /\ UNCHANGED <<exists, chans, members, subs, called>>
      /\ \/ pc'[k] = "unDelete" /\ job'[k] = job[k]
         \/ /\ gen[G][job[k].u] # job[k].start
            /\ \/ pc'[k] = "idle" /\ (job[k].keep \/ job[k].chans = {})
               \/ pc'[k] = "unResub" /\ job'[k] = job[k]
  BY <1>0, UnLockDoes
<1>2. \A u : ~Joining(k, u)
  BY <1>1 DEF Joining, Added
<1>3. CASE pc'[k] \in {"unDelete", "unResub"} /\ job'[k] = job[k]
  <2>1. \A u : Parting(k, u) => Parting(k, u)'
    BY <1>1, <1>3 DEF Parting
  <2> QED
    BY <1>1, <1>2, <1>3, <2>1, HeldNothing, HeldLocal
<1>4. CASE /\ pc'[k] = "idle" /\ (job[k].keep \/ job[k].chans = {})
           /\ gen[G][job[k].u] # job[k].start
  <2>1. "subscribe" \in called
    BY <1>0, <1>1, <1>4 DEF UnsubscribeAt, Unsubscribing
  <2>2. "unsubscribe" \in called \/ "keep" \in called
    BY <1>1, Calls DEF AtInv, Leaving, InLeaving, Unsubscribing
  <2>3. "add" \notin called
    BY <2>1 DEF Gentle
  <2>4. chans[G] \subseteq job[k].chans
    BY <1>0, <1>1, <2>3 DEF UnsubscribeAt, InLeaving, Unsubscribing
  <2>5. Doomed => Doomed'
    BY <1>1 DEF Doomed, MovesAlone
  <2>6. \A u : Parting(k, u) => chans[G] = {}
    BY <1>4, <2>4 DEF Parting
  <2> QED
    BY <1>1, <1>2, <1>4, <2>1, <2>5, <2>6, HeldNothing, HeldFrame
<1> QED BY <1>1, <1>3, <1>4

LEMMA UnDeleteHeld ==
  ASSUME NEW k \in Callers, IInv, OneGroup, AtInv, HeldInv, Gentle, UnDelete(k)
  PROVE  HeldInv'
<1>0. /\ MovesAlone(k) /\ pc[k] = "unDelete" /\ UNCHANGED <<exists, chans, subs, called>>
      /\ \A u : u \in members'[G] <=> u \in members[G] /\ u # job[k].u
      /\ pc'[k] = "idle" \/ (pc'[k] = "unFinal" /\ job'[k] = job[k])
  BY UnDeleteDoes DEF IInv
<1>1. "unsubscribe" \in called \/ "keep" \in called
  BY <1>0, Calls DEF AtInv, Leaving, InLeaving, Unsubscribing
<1>2. Away'
  BY <1>0, <1>1 DEF Away
<1>3. Doomed => Doomed'
  BY <1>0 DEF Doomed, MovesAlone
<1>4. \A u \in members'[G] : ~Parting(k, u) /\ ~Joining(k, u)
  BY <1>0 DEF Parting, Joining, Added
<1>5. HeldAt(k)'
  <2>1. pc'[k] = "unFinal" => UnsubscribeHeld(k)'
    BY <1>0 DEF UnsubscribeHeld
  <2> QED
    BY <1>0, <2>1, HeldNothing, HeldUnsubscribe DEF Leaving, InLeaving
<1> QED
  BY <1>0, <1>2, <1>3, <1>4, <1>5, HeldFrame

\* A user who is to be subscribed again finds the channels of the group.
LEMMA UnResubHeld ==
  ASSUME NEW k \in Callers, IInv, OneGroup, AtInv, HeldInv, Gentle, UnResub(k)
  PROVE  HeldInv'
<1>0. /\ MovesAlone(k) /\ pc[k] \in {"unResub", "unRestore"} /\ pc'[k] = "idle"
      /\ UNCHANGED <<exists, chans, members, called>>
      /\ \A u, c : <<u, c>> \in subs' <=> <<u, c>> \in subs \/ (u = job[k].u /\ c \in job[k].chans)
  BY UnResubDoes DEF IInv
<1>1. Doomed => Doomed'
  BY <1>0 DEF Doomed, MovesAlone
<1>2. \A u : ~Joining(k, u)
  BY <1>0 DEF Joining, Added
<1>3. ASSUME NEW u \in members'[G], Parting(k, u)
      PROVE  "subscribe" \in called /\ \A c \in chans'[G] : <<u, c>> \in subs'
  <2>1. pc[k] = "unResub" /\ u = job[k].u
    BY <1>0, <1>3 DEF Parting
  <2>2. "subscribe" \in called
    BY <2>1 DEF AtInv, At, UnsubscribeAt
  <2>3. "add" \notin called
    BY <2>2 DEF Gentle
  <2>4. chans[G] \subseteq job[k].chans
    BY <2>1, <2>3 DEF AtInv, At, UnsubscribeAt, InLeaving
  <2> QED
    BY <1>0, <2>1, <2>2, <2>4
<1> QED
  BY <1>0, <1>1, <1>2, <1>3, HeldNothing, HeldFrame

LEMMA UnsubscribeStepsHeld ==
  ASSUME NEW k \in Callers, IInv, OneGroup, AtInv, HeldInv, Gentle
  PROVE  /\ UnStart(k) => HeldInv'
         /\ UnShared(k) => HeldInv'
         /\ ~UnCover(k)
         /\ UnFinal(k) => HeldInv'
<1>0. TypeOK /\ UnsubscribeHeld(k) /\ UnsubscribeAt(k) /\ (pc[k] = "unStart" => ~job[k].final)
  BY DEF IInv, LateInv, LateOf, HeldInv, AtInv, At
<1> DEFINE tame == /\ MovesAlone(k) /\ UNCHANGED <<exists, chans, members, subs, called>>
                   /\ pc[k] \in {"unStart", "unShared", "unFinal"}
                   /\ \/ pc'[k] \in {"idle", "unLock"}
                      \/ pc'[k] \in {"unShared", "unLeave"} /\ UnsubscribeHeld(k)'
<1>1. ASSUME tame PROVE HeldInv'
  <2>1. HeldAt(k)'
    BY <1>1, HeldNothing, HeldUnsubscribe DEF Leaving, InLeaving, Unsubscribing
  <2>2. \A u : ~Parting(k, u) /\ ~Joining(k, u)
    BY <1>1 DEF Parting, Joining, Added
  <2> QED
    BY <1>1, <2>1, <2>2, HeldLocal
<1>2. UnStart(k) => tame
  BY <1>0, UnStartDoes DEF UnsubscribeHeld
<1>3. UnShared(k) => tame
  BY <1>0, UnSharedDoes DEF UnsubscribeHeld
<1>4. ~UnCover(k)
  BY <1>0 DEF UnCover, UnsubscribeAt
<1>5. UnFinal(k) => tame
  BY <1>0, UnFinalDoes DEF UnsubscribeHeld
<1> HIDE DEF tame
<1> QED
  BY <1>1, <1>2, <1>3, <1>4, <1>5

LEMMA HeldUpdate ==
  ASSUME NEW k \in Callers, pc'[k] \in Updating, UpdateHeld(k)'
  PROVE  HeldAt(k)'
  BY DEF HeldAt, SubscribeHeld, UnsubscribeHeld, Updating, Added

LEMMA UpCommitHeld ==
  ASSUME NEW k \in Callers, IInv, OneGroup, AtInv, HeldInv, Gentle, UpCommit(k)
  PROVE  HeldInv'
<1>0. /\ MovesAlone(k) /\ pc[k] = "upCommit" /\ UNCHANGED <<exists, members, subs, called>>
      /\ pc'[k] \in {"idle", "upCheck"}
      /\ UNCHANGED chans \/ chans'[G] = (chans[G] \ job[k].remove) \cup job[k].chans
  BY UpCommitDoes DEF IInv
<1>1. \A u : ~Parting(k, u) /\ ~Joining(k, u)
  BY <1>0 DEF Parting, Joining, Added
<1>2. Doomed => Doomed'
  BY <1>0 DEF Doomed, MovesAlone
<1>3. HeldAt(k)'
  BY <1>0, HeldNothing
<1>4. CASE job[k].chans = {}
  BY <1>0, <1>1, <1>2, <1>3, <1>4, HeldFrame
<1>5. CASE job[k].chans # {}
  <2>1. "subscribe" \notin called
    BY <1>0, <1>5, GentleUpdates DEF Updating
  <2>2. \A u, c : Held(u, c) => Held(u, c)'
    BY <1>0, <1>1, HeldStays
  <2>3. MemberHeld'
    <3>1. \A u \in members[G], c \in job[k].chans : Held(u, c)
      BY <1>0 DEF HeldInv, UpdateHeld, BeforeCommit
    <3> QED
      BY <1>0, <2>2, <3>1 DEF HeldInv, MemberHeld
  <2>4. ASSUME NEW i \in Callers \ {k} PROVE HeldAt(i)'
    <3>1. pc'[i] = pc[i] /\ job'[i] = job[i] /\ UnsubscribeHeld(i) /\ UpdateHeld(i)
      BY <1>0 DEF MovesAlone, HeldInv
    <3>2. pc[i] \notin Subscribing
      BY <2>1, Calls DEF AtInv
    <3>3. SubscribeHeld(i)'
      BY <3>1, <3>2 DEF SubscribeHeld, Subscribing, Added
    <3>4. UnsubscribeHeld(i)'
      BY <1>0, <3>1 DEF UnsubscribeHeld
    <3>5. UpdateHeld(i)'
      BY <1>0, <2>2, <3>1 DEF UpdateHeld
    <3> QED
      BY <3>3, <3>4, <3>5 DEF HeldAt
  <2> QED
    BY <1>3, <2>3, <2>4 DEF HeldInv, HeldAt
<1> QED BY <1>4, <1>5

LEMMA UpdateStepsHeld ==
  ASSUME NEW k \in Callers, IInv, OneGroup, AtInv, HeldInv, Gentle
  PROVE  /\ UpMembers(k) => HeldInv'
         /\ UpEnter(k) => HeldInv'
         /\ UpCheck(k) => HeldInv'
         /\ UpClean(k) => HeldInv'
<1>0. TypeOK /\ UpdateHeld(k)
  BY DEF IInv, HeldInv
<1>1. ASSUME pc[k] \in Updating PROVE \A u : ~Parting(k, u) /\ ~Joining(k, u)
  BY <1>1 DEF Parting, Joining, Added, Updating
<1>2. ASSUME UpMembers(k) PROVE HeldInv'
  <2>0. /\ MovesAlone(k) /\ pc[k] = "upMembers"
        /\ UNCHANGED <<exists, chans, members, subs, called>>
        /\ job'[k].chans = job[k].chans /\ job'[k].target = job[k].target /\ job'[k].users = members[G]
        /\ \/ pc'[k] = "upCommit" /\ (job[k].target = {} \/ members[G] = {})
           \/ pc'[k] = "upEnter"
    BY <1>0, <1>2, UpMembersDoes
  <2>1. \A u : ~Parting(k, u) /\ ~Joining(k, u)
    BY <1>1, <2>0 DEF Updating
  <2>2. \A u, c : Held(u, c) => Held(u, c)'
    BY <2>0, <2>1, HeldStays
  <2>3. UpdateHeld(k)'
    BY <1>0, <2>0, <2>2 DEF UpdateHeld, BeforeCommit
  <2> QED
    BY <2>0, <2>1, <2>3, HeldUpdate, HeldLocal DEF Updating
<1>3. ASSUME UpEnter(k) PROVE HeldInv'
  <2>0. /\ MovesAlone(k) /\ pc[k] = "upEnter" /\ pc'[k] = "upCommit" /\ job'[k] = job[k]
        /\ UNCHANGED <<exists, chans, members, called>>
        /\ \A u, c : <<u, c>> \in subs' <=>
             <<u, c>> \in subs \/ (u \in job[k].users /\ c \in job[k].target)
    BY <1>0, <1>3, UpEnterDoes
  <2>1. subs \subseteq subs'
    <3>1. Enter(job[k].users, job[k].target)
      BY <1>3 DEF UpEnter
    <3> QED BY <3>1, EnterPairs
  <2>2. \A u : ~Parting(k, u) /\ ~Joining(k, u)
    BY <1>1, <2>0 DEF Updating
  <2>3. \A u, c : Held(u, c) => Held(u, c)'
    BY <2>0, <2>1, <2>2, HeldStays
  <2>4. \A u \in members[G], c \in job[k].target : Held(u, c)'
    BY <1>0, <2>0 DEF UpdateHeld, Held
  <2>5. UpdateHeld(k)'
    BY <1>0, <2>0, <2>3, <2>4 DEF UpdateHeld, BeforeCommit
  <2> QED
    BY <2>0, <2>1, <2>2, <2>5, HeldUpdate, HeldLocal DEF Updating
<1>4. ASSUME UpCheck(k) PROVE HeldInv'
  <2>0. /\ MovesAlone(k) /\ pc[k] = "upCheck"
        /\ UNCHANGED <<exists, chans, members, subs, called>>
        /\ pc'[k] = "idle" \/ (pc'[k] = "upClean" /\ job'[k].users = job[k].users \ members[G])
    BY <1>0, <1>4, UpCheckDoes
  <2>1. \A u : ~Parting(k, u) /\ ~Joining(k, u)
    BY <1>1, <2>0 DEF Updating
  <2>2. HeldAt(k)'
    <3>1. pc'[k] = "upClean" => UpdateHeld(k)'
      BY <2>0 DEF UpdateHeld, BeforeCommit
    <3> QED
      BY <2>0, <3>1, HeldNothing, HeldUpdate DEF Updating
  <2> QED
    BY <2>0, <2>1, <2>2, HeldLocal
<1>5. ASSUME UpClean(k) PROVE HeldInv'
  <2>0. /\ MovesAlone(k) /\ pc[k] = "upClean" /\ pc'[k] = "idle"
        /\ UNCHANGED <<exists, chans, members, called>>
        /\ \A u, c : <<u, c>> \in subs' <=>
             <<u, c>> \in subs /\ ~(u \in job[k].users /\ c \in job[k].target)
    BY <1>0, <1>5, UpCleanDoes
  <2>1. \A u : ~Parting(k, u) /\ ~Joining(k, u)
    BY <1>1, <2>0 DEF Updating
  <2>2. job[k].users \cap members[G] = {}
    BY <1>0, <2>0 DEF UpdateHeld
  <2>3. Doomed => Doomed'
    BY <2>0 DEF Doomed, MovesAlone
  <2> QED
    BY <2>0, <2>1, <2>2, <2>3, HeldNothing, HeldFrame
<1> QED BY <1>2, <1>3, <1>4, <1>5

LEMMA DeleteStepsHeld ==
  ASSUME NEW k \in Callers, IInv, OneGroup, AtInv, HeldInv, Gentle
  PROVE  /\ DelLock(k) \/ DelList(k) \/ DelEmpty(k) \/ DelDeactivate(k) => HeldInv'
         /\ DelRow(k) => HeldInv'
<1>1. ASSUME DelLock(k) \/ DelList(k) \/ DelEmpty(k) \/ DelDeactivate(k) PROVE HeldInv'
  <2>0. /\ MovesAlone(k) /\ UNCHANGED <<exists, chans, subs, called>>
        /\ pc[k] \in {"delLock", "delList", "delEmpty", "delDeactivate"}
        /\ pc'[k] \in {"idle"} \cup Deleting
        /\ \A u : u \in members'[G] => u \in members[G]
        /\ UNCHANGED members \/ pc'[k] = "delDeactivate"
        /\ pc[k] = "delDeactivate" => pc'[k] = "delRow"
    BY <1>1, DeletingDoes DEF Deleting
  <2>1. \A u : ~Parting(k, u) /\ ~Joining(k, u)
    BY <2>0 DEF Parting, Joining, Added
  <2>2. Doomed => Doomed'
    BY <2>0 DEF Doomed, MovesAlone
  <2>3. UNCHANGED members \/ Away'
    BY <2>0 DEF Away, Doomed
  <2>4. HeldAt(k)'
    BY <2>0, HeldNothing
  <2> QED
    BY <2>0, <2>1, <2>2, <2>3, <2>4, HeldFrame
<1>2. ASSUME DelRow(k) PROVE HeldInv'
  <2>0. /\ MovesAlone(k) /\ pc[k] = "delRow" /\ pc'[k] = "idle"
        /\ UNCHANGED <<members, subs, called>> /\ G \notin exists' /\ chans'[G] = {}
    BY <1>2, DelRowDoes DEF IInv
  <2>1. \A u : ~Parting(k, u) /\ ~Joining(k, u)
    BY <2>0 DEF Parting, Joining, Added
  <2>2. Doomed'
    BY <2>0 DEF Doomed
  <2> QED
    BY <2>0, <2>1, <2>2, HeldNothing, HeldFrame
<1> QED BY <1>1, <1>2

\* A call to add a channel finds the members in it, or has it in hand.
LEMMA CallHeld ==
  ASSUME NEW k \in Callers, IInv, OneGroup, AtInv, HeldInv, Gentle, Call(k)
  PROVE  HeldInv'
<1>0. /\ MovesAlone(k) /\ pc[k] = "idle" /\ BeginsAt(k)
      /\ UNCHANGED <<exists, chans, members, subs>> /\ called \subseteq called'
  BY CallDoes DEF IInv
<1>1. \A u : ~Parting(k, u) /\ ~Joining(k, u)
  BY <1>0 DEF Parting, Joining, Added
<1>2. HeldAt(k)'
  <2>1. CASE pc'[k] \in {"subLock", "unStart", "delLock"}
    BY <2>1, HeldNothing DEF Deleting
  <2>2. CASE /\ pc'[k] \in {"upMembers", "upCommit"}
             /\ job'[k].target = job'[k].chans \ chans[G]
             /\ pc'[k] = "upCommit" => job'[k].target = {}
    <3>1. \A u, c : Held(u, c) => Held(u, c)'
      BY <1>0, <1>1, HeldStays
    <3>2. \A u \in members[G], c \in chans[G] : Held(u, c)'
      BY <3>1 DEF HeldInv, MemberHeld
    <3>3. UpdateHeld(k)'
      BY <1>0, <2>2, <3>2 DEF UpdateHeld
    <3> QED
      BY <2>2, <3>3, HeldUpdate DEF Updating
  <2> QED
    BY <1>0, <2>1, <2>2 DEF BeginsAt
<1> QED
  BY <1>0, <1>1, <1>2, HeldLocal

LEMMA RefusedHeld ==
  ASSUME NEW k \in Callers, IInv, OneGroup, AtInv, HeldInv, Gentle, Refused(k)
  PROVE  HeldInv'
<1>0. /\ MovesAlone(k) /\ UNCHANGED <<exists, chans, members, subs, called>>
      /\ G \notin exists /\ pc'[k] \in {"idle", "undoChannels", "unRestore"}
  BY RefusedDoes, RefusedGone DEF IInv
<1>1. members[G] = {} /\ Doomed'
  BY <1>0, GoneEmpty DEF Doomed
<1> QED
  BY <1>0, <1>1, HeldNothing, HeldLocal

LEMMA HeldInit ==
  ASSUME Init, OneGroup
  PROVE  HeldInv
<1>1. \A k \in Callers : pc[k] = "idle"
  BY DEF Init
<1>2. \A k \in Callers : SubscribeHeld(k) /\ UnsubscribeHeld(k) /\ UpdateHeld(k)
  BY <1>1 DEF SubscribeHeld, UnsubscribeHeld, UpdateHeld, Added, BeforeCommit
<1>3. G \in Groups
  BY SetsAssumption DEF G
<1>4. ASSUME NEW u \in members[G], NEW c \in chans[G] PROVE <<u, c>> \in subs
  <2>1. u \in Users /\ c \in Channels
    BY <1>3 DEF Init
  <2> QED BY <1>3, <2>1 DEF Init
<1> QED
  BY <1>2, <1>4 DEF HeldInv, MemberHeld, Held

LEMMA HeldStep ==
  ASSUME IInv, OneGroup, MaxFaults = 0, AtInv, HeldInv, [Next]_vars
  PROVE  HeldInv'
<1> SUFFICES ASSUME Gentle' PROVE HeldInv'
  BY DEF HeldInv
<1>0. TypeOK /\ ops \in Nat
  BY SetsAssumption DEF IInv, TypeOK, TypeHistory
<1>1. CASE UNCHANGED vars
  BY <1>1 DEF vars, database, zulip, lock, callers, HeldInv, Gentle, MemberHeld, Held, Parts,
     Joining, Parting, SubscribeHeld, UnsubscribeHeld, UpdateHeld, Away, Doomed
<1>2. ASSUME NEW k \in Callers, Call(k) PROVE HeldInv'
  <2>1. ops' = ops + 1 /\ called \subseteq called'
    BY <1>0, <1>2, CallDoes
  <2>2. Gentle
    BY <1>0, <2>1, GentleBefore
  <2> QED
    BY <1>2, <2>2, CallHeld
<1>3. ASSUME NEW k \in Callers, Step(k) PROVE HeldInv'
  <2>1. UNCHANGED <<ops, called>>
    BY <1>3 DEF Step, SubLock, SubAdd, SubBump, SubRead, SubEnter, SubCheck, SubClean,
         UndoMember, UndoChannels, UnStart, UnShared, UnCover, UnLeave, UnLock, UnDelete, UnResub,
         UnFinal, UpMembers, UpEnter, UpCommit, UpCheck, UpClean, DelLock, DelList, DelEmpty,
         DelDeactivate, DelRestore, DelRow
  <2>2. Gentle
    BY <1>0, <2>1, GentleBefore
  <2> QED
    BY <1>3, <1>0, <2>2, SubAddHeld, SubReadHeld, SubscribeStepsHeld, UnLeaveHeld, UnLockHeld,
       UnDeleteHeld, UnResubHeld, UnsubscribeStepsHeld, UpCommitHeld, UpdateStepsHeld,
       DeleteStepsHeld, DeleteSteps DEF Step
<1>4. ASSUME NEW k \in Callers, Fails(k) \/ Refused(k) PROVE HeldInv'
  <2>1. Refused(k)
    BY <1>0, <1>4, NoFailure
  <2>2. UNCHANGED <<ops, called>>
    BY <1>0, <2>1, RefusedDoes
  <2>3. Gentle
    BY <1>0, <2>2, GentleBefore
  <2> QED
    BY <2>1, <2>3, RefusedHeld
<1> QED
  BY <1>1, <1>2, <1>3, <1>4 DEF Next

---------------------------------------------------------------------------
(* The steps keep nobody in a channel without membership.                   *)

\* What holds of the calls that have been made held before.
LEMMA TidyBefore ==
  ASSUME called \subseteq called', ops \in Nat, ops' \in Nat, ops <= ops', Tidy'
  PROVE  Tidy
<1>1. CASE \E together \in Companions : called' \subseteq together
  BY <1>1 DEF Tidy
<1>2. CASE ops' <= 2 /\ called' \subseteq {"unsubscribe", "add"}
  BY <1>2 DEF Tidy
<1> QED
  BY <1>1, <1>2 DEF Tidy

LEMMA TidyCalls ==
  ASSUME Tidy
  PROVE  /\ "subscribe" \in called => "remove" \notin called /\ "unsubscribe" \notin called
         /\ "delete" \in called => "add" \notin called /\ "unsubscribe" \notin called
         /\ "unsubscribe" \in called /\ "add" \in called =>
              ops <= 2 /\ called \subseteq {"unsubscribe", "add"}
  BY DEF Tidy, Companions

\* What the other callers have in hand stays in hand.
LEMMA OthersPend ==
  ASSUME NEW k \in Callers, MovesAlone(k), exists' \subseteq exists,
         NEW i \in Callers \ {k}, NEW u, NEW c
  PROVE  /\ ChannelPend(i, u, c) => ChannelPend(i, u, c)' /\ MemberPend(i, u, c)'
         /\ MemberPend(i, u, c) /\ (c \in chans[G] => c \in chans'[G]) => MemberPend(i, u, c)'
<1>1. pc'[i] = pc[i] /\ job'[i] = job[i]
  BY DEF MovesAlone
<1> QED
  BY <1>1 DEF ChannelPend, MemberPend, Adding, Comparing, Checking, Finishing

\* A pair that is in no channel of the group is in the hands of a caller.
LEMMA PairPends ==
  ASSUME NEW k \in Callers, MovesAlone(k), exists' \subseteq exists, LooseInv, Tidy,
         NEW u \in Users, NEW c \in Channels, Loose(u, c), c \notin chans[G],
         ~ChannelPend(k, u, c)
  PROVE  ChannelDue(u, c)' /\ MemberDue(u, c)'
<1>1. PICK i \in Callers : ChannelPend(i, u, c)
  BY DEF LooseInv, ChannelDue
<1>2. i \in Callers \ {k}
  BY <1>1
<1>3. ChannelPend(i, u, c)' /\ MemberPend(i, u, c)'
  BY <1>1, <1>2, OthersPend
<1> QED
  BY <1>3 DEF ChannelDue, MemberDue

LEMMA LooseFrame ==
  ASSUME NEW k \in Callers, MovesAlone(k), exists' \subseteq exists, LooseInv, Tidy,
         \A i \in Callers : LeftAt(i)',
         \A u \in Users, c \in Channels : Loose(u, c)' =>
           \/ ChannelDue(u, c)' /\ MemberDue(u, c)'
           \/ /\ Loose(u, c)
              /\ c \in chans[G] => c \in chans'[G]
              /\ ChannelPend(k, u, c) => c \in chans'[G] \/ ChannelPend(k, u, c)'
              /\ u \in members[G] \/ MemberPend(k, u, c) => u \in members'[G] \/ MemberPend(k, u, c)'
  PROVE  LooseInv'
<1>1. ASSUME NEW u \in Users, NEW c \in Channels, Loose(u, c)'
      PROVE  ChannelDue(u, c)' /\ MemberDue(u, c)'
  <2> SUFFICES ASSUME Loose(u, c), c \in chans[G] => c \in chans'[G],
                      ChannelPend(k, u, c) => c \in chans'[G] \/ ChannelPend(k, u, c)',
                      u \in members[G] \/ MemberPend(k, u, c) =>
                        u \in members'[G] \/ MemberPend(k, u, c)'
               PROVE  ChannelDue(u, c)' /\ MemberDue(u, c)'
    BY <1>1
  <2>1. ChannelDue(u, c) /\ MemberDue(u, c)
    BY DEF LooseInv
  <2>2. ChannelDue(u, c)'
    BY <2>1, OthersPend DEF ChannelDue
  <2>3. MemberDue(u, c)'
    BY <2>1, OthersPend DEF MemberDue
  <2> QED BY <2>2, <2>3
<1> QED
  BY <1>1 DEF LooseInv

\* An unsubscribe that has left its channels stays so, where no pair is new.
LEMMA LeftStays ==
  ASSUME NEW k \in Callers, MovesAlone(k), LooseInv, Tidy, LeftAt(k)',
         \A u, c : Loose(u, c)' => Loose(u, c)
  PROVE  \A i \in Callers : LeftAt(i)'
<1> SUFFICES ASSUME NEW i \in Callers \ {k} PROVE LeftAt(i)'
  OBVIOUS
<1>1. pc'[i] = pc[i] /\ job'[i] = job[i] /\ LeftAt(i)
  BY DEF MovesAlone, LooseInv
<1>2. \A u \in {job[i].u}, c \in job[i].chans :
        pc[i] \in {"unLock", "unDelete"} /\ ~job[i].keep => ~Loose(u, c)'
  BY <1>1 DEF LeftAt
<1> QED
  BY <1>1, <1>2 DEF LeftAt

\* A step of a caller that has nothing in hand, and takes from nobody.
LEMMA LooseLocal ==
  ASSUME NEW k \in Callers, MovesAlone(k), LooseInv, Tidy, UNCHANGED <<exists, chans, subs, kept>>,
         \A u \in members[G] : u \in members'[G],
         pc[k] \notin {"upCommit", "upCheck", "upClean", "subCheck", "subClean", "unFinal",
                       "unShared", "unLeave", "delDeactivate", "delRow"},
         LeftAt(k)'
  PROVE  LooseInv'
<1>1. \A u, c : ~MemberPend(k, u, c) /\ ~ChannelPend(k, u, c)
  BY DEF MemberPend, ChannelPend, Adding, Comparing, Checking, Finishing
<1>2. \A u, c : Loose(u, c)' <=> Loose(u, c)
  BY DEF Loose
<1>3. \A i \in Callers : LeftAt(i)'
  BY <1>2, LeftStays
<1> QED
  BY <1>1, <1>2, <1>3, LooseFrame

LEMMA LeftNothing ==
  ASSUME NEW k \in Callers, pc'[k] \notin {"unLock", "unDelete"}
  PROVE  LeftAt(k)'
  BY DEF LeftAt

LEMMA SubEnterLoose ==
  ASSUME NEW k \in Callers, IInv, OneGroup, AtInv, LooseInv, Tidy, SubEnter(k)
  PROVE  LooseInv'
<1>0. /\ MovesAlone(k) /\ pc[k] = "subEnter" /\ pc'[k] = "subCheck"
      /\ UNCHANGED <<exists, chans, members, kept>>
      /\ job'[k].u = job[k].u /\ job'[k].done = job[k].done \cup job[k].target
      /\ \A u, c : <<u, c>> \in subs' <=>
           <<u, c>> \in subs \/ (u = job[k].u /\ c \in job[k].target)
  BY SubEnterDoes DEF IInv
<1>1. "remove" \notin called /\ "unsubscribe" \notin called
  BY <1>0, Calls, TidyCalls DEF AtInv, Subscribing
<1>2. job[k].target \subseteq chans[G] \/ G \notin exists
  BY <1>0, <1>1 DEF AtInv, At, SubscribeAt
<1>3. \A i \in Callers : LeftAt(i)'
  <2>1. \A i \in Callers \ {k} : pc[i] \in {"unLock", "unDelete"} => job[i].keep
    BY <1>1, Calls DEF AtInv, Leaving, InLeaving, Unsubscribing
  <2> QED
    BY <1>0, <2>1 DEF LeftAt, MovesAlone
<1>4. ASSUME NEW u, NEW c, u = job[k].u, c \in job[k].target
      PROVE  ChannelDue(u, c)' /\ MemberDue(u, c)'
  <2>1. Checking(k, u, c)'
    BY <1>0, <1>4 DEF Checking
  <2> QED
    BY <1>0, <1>2, <1>4, <2>1 DEF ChannelDue, MemberDue, ChannelPend, MemberPend
<1>5. \A u, c : Loose(u, c)' => Loose(u, c) \/ (u = job[k].u /\ c \in job[k].target)
  BY <1>0 DEF Loose
<1>6. \A u, c : ~MemberPend(k, u, c) /\ ~ChannelPend(k, u, c)
  BY <1>0 DEF MemberPend, ChannelPend, Adding, Comparing, Checking, Finishing
<1> QED
  BY <1>0, <1>3, <1>4, <1>5, <1>6, LooseFrame

LEMMA SubscribeStepsLoose ==
  ASSUME NEW k \in Callers, IInv, OneGroup, AtInv, LooseInv, Tidy
  PROVE  /\ SubLock(k) => LooseInv'
         /\ SubAdd(k) => LooseInv'
         /\ SubBump(k) => LooseInv'
         /\ SubRead(k) => LooseInv'
         /\ SubCheck(k) => LooseInv'
         /\ SubClean(k) \/ UndoChannels(k) => LooseInv'
         /\ UndoMember(k) => LooseInv'
<1>0. TypeOK
  BY DEF IInv
<1>1. SubLock(k) => LooseInv'
  BY <1>0, SubLockDoes, LooseLocal, LeftNothing
<1>2. SubAdd(k) => LooseInv'
  BY <1>0, SubAddDoes, LooseLocal, LeftNothing
<1>3. SubBump(k) => LooseInv'
  BY <1>0, SubBumpDoes, LooseLocal, LeftNothing
<1>4. SubRead(k) => LooseInv'
  BY <1>0, SubReadDoes, LooseLocal, LeftNothing
<1>5. ASSUME SubCheck(k) PROVE LooseInv'
  <2>0. /\ MovesAlone(k) /\ pc[k] = "subCheck" /\ job'[k] = job[k]
        /\ UNCHANGED <<exists, chans, members, subs, kept>>
        /\ \/ pc'[k] = "subRead" /\ job[k].u \in members[G]
           \/ pc'[k] = "subClean" /\ job[k].u \notin members[G]
    BY <1>0, <1>5, SubCheckDoes
  <2>1. \A u, c : Loose(u, c)' <=> Loose(u, c)
    BY <2>0 DEF Loose
  <2>2. \A i \in Callers : LeftAt(i)'
    BY <2>0, <2>1, LeftStays, LeftNothing
  <2>3. ASSUME NEW u, NEW c
        PROVE  /\ ChannelPend(k, u, c) => ChannelPend(k, u, c)'
               /\ MemberPend(k, u, c) => u \in members[G] \/ MemberPend(k, u, c)'
    <3>1. CASE pc'[k] = "subRead" /\ job[k].u \in members[G]
      <4>1. G \in exists
        BY <3>1, GoneEmpty
      <4> QED
        BY <2>0, <3>1, <4>1 DEF ChannelPend, MemberPend, Adding, Comparing, Checking, Finishing
    <3>2. CASE pc'[k] = "subClean"
      BY <2>0, <3>2 DEF ChannelPend, MemberPend, Adding, Comparing, Checking, Finishing
    <3> QED BY <2>0, <3>1, <3>2
  <2> QED
    BY <2>0, <2>1, <2>2, <2>3, LooseFrame
<1>6. ASSUME SubClean(k) \/ UndoChannels(k) PROVE LooseInv'
  <2>0. /\ MovesAlone(k) /\ pc[k] \in {"subClean", "undoChannels"} /\ pc'[k] = "idle"
        /\ UNCHANGED <<exists, chans, members>>
        /\ \A u, c : <<u, c>> \in subs' <=>
             <<u, c>> \in subs /\ ~(u = job[k].u /\ c \in job[k].done)
        /\ \A u, c : <<u, c>> \in kept' <=>
             <<u, c>> \in kept /\ ~(u = job[k].u /\ c \in job[k].done)
    BY <1>0, <1>6, SubLeavesDoes
  <2>1. \A u, c : Loose(u, c)' => Loose(u, c) /\ ~(u = job[k].u /\ c \in job[k].done)
    BY <2>0 DEF Loose
  <2>2. \A i \in Callers : LeftAt(i)'
    BY <2>0, <2>1, LeftStays, LeftNothing
  <2>3. \A u, c : MemberPend(k, u, c) \/ ChannelPend(k, u, c) => u = job[k].u /\ c \in job[k].done
    BY <2>0 DEF MemberPend, ChannelPend, Adding, Comparing, Checking, Finishing
  <2> QED
    BY <2>0, <2>1, <2>2, <2>3, LooseFrame
<1>7. ASSUME UndoMember(k) PROVE LooseInv'
  <2>0. /\ MovesAlone(k) /\ pc[k] = "undoMember" /\ pc'[k] = "undoChannels"
        /\ UNCHANGED <<exists, chans, subs, kept>>
    BY <1>0, <1>7, UndoMemberDoes
  <2>1. members[G] = {}
    BY <2>0, GoneEmpty DEF AtInv, At, SubscribeAt, Undoing
  <2> QED
    BY <2>0, <2>1, LooseLocal, LeftNothing
<1> QED BY <1>1, <1>2, <1>3, <1>4, <1>5, <1>6, <1>7

LEMMA UnLeaveLoose ==
  ASSUME NEW k \in Callers, IInv, OneGroup, AtInv, LooseInv, Tidy, UnLeave(k)
  PROVE  LooseInv'
<1>0. /\ TypeOK /\ pc[k] = "unLeave" /\ job[k].covered = {}
      /\ ~job[k].final => job[k].target = job[k].chans
  BY DEF IInv, UnLeave, AtInv, At, UnsubscribeAt
<1>1. /\ MovesAlone(k) /\ UNCHANGED <<exists, chans, members>>
      /\ \A u, c : <<u, c>> \in subs' <=>
           <<u, c>> \in subs /\ ~(u = job[k].u /\ c \in job[k].target)
      /\ \A u, c : <<u, c>> \in kept' <=>
           <<u, c>> \in kept /\ ~(u = job[k].u /\ c \in job[k].target)
      /\ \/ pc'[k] = "idle" /\ job[k].final
         \/ pc'[k] = "unLock" /\ ~job[k].final /\ job'[k].u = job[k].u /\ job'[k].chans = job[k].chans
  BY <1>0, UnLeaveDoes
<1>2. \A u, c : Loose(u, c)' => Loose(u, c) /\ ~(u = job[k].u /\ c \in job[k].target)
  BY <1>1 DEF Loose
<1>3. LeftAt(k)'
  <2>1. CASE pc'[k] = "idle"
    BY <2>1, LeftNothing
  <2>2. CASE ~job[k].final /\ job'[k].u = job[k].u /\ job'[k].chans = job[k].chans
    <3>1. \A u \in {job'[k].u}, c \in job'[k].chans : ~Loose(u, c)'
      BY <1>0, <1>2, <2>2
    <3> QED BY <3>1 DEF LeftAt
  <2> QED BY <1>1, <2>1, <2>2
<1>4. \A i \in Callers : LeftAt(i)'
  BY <1>1, <1>2, <1>3, LeftStays
<1>5. \A u, c : MemberPend(k, u, c) \/ ChannelPend(k, u, c) => u = job[k].u /\ c \in job[k].target
  BY <1>0 DEF MemberPend, ChannelPend, Adding, Comparing, Checking, Finishing
<1> QED
  BY <1>1, <1>2, <1>4, <1>5, LooseFrame

\* Who is deleted has left the channels read, and finishes with those added meanwhile.
LEMMA UnDeleteLoose ==
  ASSUME NEW k \in Callers, IInv, OneGroup, AtInv, LooseInv, Tidy, UnDelete(k)
  PROVE  LooseInv'
<1>0. /\ TypeOK /\ MovesAlone(k) /\ pc[k] = "unDelete" /\ UNCHANGED <<exists, chans, subs>>
      /\ \A u : u \in members'[G] <=> u \in members[G] /\ u # job[k].u
      /\ \A u, c : <<u, c>> \in kept' <=>
           \/ <<u, c>> \in kept
           \/ job[k].keep /\ <<u, c>> \in subs /\ u = job[k].u /\ c \in chans[G]
      /\ \/ pc'[k] = "idle" /\ (job[k].u \notin members[G] \/ job[k].keep)
         \/ pc'[k] = "unFinal" /\ job'[k] = job[k] /\ ~job[k].keep
  BY UnDeleteDoes DEF IInv
<1>1. \A u, c : Loose(u, c)' => Loose(u, c) /\ ~(job[k].keep /\ u = job[k].u /\ c \in chans[G])
  BY <1>0 DEF Loose
<1>2. \A i \in Callers : LeftAt(i)'
  BY <1>0, <1>1, LeftStays, LeftNothing
<1>3. \A u, c : ~MemberPend(k, u, c) /\ ~ChannelPend(k, u, c)
  BY <1>0 DEF MemberPend, ChannelPend, Adding, Comparing, Checking, Finishing
<1>4. ASSUME NEW u \in Users, NEW c \in Channels, Loose(u, c)', u = job[k].u, u \in members[G]
      PROVE  ChannelDue(u, c)' /\ MemberDue(u, c)'
  <2>1. CASE c \notin chans[G]
    BY <1>0, <1>1, <1>3, <1>4, <2>1, PairPends
  <2>2. CASE c \in chans[G]
    <3>1. ~job[k].keep /\ pc'[k] = "unFinal" /\ job'[k] = job[k]
      BY <1>0, <1>1, <1>4, <2>2
    <3>2. c \notin job[k].chans
      BY <1>0, <1>1, <1>4, <3>1 DEF LooseInv, LeftAt
    <3>3. MemberPend(k, u, c)'
      BY <1>0, <1>4, <2>2, <3>1, <3>2 DEF MemberPend, Finishing
    <3> QED
      BY <1>0, <2>2, <3>3 DEF ChannelDue, MemberDue
  <2> QED BY <2>1, <2>2
<1> QED
  BY <1>0, <1>1, <1>2, <1>3, <1>4, LooseFrame

LEMMA UnsubscribeStepsLoose ==
  ASSUME NEW k \in Callers, IInv, OneGroup, AtInv, LooseInv, Tidy
  PROVE  /\ UnStart(k) => LooseInv'
         /\ UnShared(k) => LooseInv'
         /\ ~UnCover(k)
         /\ UnLock(k) => LooseInv'
         /\ ~UnResub(k)
         /\ UnFinal(k) => LooseInv'
<1>0. TypeOK /\ UnsubscribeAt(k) /\ (pc[k] = "unStart" => ~job[k].final)
  BY DEF IInv, LateInv, LateOf, AtInv, At
<1>1. ASSUME UnStart(k) PROVE LooseInv'
  <2>0. /\ MovesAlone(k) /\ pc[k] = "unStart"
        /\ UNCHANGED <<exists, chans, members, subs, kept>>
        /\ job'[k].keep = job[k].keep /\ job'[k].chans = job[k].chans
        /\ \/ pc'[k] = "unLock" /\ (job[k].keep \/ job[k].chans = {})
           \/ pc'[k] = "unShared" /\ ~job[k].keep
    BY <1>0, <1>1, UnStartDoes
  <2>1. LeftAt(k)'
    BY <2>0 DEF LeftAt
  <2> QED
    BY <2>0, <2>1, LooseLocal
<1>2. ASSUME UnShared(k) PROVE LooseInv'
  <2>0. /\ MovesAlone(k) /\ pc[k] = "unShared" /\ pc'[k] = "unLeave"
        /\ UNCHANGED <<exists, chans, members, subs, kept>>
        /\ job'[k].u = job[k].u /\ job'[k].final = job[k].final /\ job'[k].target = job[k].target
    BY <1>0, <1>2, UnSharedDoes
  <2>1. \A u, c : Loose(u, c)' <=> Loose(u, c)
    BY <2>0 DEF Loose
  <2>2. \A i \in Callers : LeftAt(i)'
    BY <2>0, <2>1, LeftStays, LeftNothing
  <2>3. \A u, c : ~ChannelPend(k, u, c) /\ (MemberPend(k, u, c) => MemberPend(k, u, c)')
    BY <2>0 DEF MemberPend, ChannelPend, Adding, Comparing, Checking, Finishing
  <2> QED
    BY <2>0, <2>1, <2>2, <2>3, LooseFrame
<1>3. ~UnCover(k)
  BY <1>0 DEF UnCover, UnsubscribeAt
<1>4. ASSUME UnLock(k) PROVE LooseInv'
  <2>0. /\ MovesAlone(k) /\ pc[k] = "unLock"
        /\ UNCHANGED <<exists, chans, members, subs, kept>>
        /\ pc'[k] \in {"idle", "unResub"} \/ (pc'[k] = "unDelete" /\ job'[k] = job[k])
    BY <1>0, <1>4, UnLockDoes
  <2>1. LeftAt(k)'
    BY <2>0 DEF LeftAt, LooseInv, Loose
  <2> QED
    BY <2>0, <2>1, LooseLocal
<1>5. ~UnResub(k)
  <2>1. SUFFICES ASSUME pc[k] \in {"unResub", "unRestore"} PROVE FALSE
    BY DEF UnResub
  <2>2. ~job[k].keep /\ (pc[k] = "unResub" => "subscribe" \in called)
    BY <1>0, <2>1 DEF UnsubscribeAt
  <2>3. pc[k] = "unRestore" => "delete" \in called
    BY <1>0 DEF UnsubscribeAt, AtInv, GoneInv
  <2>4. "unsubscribe" \in called
    BY <2>1, <2>2, Calls DEF AtInv, Leaving, InLeaving
  <2> QED
    BY <2>1, <2>2, <2>3, <2>4, TidyCalls
<1>6. ASSUME UnFinal(k) PROVE LooseInv'
  <2>0. /\ MovesAlone(k) /\ pc[k] = "unFinal"
        /\ UNCHANGED <<exists, chans, members, subs, kept>>
        /\ \/ pc'[k] = "idle" /\ (G \notin exists \/ chans[G] \subseteq job[k].chans)
           \/ /\ pc'[k] = "unShared" /\ job'[k].u = job[k].u
              /\ job'[k].final /\ job'[k].target = chans[G] \ job[k].chans
    BY <1>0, <1>6, UnFinalDoes
  <2>1. \A u, c : Loose(u, c)' <=> Loose(u, c)
    BY <2>0 DEF Loose
  <2>2. \A i \in Callers : LeftAt(i)'
    BY <2>0, <2>1, LeftStays, LeftNothing
  <2>3. G \notin exists => chans[G] = {}
    BY DEF AtInv, GoneInv
  <2>4. \A u, c : ~ChannelPend(k, u, c) /\ (MemberPend(k, u, c) => MemberPend(k, u, c)')
    BY <2>0, <2>3 DEF MemberPend, ChannelPend, Adding, Comparing, Checking, Finishing
  <2> QED
    BY <2>0, <2>1, <2>2, <2>4, LooseFrame
<1> QED BY <1>1, <1>2, <1>3, <1>4, <1>5, <1>6

LEMMA UpEnterLoose ==
  ASSUME NEW k \in Callers, IInv, OneGroup, AtInv, LooseInv, Tidy, UpEnter(k)
  PROVE  LooseInv'
<1>0. /\ TypeOK /\ MovesAlone(k) /\ pc[k] = "upEnter" /\ pc'[k] = "upCommit" /\ job'[k] = job[k]
      /\ UNCHANGED <<exists, chans, members, kept>>
      /\ \A u, c : <<u, c>> \in subs' <=>
           <<u, c>> \in subs \/ (u \in job[k].users /\ c \in job[k].target)
  BY UpEnterDoes DEF IInv
<1>1. \A u, c : Loose(u, c)' => Loose(u, c) \/ (u \in job[k].users /\ c \in job[k].target)
  BY <1>0 DEF Loose
<1>2. ASSUME NEW i \in Callers \ {k}, pc[i] \in {"unLock", "unDelete"}, ~job[i].keep
      PROVE  job[k].target \cap job[i].chans = {}
  <2>1. UpdateAt(k) /\ UnsubscribeAt(i)
    BY DEF AtInv, At
  <2>2. "add" \in called
    BY <1>0, <2>1, Calls DEF AtInv, UpdateAt, Updating
  <2>3. "unsubscribe" \in called
    BY <1>2, Calls DEF AtInv, Leaving, InLeaving, Unsubscribing
  <2>4. ops <= 2 /\ called \subseteq {"unsubscribe", "add"}
    BY <2>2, <2>3, TidyCalls
  <2>5. job[i].chans \subseteq chans[G]
    BY <1>2, <2>1, <2>4 DEF UnsubscribeAt, InLeaving, Unsubscribing
  <2>6. job[k].target \cap chans[G] = {}
    BY <1>0, <2>1, <2>3, <2>4 DEF UpdateAt, BeforeCommit
  <2> QED BY <2>5, <2>6
<1>3. ASSUME NEW i \in Callers PROVE LeftAt(i)'
  <2>1. CASE i = k
    BY <1>0, <2>1, LeftNothing
  <2>2. CASE i # k
    <3>1. pc'[i] = pc[i] /\ job'[i] = job[i] /\ LeftAt(i)
      BY <1>0, <2>2 DEF MovesAlone, LooseInv
    <3>2. \A u \in {job[i].u}, c \in job[i].chans :
            pc[i] \in {"unLock", "unDelete"} /\ ~job[i].keep => ~Loose(u, c)'
      BY <1>1, <1>2, <2>2, <3>1 DEF LeftAt
    <3> QED BY <3>1, <3>2 DEF LeftAt
  <2> QED BY <2>1, <2>2
<1>4. \A u, c : u \in job[k].users /\ c \in job[k].target =>
        ChannelPend(k, u, c)' /\ MemberPend(k, u, c)'
  BY <1>0 DEF MemberPend, ChannelPend, Adding
<1>5. \A u, c : u \in job[k].users /\ c \in job[k].target => ChannelDue(u, c)' /\ MemberDue(u, c)'
  BY <1>4 DEF ChannelDue, MemberDue
<1>6. \A u, c : ~MemberPend(k, u, c) /\ ~ChannelPend(k, u, c)
  BY <1>0 DEF MemberPend, ChannelPend, Adding, Comparing, Checking, Finishing
<1> QED
  BY <1>0, <1>1, <1>3, <1>5, <1>6, LooseFrame

LEMMA UpCommitLoose ==
  ASSUME NEW k \in Callers, IInv, OneGroup, AtInv, LooseInv, Tidy, UpCommit(k)
  PROVE  LooseInv'
<1>0. TypeOK /\ UpdateAt(k)
  BY DEF IInv, AtInv, At
<1>1. ASSUME G \notin exists PROVE LooseInv'
  <2>0. /\ MovesAlone(k) /\ pc[k] = "upCommit" /\ pc'[k] = "idle"
        /\ UNCHANGED <<exists, chans, members, subs, kept>>
    BY <1>0, <1>1, UpCommitDoes
  <2>1. "delete" \in called
    BY <1>1 DEF AtInv, GoneInv
  <2>2. job[k].target = {}
    BY <1>0, <2>0, <2>1, Calls, TidyCalls DEF AtInv, UpdateAt, Updating
  <2>3. \A u, c : Loose(u, c)' <=> Loose(u, c)
    BY <2>0 DEF Loose
  <2>4. \A i \in Callers : LeftAt(i)'
    BY <2>0, <2>3, LeftStays, LeftNothing
  <2>5. \A u, c : ~MemberPend(k, u, c) /\ ~ChannelPend(k, u, c)
    BY <2>0, <2>2 DEF MemberPend, ChannelPend, Adding, Comparing, Checking, Finishing
  <2> QED
    BY <2>0, <2>3, <2>4, <2>5, LooseFrame
<1>2. ASSUME G \in exists PROVE LooseInv'
  <2>0. /\ MovesAlone(k) /\ pc[k] = "upCommit" /\ UNCHANGED <<exists, members, subs>>
        /\ chans'[G] = (chans[G] \ job[k].remove) \cup job[k].chans
        /\ \A u, c : <<u, c>> \in kept' <=>
             \/ <<u, c>> \in kept
             \/ <<u, c>> \in subs /\ c \in chans[G] \cap job[k].remove /\ c \notin job[k].chans
        /\ \/ pc'[k] = "idle" /\ (job[k].target = {} \/ job[k].users = {})
           \/ pc'[k] = "upCheck" /\ job'[k] = job[k]
    BY <1>0, <1>2, UpCommitDoes
  <2>1. \A u, c : Loose(u, c)' => Loose(u, c) /\ (c \in chans[G] => c \in chans'[G])
    BY <2>0 DEF Loose
  <2>2. \A i \in Callers : LeftAt(i)'
    BY <2>0, <2>1, LeftStays, LeftNothing
  <2>3. \A u, c : /\ ChannelPend(k, u, c) => c \in job[k].target
                  /\ MemberPend(k, u, c) => MemberPend(k, u, c)'
    BY <2>0 DEF MemberPend, ChannelPend, Adding, Comparing, Checking, Finishing
  <2>4. job[k].target \subseteq chans'[G]
    BY <1>0, <2>0 DEF UpdateAt, Updating
  <2> QED
    BY <2>0, <2>1, <2>2, <2>3, <2>4, LooseFrame
<1> QED BY <1>1, <1>2

LEMMA UpdateStepsLoose ==
  ASSUME NEW k \in Callers, IInv, OneGroup, AtInv, LooseInv, Tidy
  PROVE  /\ UpMembers(k) => LooseInv'
         /\ UpCheck(k) => LooseInv'
         /\ UpClean(k) => LooseInv'
<1>0. TypeOK
  BY DEF IInv
<1>1. UpMembers(k) => LooseInv'
  BY <1>0, UpMembersDoes, LooseLocal, LeftNothing
<1>2. ASSUME UpCheck(k) PROVE LooseInv'
  <2>0. /\ MovesAlone(k) /\ pc[k] = "upCheck"
        /\ UNCHANGED <<exists, chans, members, subs, kept>>
        /\ \/ pc'[k] = "idle" /\ job[k].users \subseteq members[G]
           \/ /\ pc'[k] = "upClean" /\ job'[k].users = job[k].users \ members[G]
              /\ job'[k].target = job[k].target
    BY <1>0, <1>2, UpCheckDoes
  <2>1. \A u, c : Loose(u, c)' <=> Loose(u, c)
    BY <2>0 DEF Loose
  <2>2. \A i \in Callers : LeftAt(i)'
    BY <2>0, <2>1, LeftStays, LeftNothing
  <2>3. \A u, c : /\ ~ChannelPend(k, u, c)
                  /\ MemberPend(k, u, c) => u \in members[G] \/ MemberPend(k, u, c)'
    BY <2>0 DEF MemberPend, ChannelPend, Adding, Comparing, Checking, Finishing
  <2> QED
    BY <2>0, <2>1, <2>2, <2>3, LooseFrame
<1>3. ASSUME UpClean(k) PROVE LooseInv'
  <2>0. /\ MovesAlone(k) /\ pc[k] = "upClean" /\ pc'[k] = "idle"
        /\ UNCHANGED <<exists, chans, members>>
        /\ \A u, c : <<u, c>> \in subs' <=>
             <<u, c>> \in subs /\ ~(u \in job[k].users /\ c \in job[k].target)
        /\ \A u, c : <<u, c>> \in kept' <=>
             <<u, c>> \in kept /\ ~(u \in job[k].users /\ c \in job[k].target)
    BY <1>0, <1>3, UpCleanDoes
  <2>1. \A u, c : Loose(u, c)' => Loose(u, c) /\ ~(u \in job[k].users /\ c \in job[k].target)
    BY <2>0 DEF Loose
  <2>2. \A i \in Callers : LeftAt(i)'
    BY <2>0, <2>1, LeftStays, LeftNothing
  <2>3. \A u, c : MemberPend(k, u, c) \/ ChannelPend(k, u, c) =>
          u \in job[k].users /\ c \in job[k].target
    BY <2>0 DEF MemberPend, ChannelPend, Adding, Comparing, Checking, Finishing
  <2> QED
    BY <2>0, <2>1, <2>2, <2>3, LooseFrame
<1> QED BY <1>1, <1>2, <1>3

LEMMA DeleteStepsLoose ==
  ASSUME NEW k \in Callers, IInv, OneGroup, AtInv, LooseInv, Tidy
  PROVE  /\ DelLock(k) \/ DelList(k) \/ DelEmpty(k) \/ DelDeactivate(k) => LooseInv'
         /\ DelRow(k) => LooseInv'
<1>1. ASSUME DelLock(k) \/ DelList(k) \/ DelEmpty(k) \/ DelDeactivate(k) PROVE LooseInv'
  <2>0. /\ MovesAlone(k) /\ UNCHANGED <<exists, chans, subs, kept>>
        /\ \/ /\ pc[k] \in {"delLock", "delList"} /\ UNCHANGED members
              /\ pc'[k] \in {"delList", "delEmpty", "delDeactivate"}
           \/ pc[k] = "delEmpty" /\ (pc'[k] = "delDeactivate" \/ (pc'[k] = "idle" /\ UNCHANGED members))
           \/ pc[k] = "delDeactivate" /\ pc'[k] = "delRow" /\ UNCHANGED members
    BY <1>1, DeletingDoes
  <2>1. \A u, c : Loose(u, c)' <=> Loose(u, c)
    BY <2>0 DEF Loose
  <2>2. \A i \in Callers : LeftAt(i)'
    BY <2>0, <2>1, LeftStays, LeftNothing
  <2>3. \A u, c : /\ ~ChannelPend(k, u, c)
                  /\ u \in members[G] \/ MemberPend(k, u, c) =>
                       u \in members'[G] \/ MemberPend(k, u, c)'
    BY <2>0 DEF MemberPend, ChannelPend, Adding, Comparing, Checking, Finishing
  <2> QED
    BY <2>0, <2>1, <2>2, <2>3, LooseFrame
<1>2. ASSUME DelRow(k) PROVE LooseInv'
  <2>0. /\ MovesAlone(k) /\ pc[k] = "delRow" /\ pc'[k] = "idle" /\ exists' \subseteq exists
        /\ UNCHANGED <<members, subs>>
        /\ \A u, c : <<u, c>> \in kept' <=>
             <<u, c>> \in kept \/ (<<u, c>> \in subs /\ c \in chans[G])
    BY <1>2, DelRowDoes DEF IInv
  <2>1. \A u, c : Loose(u, c)' => Loose(u, c) /\ c \notin chans[G]
    BY <2>0 DEF Loose
  <2>2. \A i \in Callers : LeftAt(i)'
    BY <2>0, <2>1, LeftStays, LeftNothing
  <2>3. \A u, c : ~ChannelPend(k, u, c)
    BY <2>0 DEF ChannelPend, Adding, Checking
  <2>4. \A u \in Users, c \in Channels : Loose(u, c)' => ChannelDue(u, c)' /\ MemberDue(u, c)'
    BY <2>0, <2>1, <2>3, PairPends
  <2> QED
    BY <2>0, <2>2, <2>4, LooseFrame
<1> QED BY <1>1, <1>2

LEMMA CallLoose ==
  ASSUME NEW k \in Callers, IInv, OneGroup, AtInv, LooseInv, Tidy, Call(k)
  PROVE  LooseInv'
<1>0. /\ MovesAlone(k) /\ pc[k] = "idle" /\ BeginsAt(k)
      /\ UNCHANGED <<exists, chans, members, subs, kept>>
  BY CallDoes DEF IInv
<1>1. pc'[k] \notin {"unLock", "unDelete"}
  BY <1>0 DEF BeginsAt
<1> QED
  BY <1>0, <1>1, LooseLocal, LeftNothing

\* A deletion that is refused, as another has deleted the group, leaves nothing over.
LEMMA RefusedLoose ==
  ASSUME NEW k \in Callers, IInv, OneGroup, AtInv, LooseInv, Tidy, Refused(k)
  PROVE  LooseInv'
<1>0. /\ MovesAlone(k) /\ UNCHANGED <<exists, chans, members, subs, kept>>
      /\ G \notin exists /\ pc[k] \in {"undoMember", "unDelete", "delDeactivate"}
      /\ pc'[k] \in {"idle", "undoChannels", "unRestore"}
  BY RefusedDoes, RefusedGone DEF IInv
<1>1. chans[G] = {}
  BY <1>0 DEF AtInv, GoneInv
<1>2. \A u, c : Loose(u, c)' <=> Loose(u, c)
  BY <1>0 DEF Loose
<1>3. \A i \in Callers : LeftAt(i)'
  BY <1>0, <1>2, LeftStays, LeftNothing
<1>4. \A u, c : ~ChannelPend(k, u, c)
  BY <1>0 DEF ChannelPend, Adding, Checking
<1>5. \A u \in Users, c \in Channels : Loose(u, c)' => ChannelDue(u, c)' /\ MemberDue(u, c)'
  BY <1>0, <1>1, <1>2, <1>4, PairPends
<1> QED
  BY <1>0, <1>3, <1>5, LooseFrame

LEMMA LooseInit ==
  ASSUME Init, OneGroup
  PROVE  LooseInv
<1>1. \A k \in Callers : pc[k] = "idle"
  BY DEF Init
<1>2. \A k \in Callers : LeftAt(k)
  BY <1>1 DEF LeftAt
<1>3. ASSUME NEW u \in Users, NEW c \in Channels, Loose(u, c)
      PROVE  ChannelDue(u, c) /\ MemberDue(u, c)
  <2>1. PICK g \in Groups : u \in members[g] /\ c \in chans[g]
    BY <1>3 DEF Init, Loose
  <2> QED
    BY <2>1 DEF OneGroup, ChannelDue, MemberDue
<1> QED
  BY <1>2, <1>3 DEF LooseInv

\* Requests and transactions count no call.
LEMMA StepCounts ==
  ASSUME NEW k \in Callers, Step(k)
  PROVE  UNCHANGED <<ops, called>>
  BY DEF Step, SubLock, SubAdd, SubBump, SubRead, SubEnter, SubCheck, SubClean,
     UndoMember, UndoChannels, UnStart, UnShared, UnCover, UnLeave, UnLock, UnDelete, UnResub,
     UnFinal, UpMembers, UpEnter, UpCommit, UpCheck, UpClean, DelLock, DelList, DelEmpty,
     DelDeactivate, DelRestore, DelRow

LEMMA LooseStep ==
  ASSUME IInv, OneGroup, MaxFaults = 0, AtInv, LooseInv, [Next]_vars
  PROVE  LooseInv'
<1> SUFFICES ASSUME Tidy' PROVE LooseInv'
  BY DEF LooseInv
<1>0. TypeOK /\ ops \in Nat
  BY SetsAssumption DEF IInv, TypeOK, TypeHistory
<1>1. CASE UNCHANGED vars
  BY <1>1 DEF vars, database, zulip, lock, callers, LooseInv, Tidy, Loose, ChannelDue, MemberDue,
     ChannelPend, MemberPend, Adding, Comparing, Checking, Finishing, LeftAt
<1>2. ASSUME NEW k \in Callers, Call(k) PROVE LooseInv'
  <2>1. ops' = ops + 1 /\ called \subseteq called'
    BY <1>0, <1>2, CallDoes
  <2>2. Tidy
    BY <1>0, <2>1, TidyBefore
  <2> QED
    BY <1>2, <2>2, CallLoose
<1>3. ASSUME NEW k \in Callers, Step(k) PROVE LooseInv'
  <2>1. Tidy
    BY <1>0, <1>3, StepCounts, TidyBefore
  <2> QED
    BY <1>3, <2>1, SubEnterLoose, SubscribeStepsLoose, UnLeaveLoose, UnDeleteLoose,
       UnsubscribeStepsLoose, UpEnterLoose, UpCommitLoose, UpdateStepsLoose, DeleteStepsLoose,
       DeleteSteps DEF Step
<1>4. ASSUME NEW k \in Callers, Fails(k) \/ Refused(k) PROVE LooseInv'
  <2>1. Refused(k)
    BY <1>0, <1>4, NoFailure
  <2>2. Tidy
    BY <1>0, <2>1, RefusedDoes, TidyBefore
  <2> QED
    BY <2>1, <2>2, RefusedLoose
<1> QED
  BY <1>1, <1>2, <1>3, <1>4 DEF Next

---------------------------------------------------------------------------
(* What is left when no call is in progress.                                *)

ManyInv == IInv /\ AtInv /\ HeldInv /\ LooseInv

LEMMA ManyAlways ==
  ASSUME OneGroup, MaxFaults = 0
  PROVE  Spec => []ManyInv
<1>1. Init => ManyInv
  BY InvInit, AtInit, HeldInit, LooseInit DEF ManyInv
<1>2. ManyInv /\ [Next]_vars => ManyInv'
  BY InvStep, AtStep, HeldStep, LooseStep DEF ManyInv
<1> QED
  BY <1>1, <1>2, PTL DEF Spec

\* With every caller idle nobody is on the way in or out, and nothing is in hand.
LEMMA QuietSubscribed ==
  ASSUME OneGroup, ManyInv, Quiet, Gentle
  PROVE  Subscribed
<1>1. \A k \in Callers : \A u : ~Joining(k, u) /\ ~Parting(k, u)
  BY DEF Quiet, Joining, Parting, Added
<1>2. \A u \in members[G], c \in chans[G] : <<u, c>> \in subs
  BY <1>1 DEF ManyInv, HeldInv, MemberHeld, Held, Parts
<1> QED
  BY <1>2 DEF Subscribed, OneGroup

LEMMA QuietJustified ==
  ASSUME OneGroup, ManyInv, Quiet, Tidy, NEW s \in subs \ kept
  PROVE  Justified(s)
<1>1. PICK u \in Users, c \in Channels : s = <<u, c>>
  BY DEF ManyInv, IInv, TypeOK, TypeZulip
<1>2. Loose(u, c)
  BY <1>1 DEF Loose
<1>3. \A k \in Callers : ~ChannelPend(k, u, c) /\ ~MemberPend(k, u, c)
  BY DEF Quiet, ChannelPend, MemberPend, Adding, Comparing, Checking, Finishing
<1>4. c \in chans[G] /\ u \in members[G]
  BY <1>2, <1>3 DEF ManyInv, LooseInv, ChannelDue, MemberDue
<1>5. G \in Groups
  BY SetsAssumption DEF G
<1> QED
  BY <1>1, <1>4, <1>5 DEF Justified

\* Two calls are gentle unless one subscribes and the other adds,
LEMMA PairsGentle ==
  ASSUME ManyInv, ops <= 2, ~ ({"subscribe", "add"} \subseteq called)
  PROVE  Gentle
<1>1. called \subseteq AllOperations
  BY SetsAssumption DEF ManyInv, IInv, TypeOK, TypeHistory
<1>2. \A o \in called, p \in called, q \in called : o = p \/ o = q \/ p = q
  BY DEF ManyInv, AtInv, CountInv
<1>3. "subscribe" \in called =>
        \/ called \subseteq {"subscribe", "remove", "delete"}
        \/ called \subseteq {"subscribe", "unsubscribe", "keep"}
  BY <1>1, <1>2 DEF AllOperations
<1> QED
  BY <1>3 DEF Gentle

\* and tidy unless they clash.
LEMMA PairsTidy ==
  ASSUME ManyInv, ops <= 2, called \notin Clashes
  PROVE  Tidy
<1>1. called \subseteq AllOperations
  BY SetsAssumption DEF ManyInv, IInv, TypeOK, TypeHistory
<1>2. \A o \in called, p \in called, q \in called : o = p \/ o = q \/ p = q
  BY DEF ManyInv, AtInv, CountInv
<1>3. \A o \in called, p \in called : o # p => called = {o, p}
  BY <1>2
<1>4. /\ ~("subscribe" \in called /\ "unsubscribe" \in called)
      /\ ~("subscribe" \in called /\ "remove" \in called)
      /\ ~("delete" \in called /\ "unsubscribe" \in called)
      /\ ~("delete" \in called /\ "add" \in called)
  BY <1>3 DEF Clashes
<1>5. \/ called \subseteq {"unsubscribe", "add"}
      \/ called \subseteq {"subscribe", "keep", "add"}
      \/ called \subseteq {"subscribe", "keep", "delete"}
      \/ called \subseteq {"unsubscribe", "keep", "remove"}
      \/ called \subseteq {"keep", "add", "remove"}
      \/ called \subseteq {"keep", "remove", "delete"}
  BY <1>1, <1>2, <1>4 DEF AllOperations
<1> QED
  BY <1>5 DEF Tidy, Companions

\* Calls that overlap in any way, by any number of callers, none of which fails, leave
\* every member of the group subscribed to its channels: two calls, unless one
\* subscribes and the other adds a channel, and any number, where none subscribes or
\* the others only remove.  What UpEnter enters before the commit covers every member,
\* UnDelete takes the membership with the channels, an unsubscribe that finds the user
\* added again gives the channels back (UnLock, UnResub), and the loop of SubRead comes
\* back until no channel is new.
THEOREM MaterializedTogetherAlways ==
  OneGroup /\ MaxFaults = 0 => (Spec => []MaterializedTogether)
<1>1. SUFFICES ASSUME OneGroup, MaxFaults = 0 PROVE Spec => []MaterializedTogether
  OBVIOUS
<1>2. ManyInv => MaterializedTogether
  <2>1. SUFFICES ASSUME ManyInv, Quiet,
                        \/ ops <= 2 /\ ~ ({"subscribe", "add"} \subseteq called)
                        \/ "subscribe" \notin called
                        \/ called \subseteq {"subscribe", "remove", "delete"}
                 PROVE  Subscribed
    BY DEF MaterializedTogether
  <2>2. Gentle
    BY <2>1, PairsGentle DEF Gentle
  <2> QED
    BY <1>1, <2>1, <2>2, QuietSubscribed
<1> QED
  BY <1>1, <1>2, ManyAlways, PTL

\* Calls that overlap in any way, by any number of callers, none of which fails, leave
\* nobody in a channel without a reason: two calls, unless they clash, and any number,
\* where their operations are companions.  SubCheck, UpCheck and UnFinal find what the
\* others left behind.
THEOREM NoOrphansTogetherAlways ==
  OneGroup /\ MaxFaults = 0 => (Spec => []NoOrphansTogether)
<1>1. SUFFICES ASSUME OneGroup, MaxFaults = 0 PROVE Spec => []NoOrphansTogether
  OBVIOUS
<1>2. ManyInv => NoOrphansTogether
  <2>1. SUFFICES ASSUME ManyInv, Quiet, NEW s \in subs \ kept,
                        \/ ops <= 2 /\ called \notin Clashes
                        \/ \E together \in Companions : called \subseteq together
                 PROVE  Justified(s)
    BY DEF NoOrphansTogether
  <2>2. Tidy
    BY <2>1, PairsTidy DEF Tidy
  <2> QED
    BY <1>1, <2>1, <2>2, QuietJustified
<1> QED
  BY <1>1, <1>2, ManyAlways, PTL
=============================================================================
