----------------------- MODULE ChannelGroupMembership -----------------------
(***************************************************************************)
(* Subscribing to, unsubscribing from, updating and deleting channel       *)
(* groups: internal/channelgroup/api_channel_groups.go.  Several calls of  *)
(* the service run at the same time (the tests of the package start them   *)
(* so; the bot's own event loop makes one call after the other), and each  *)
(* of them makes a series of calls to Zulip and to SQLite.                 *)
(*                                                                         *)
(* A group is known twice: its row and channels are in the database, and   *)
(* its members are those of a Zulip user group.  A member of a group is    *)
(* meant to be subscribed to the group's channels.                         *)
(*                                                                         *)
(* Every call to Zulip and every transaction is a step of its own, as are  *)
(* the operations on the lock and on the generations that guard members.   *)
(* Users are subscribed one at a time, as every caller in the bot does.    *)
(***************************************************************************)
EXTENDS Naturals, FiniteSets

CONSTANTS
  Groups, Channels, Users,
  Callers,      \* the goroutines that call the service
  Operations,   \* which of AllOperations they call
  MaxOps,       \* bound on the calls, in total
  MaxFaults,    \* bound on failing requests
  FaultKinds    \* which of AllFaultKinds happen

AllOperations == {"subscribe", "unsubscribe", "keep", "add", "remove", "delete"}

\* fail: a request fails and does nothing.  lose: it is carried out, and its
\* answer is lost (a timeout of the HTTP client).
AllFaultKinds == {"fail", "lose"}

ASSUME SetsAssumption ==
  /\ Groups # {} /\ Users # {}
  /\ Operations \subseteq AllOperations
  /\ FaultKinds \subseteq AllFaultKinds
  /\ MaxOps \in Nat /\ MaxFaults \in Nat

VARIABLES
  exists,     \* database: the groups that have a row
  chans,      \* database: the channels of each group
  active,     \* Zulip: the user groups that are not deactivated
  members,    \* Zulip: the members of each user group
  subs,       \* Zulip: pairs of a user and a channel the user is subscribed to
  gen,        \* service: memberOpGenerations
  readers,    \* service: callers that hold memberWriteMu of a group shared
  writers,    \* service: callers that hold it exclusively, at most one
  pc,         \* caller: what it does next
  job,        \* caller: its arguments and local variables
  ops,        \* history: number of calls so far
  called,     \* history: their operations
  faults,     \* history: failed requests so far
  late,       \* history: unsubscribing callers that a subscribe overtook
  kept        \* history: subscriptions that outlive their group on purpose

database == <<exists, chans>>
zulip    == <<active, members, subs>>
lock     == <<readers, writers>>
callers  == <<pc, job>>
vars     == <<database, zulip, gen, lock, callers, ops, called, faults, late, kept>>

\* chans: the channels of the group as read at first; target: the channels in
\* hand; done: those subscribed to so far (touched, attempted); users: members
\* read before; pending: channels shared with other groups that are still to be
\* asked for their members; covered: channels that other groups keep the user in; start: the generation at the start; final:
\* whether the channels in hand were added meanwhile.
Job == [g : Groups, u : Users, keep : BOOLEAN, remove : SUBSET Channels,
        chans : SUBSET Channels, target : SUBSET Channels, done : SUBSET Channels,
        users : SUBSET Users, pending : SUBSET (Groups \X Channels), covered : SUBSET Channels,
        start : Nat, final : BOOLEAN]

NoJob == [g |-> CHOOSE g \in Groups : TRUE, u |-> CHOOSE u \in Users : TRUE,
          keep |-> FALSE, remove |-> {}, chans |-> {}, target |-> {}, done |-> {},
          users |-> {}, pending |-> {}, covered |-> {}, start |-> 0, final |-> FALSE]

Subscribing   == {"subLock", "subAdd", "subBump", "subRead", "subEnter", "subCheck",
                  "subClean", "undoMember", "undoChannels"}
\* From the reading of the generations to the deletion of the member.
Unsubscribing == {"unShared", "unCover", "unLeave", "unLock", "unDelete"}
Updating      == {"upMembers", "upEnter", "upCommit", "upCheck", "upClean"}
Deleting      == {"delLock", "delList", "delEmpty", "delDeactivate", "delRestore", "delRow"}
Places        == Subscribing \cup Unsubscribing \cup Updating \cup Deleting
                   \cup {"idle", "unStart", "unResub", "unRestore", "unFinal"}

\* Places at which a call to Zulip or to the database is due.
Requests == Places \ {"idle", "subLock", "subBump", "unStart", "unLock", "delLock"}

Init ==
  /\ exists = Groups
  /\ active = Groups
  /\ chans \in [Groups -> SUBSET Channels]
  /\ members \in [Groups -> SUBSET Users]
  /\ subs = {s \in Users \X Channels :
               \E g \in Groups : s[1] \in members[g] /\ s[2] \in chans[g]}
  /\ gen = [g \in Groups |-> [u \in Users |-> 0]]
  /\ readers = [g \in Groups |-> {}]
  /\ writers = [g \in Groups |-> {}]
  /\ pc = [k \in Callers |-> "idle"]
  /\ job = [k \in Callers |-> NoJob]
  /\ ops = 0
  /\ called = {}
  /\ faults = 0
  /\ late = {}
  /\ kept = {}

---------------------------------------------------------------------------
(* Steps of a caller, and what its requests do.                            *)

Goto(k, place) == pc' = [pc EXCEPT ![k] = place]
Set(k, j)      == job' = [job EXCEPT ![k] = j]
Return(k)      == Goto(k, "idle") /\ Set(k, NoJob) /\ late' = late \ {k}
Continue(k, place, j) == Goto(k, place) /\ Set(k, j) /\ late' = late

\* UpdateUserGroupMembers: adding a member, or removing one who is none, is an
\* error that changes nothing, and the service takes it for success.
AddMembers(g, us)  == members' = [members EXCEPT ![g] = @ \cup us]
DropMembers(g, us) == members' = [members EXCEPT ![g] = @ \ us]

\* subscribeUsersToChannels and unsubscribeUsersFromChannels.
Enter(us, cs) == subs' = subs \cup (us \X cs) /\ kept' = kept
Leave(us, cs) == subs' = subs \ (us \X cs) /\ kept' = kept \ (us \X cs)

Free(g)      == writers[g] = {}
Unlocked(g)  == writers[g] = {} /\ readers[g] = {}
Release(k)   == /\ readers' = [g \in Groups |-> readers[g] \ {k}]
                /\ writers' = [g \in Groups |-> writers[g] \ {k}]

Begin(k, operation) ==
  /\ pc[k] = "idle"
  /\ operation \in Operations
  /\ ops < MaxOps
  /\ ops' = ops + 1
  /\ called' = called \cup {operation}

---------------------------------------------------------------------------
(* SubscribeToChannelGroup.                                                *)

Subscribe(k, g, u) ==
  /\ Begin(k, "subscribe")
  /\ Continue(k, "subLock", [NoJob EXCEPT !.g = g, !.u = u])
  /\ UNCHANGED <<database, zulip, gen, lock, faults, kept>>

\* Mutant of SubLock: the lock is not taken.
SubLock_NoLock(k) ==
  /\ pc[k] = "subLock"
  /\ IF job[k].g \in exists
       THEN Continue(k, "subAdd", job[k])
       ELSE Return(k)
  /\ UNCHANGED <<lock, database, zulip, gen, ops, called, faults, kept>>

\* addChannelGroupMembers takes the lock shared, and reads the group under it.
SubLock(k) ==
  /\ pc[k] = "subLock"
  /\ Free(job[k].g)
  /\ IF job[k].g \in exists
       THEN /\ readers' = [readers EXCEPT ![job[k].g] = @ \cup {k}]
            /\ Continue(k, "subAdd", job[k])
       ELSE /\ UNCHANGED readers
            /\ Return(k)
  /\ UNCHANGED <<writers, database, zulip, gen, ops, called, faults, kept>>

\* The user becomes a member.
SubAdd(k) ==
  /\ pc[k] = "subAdd"
  /\ AddMembers(job[k].g, {job[k].u})
  /\ Goto(k, "subBump")
  /\ late' = late \cup {j \in Callers : /\ pc[j] \in Unsubscribing
                                        /\ job[j].g = job[k].g
                                        /\ job[j].u = job[k].u}
  /\ UNCHANGED <<database, active, subs, gen, lock, job, ops, called, faults, kept>>

\* Mutant of SubBump: the generation is counted down.
SubBump_Down(k) ==
  /\ pc[k] = "subBump"
  /\ gen' = [gen EXCEPT ![job[k].g][job[k].u] = @ - 1]
  /\ Release(k)
  /\ Continue(k, "subRead", job[k])
  /\ UNCHANGED <<database, zulip, ops, called, faults, kept>>

\* Mutant of SubBump: bumpMemberOpGenerations is forgotten.
SubBump_NoBump(k) ==
  /\ pc[k] = "subBump"
  /\ Release(k)
  /\ Continue(k, "subRead", job[k])
  /\ UNCHANGED <<gen, database, zulip, ops, called, faults, kept>>

\* bumpMemberOpGenerations, and the lock is released.
SubBump(k) ==
  /\ pc[k] = "subBump"
  /\ gen' = [gen EXCEPT ![job[k].g][job[k].u] = @ + 1]
  /\ Release(k)
  /\ Continue(k, "subRead", job[k])
  /\ UNCHANGED <<database, zulip, ops, called, faults, kept>>

\* subscribeUsersToCurrentChannelGroupChannels reads the group until it has no
\* channel that was not attempted.
SubRead(k) ==
  /\ pc[k] = "subRead"
  /\ LET j == job[k]
         new == chans[j.g] \ j.done
     IN  IF j.g \notin exists THEN Continue(k, "undoMember", j)
         ELSE IF new = {}     THEN Return(k)
         ELSE Continue(k, "subEnter", [j EXCEPT !.target = new])
  /\ UNCHANGED <<database, zulip, gen, lock, ops, called, faults, kept>>

\* Mutant of SubEnter: the channels are not recorded as attempted.
SubEnter_Unattempted(k) ==
  /\ pc[k] = "subEnter"
  /\ Enter({job[k].u}, job[k].target)
  /\ Continue(k, "subCheck", [job[k] EXCEPT !.target = {}])
  /\ UNCHANGED <<database, active, members, gen, lock, ops, called, faults>>

\* The user enters the channels in hand, which count as attempted from then on.
SubEnter(k) ==
  /\ pc[k] = "subEnter"
  /\ Enter({job[k].u}, job[k].target)
  /\ Continue(k, "subCheck", [job[k] EXCEPT !.done = @ \cup job[k].target, !.target = {}])
  /\ UNCHANGED <<database, active, members, gen, lock, ops, called, faults>>

\* A user who is no longer a member leaves the touched channels again.
SubCheck(k) ==
  /\ pc[k] = "subCheck"
  /\ IF job[k].u \in members[job[k].g]
       THEN Continue(k, "subRead", job[k])
       ELSE Continue(k, "subClean", job[k])
  /\ UNCHANGED <<database, zulip, gen, lock, ops, called, faults, kept>>

SubClean(k) ==
  /\ pc[k] = "subClean"
  /\ Leave({job[k].u}, job[k].done)
  /\ Return(k)
  /\ UNCHANGED <<database, active, members, gen, lock, ops, called, faults>>

\* After an error the member and then the touched channels are taken back; what
\* goes wrong in that is ignored.
UndoMember(k) ==
  /\ pc[k] = "undoMember"
  /\ DropMembers(job[k].g, {job[k].u})
  /\ Continue(k, "undoChannels", job[k])
  /\ UNCHANGED <<database, active, subs, gen, lock, ops, called, faults, kept>>

UndoChannels(k) ==
  /\ pc[k] = "undoChannels"
  /\ Leave({job[k].u}, job[k].done)
  /\ Return(k)
  /\ UNCHANGED <<database, active, members, gen, lock, ops, called, faults>>

---------------------------------------------------------------------------
(* UnsubscribeFromChannelGroup.                                            *)

\* An unknown group is an error before anything happened.
Unsubscribe(k, g, u, keep) ==
  /\ Begin(k, IF keep THEN "keep" ELSE "unsubscribe")
  /\ g \in exists
  /\ Continue(k, "unStart", [NoJob EXCEPT !.g = g, !.u = u, !.keep = keep,
                                          !.chans = chans[g]])
  /\ UNCHANGED <<database, zulip, gen, lock, faults, kept>>

\* The user's channels are to be left first, unless the user keeps them.
UnStart(k) ==
  /\ pc[k] = "unStart"
  /\ Unlocked(job[k].g)
  /\ LET j == [job[k] EXCEPT !.start = gen[job[k].g][job[k].u], !.target = job[k].chans]
     IN  Continue(k, IF j.keep \/ j.chans = {} THEN "unLock" ELSE "unShared", j)
  /\ UNCHANGED <<database, zulip, gen, lock, ops, called, faults, kept>>

\* Mutant of UnShared: this group counts as one that keeps the user in.
UnShared_SelfToo(k) ==
  /\ pc[k] = "unShared"
  /\ LET j == job[k]
         shared == {p \in Groups \X j.target : p[2] \in chans[p[1]] \cap chans[j.g]}
     IN  Continue(k, IF shared = {} THEN "unLeave" ELSE "unCover",
                  [j EXCEPT !.pending = shared, !.covered = {}])
  /\ UNCHANGED <<database, zulip, gen, lock, ops, called, faults, kept>>

\* The channels in hand that other groups share now, if they are still channels
\* of this group.
UnShared(k) ==
  /\ pc[k] = "unShared"
  /\ LET j == job[k]
         shared == {p \in (Groups \ {j.g}) \X j.target : p[2] \in chans[p[1]] \cap chans[j.g]}
     IN  Continue(k, IF shared = {} THEN "unLeave" ELSE "unCover",
                  [j EXCEPT !.pending = shared, !.covered = {}])
  /\ UNCHANGED <<database, zulip, gen, lock, ops, called, faults, kept>>

\* Each of them is asked for its members, in any order.
UnCover(k) ==
  /\ pc[k] = "unCover"
  /\ \E g \in {p[1] : p \in job[k].pending} :
       LET j == job[k]
           asked == {p \in j.pending : p[1] = g}
           shared == IF j.u \in members[g] THEN {p[2] : p \in asked} ELSE {}
       IN  Continue(k, IF j.pending = asked THEN "unLeave" ELSE "unCover",
                    [j EXCEPT !.pending = @ \ asked, !.covered = @ \cup shared])
  /\ UNCHANGED <<database, zulip, gen, lock, ops, called, faults, kept>>

\* The user leaves the channels that no other group covers.
UnLeave(k) ==
  /\ pc[k] = "unLeave"
  /\ Leave({job[k].u}, job[k].target \ job[k].covered)
  /\ IF job[k].final
       THEN Return(k)
       ELSE Continue(k, "unLock", [job[k] EXCEPT !.target = {}, !.covered = {}])
  /\ UNCHANGED <<database, active, members, gen, lock, ops, called, faults>>

\* Mutant of UnLock: a user who was added meanwhile is not subscribed again.
UnLock_NoResub(k) ==
  /\ pc[k] = "unLock"
  /\ Unlocked(job[k].g)
  /\ LET j == job[k]
     IN  IF gen[j.g][j.u] = j.start
           THEN /\ writers' = [writers EXCEPT ![j.g] = {k}]
                /\ Continue(k, "unDelete", j)
           ELSE UNCHANGED writers /\ Return(k)
  /\ UNCHANGED <<readers, database, zulip, gen, ops, called, faults, kept>>

\* deleteUnchangedChannelGroupMembers: a user who was added since the start is
\* not deleted, and enters the channels again.
UnLock(k) ==
  /\ pc[k] = "unLock"
  /\ Unlocked(job[k].g)
  /\ LET j == job[k]
     IN  IF gen[j.g][j.u] = j.start
           THEN /\ writers' = [writers EXCEPT ![j.g] = {k}]
                /\ Continue(k, "unDelete", j)
           ELSE /\ UNCHANGED writers
                /\ IF j.keep \/ j.chans = {} THEN Return(k) ELSE Continue(k, "unResub", j)
  /\ UNCHANGED <<readers, database, zulip, gen, ops, called, faults, kept>>

\* The member is deleted under the lock.  A user who is none already ends the
\* call; one who keeps the channels stays subscribed on purpose.
UnDelete(k) ==
  /\ pc[k] = "unDelete"
  /\ LET j == job[k]
         absent == j.u \notin members[j.g]
     IN  /\ DropMembers(j.g, {j.u})
         /\ IF absent \/ j.keep THEN Return(k) ELSE Continue(k, "unFinal", j)
         /\ kept' = IF j.keep THEN kept \cup {s \in subs : s[1] = j.u /\ s[2] \in chans[j.g]}
                              ELSE kept
  /\ Release(k)
  /\ UNCHANGED <<database, active, subs, gen, ops, called, faults>>

UnResub(k) ==
  /\ pc[k] \in {"unResub", "unRestore"}
  /\ Enter({job[k].u}, job[k].chans)
  /\ Return(k)
  /\ UNCHANGED <<database, active, members, gen, lock, ops, called, faults>>

\* Channels that were added to the group meanwhile are left too.
UnFinal(k) ==
  /\ pc[k] = "unFinal"
  /\ LET j == job[k]
         added == chans[j.g] \ j.chans
     IN  IF j.g \notin exists \/ added = {}
           THEN Return(k)
           ELSE Continue(k, "unShared", [j EXCEPT !.target = added, !.final = TRUE])
  /\ UNCHANGED <<database, zulip, gen, lock, ops, called, faults, kept>>

---------------------------------------------------------------------------
(* UpdateChannelGroupChannels.                                             *)

Update(k, g, add, remove) ==
  /\ Begin(k, IF add # {} THEN "add" ELSE "remove")
  /\ g \in exists
  /\ LET added == add \ chans[g]
         none  == added = {} /\ remove \cap chans[g] = {}
     IN  Continue(k, IF none THEN "upCommit" ELSE "upMembers",
                  [NoJob EXCEPT !.g = g, !.chans = add, !.remove = remove, !.target = added])
  /\ UNCHANGED <<database, zulip, gen, lock, faults, kept>>

UpMembers(k) ==
  /\ pc[k] = "upMembers"
  /\ LET us == members[job[k].g]
     IN  Continue(k, IF job[k].target = {} \/ us = {} THEN "upCommit" ELSE "upEnter",
                  [job[k] EXCEPT !.users = us])
  /\ UNCHANGED <<database, zulip, gen, lock, ops, called, faults, kept>>

UpEnter(k) ==
  /\ pc[k] = "upEnter"
  /\ Enter(job[k].users, job[k].target)
  /\ Continue(k, "upCommit", job[k])
  /\ UNCHANGED <<database, active, members, gen, lock, ops, called, faults>>

\* updateGroupChannels, one transaction.  Those who are subscribed to a removed
\* channel stay subscribed.  (Moving the added channels to the group's folder
\* precedes it, and can only fail.)
UpCommit(k) ==
  /\ pc[k] = "upCommit"
  /\ LET j == job[k]
     IN  IF j.g \notin exists
           THEN Return(k) /\ UNCHANGED <<chans, kept>>
           ELSE /\ chans' = [chans EXCEPT ![j.g] = (@ \ j.remove) \cup j.chans]
                /\ kept' = kept \cup {s \in subs : s[2] \in (chans[j.g] \cap j.remove) \ j.chans}
                /\ IF j.target = {} \/ j.users = {}
                     THEN Return(k)
                     ELSE Continue(k, "upCheck", j)
  /\ UNCHANGED <<exists, zulip, gen, lock, ops, called, faults>>

\* Mutant of UpCheck: users who left meanwhile are not looked for.
UpCheck_Trusting(k) ==
  /\ pc[k] = "upCheck"
  /\ Return(k)
  /\ UNCHANGED <<database, zulip, gen, lock, ops, called, faults, kept>>

\* cleanupAddedChannels: users who were members before the commit and are not
\* any more leave the added channels again.
UpCheck(k) ==
  /\ pc[k] = "upCheck"
  /\ LET stale == job[k].users \ members[job[k].g]
     IN  IF stale = {} THEN Return(k)
                       ELSE Continue(k, "upClean", [job[k] EXCEPT !.users = stale])
  /\ UNCHANGED <<database, zulip, gen, lock, ops, called, faults, kept>>

UpClean(k) ==
  /\ pc[k] = "upClean"
  /\ Leave(job[k].users, job[k].target)
  /\ Return(k)
  /\ UNCHANGED <<database, active, members, gen, lock, ops, called, faults>>

---------------------------------------------------------------------------
(* DeleteChannelGroup, under the lock from its first step to its last.     *)

Delete(k, g) ==
  /\ Begin(k, "delete")
  /\ Continue(k, "delLock", [NoJob EXCEPT !.g = g])
  /\ UNCHANGED <<database, zulip, gen, lock, faults, kept>>

DelLock(k) ==
  /\ pc[k] = "delLock"
  /\ Unlocked(job[k].g)
  /\ writers' = [writers EXCEPT ![job[k].g] = {k}]
  /\ Continue(k, "delList", job[k])
  /\ UNCHANGED <<readers, database, zulip, gen, ops, called, faults, kept>>

DelList(k) ==
  /\ pc[k] = "delList"
  /\ LET us == members[job[k].g]
     IN  Continue(k, IF us = {} THEN "delDeactivate" ELSE "delEmpty",
                  [job[k] EXCEPT !.users = us])
  /\ UNCHANGED <<database, zulip, gen, lock, ops, called, faults, kept>>

\* Zulip refuses to remove users one of whom is not a member any more.
DelEmpty(k) ==
  /\ pc[k] = "delEmpty"
  /\ IF job[k].users \subseteq members[job[k].g]
       THEN /\ DropMembers(job[k].g, job[k].users)
            /\ Continue(k, "delDeactivate", job[k])
            /\ UNCHANGED lock
       ELSE /\ UNCHANGED members
            /\ Return(k)
            /\ Release(k)
  /\ UNCHANGED <<database, active, subs, gen, ops, called, faults, kept>>

DelDeactivate(k) ==
  /\ pc[k] = "delDeactivate"
  /\ active' = active \ {job[k].g}
  /\ Continue(k, "delRow", job[k])
  /\ UNCHANGED <<database, members, subs, gen, lock, ops, called, faults, kept>>

\* Where the deactivation failed the members are put back.
DelRestore(k) ==
  /\ pc[k] = "delRestore"
  /\ AddMembers(job[k].g, job[k].users)
  /\ Return(k)
  /\ Release(k)
  /\ UNCHANGED <<database, active, subs, gen, ops, called, faults, kept>>

\* The row goes, and the channels with it; nobody leaves a channel for that.
DelRow(k) ==
  /\ pc[k] = "delRow"
  /\ exists' = exists \ {job[k].g}
  /\ chans' = [chans EXCEPT ![job[k].g] = {}]
  /\ kept' = kept \cup {s \in subs : s[2] \in chans[job[k].g]}
  /\ Return(k)
  /\ Release(k)
  /\ UNCHANGED <<zulip, gen, ops, called, faults>>

---------------------------------------------------------------------------
(* Failing requests.                                                       *)

\* Mutant of AfterError: the channels stay left where the member was not deleted.
AfterError_NoRestore(k) ==
  CASE pc[k] \in {"subRead", "subEnter", "subCheck", "subClean"} -> "undoMember"
    [] pc[k] = "undoMember" -> "undoChannels"
    [] pc[k] = "delDeactivate" /\ job[k].users # {} -> "delRestore"
    [] OTHER -> "idle"

\* Where a caller goes after an error.
AfterError(k) ==
  CASE pc[k] \in {"subRead", "subEnter", "subCheck", "subClean"} -> "undoMember"
    [] pc[k] = "undoMember" -> "undoChannels"
    [] pc[k] = "unDelete" /\ ~job[k].keep -> "unRestore"
    [] pc[k] = "delDeactivate" /\ job[k].users # {} -> "delRestore"
    [] OTHER -> "idle"

\* The request in hand is carried out, although its caller is told otherwise.
Effect(k) ==
  LET j == job[k]
  IN  \/ /\ pc[k] \in {"undoMember", "unDelete"}
         /\ DropMembers(j.g, {j.u})
         /\ UNCHANGED <<active, subs, kept>>
      \/ /\ pc[k] = "subAdd"
         /\ AddMembers(j.g, {j.u})
         /\ UNCHANGED <<active, subs, kept>>
      \/ /\ pc[k] = "delEmpty" /\ j.users \subseteq members[j.g]
         /\ DropMembers(j.g, j.users)
         /\ UNCHANGED <<active, subs, kept>>
      \/ /\ pc[k] = "delRestore"
         /\ AddMembers(j.g, j.users)
         /\ UNCHANGED <<active, subs, kept>>
      \/ /\ pc[k] = "delDeactivate"
         /\ active' = active \ {j.g}
         /\ UNCHANGED <<members, subs, kept>>
      \/ /\ pc[k] = "subEnter" /\ Enter({j.u}, j.target)
         /\ UNCHANGED <<active, members>>
      \/ /\ pc[k] \in {"unResub", "unRestore"} /\ Enter({j.u}, j.chans)
         /\ UNCHANGED <<active, members>>
      \/ /\ pc[k] = "upEnter" /\ Enter(j.users, j.target)
         /\ UNCHANGED <<active, members>>
      \/ /\ pc[k] \in {"subClean", "undoChannels"} /\ Leave({j.u}, j.done)
         /\ UNCHANGED <<active, members>>
      \/ /\ pc[k] = "unLeave" /\ Leave({j.u}, j.target \ j.covered)
         /\ UNCHANGED <<active, members>>
      \/ /\ pc[k] = "upClean" /\ Leave(j.users, j.target)
         /\ UNCHANGED <<active, members>>

\* A deferred unlock ends the critical section the error leaves.
Error(k) ==
  /\ IF AfterError(k) = "idle" THEN Return(k) ELSE Continue(k, AfterError(k), job[k])
  /\ IF AfterError(k) = "delRestore" THEN UNCHANGED lock ELSE Release(k)
  /\ UNCHANGED <<database, gen, ops, called>>

Fails(k) ==
  /\ pc[k] \in Requests
  /\ faults < MaxFaults
  /\ faults' = faults + 1
  /\ \/ "fail" \in FaultKinds /\ UNCHANGED <<active, members, subs, kept>>
     \/ "lose" \in FaultKinds /\ Effect(k)
  /\ Error(k)

\* Zulip may refuse to change a user group that is deactivated.
Refused(k) ==
  /\ pc[k] \in {"subAdd", "undoMember", "unDelete", "delEmpty", "delDeactivate", "delRestore"}
  /\ job[k].g \notin active
  /\ Error(k)
  /\ UNCHANGED <<zulip, faults, kept>>

---------------------------------------------------------------------------
Call(k) ==
  \/ \E g \in Groups, u \in Users :
       \/ Subscribe(k, g, u)
       \/ \E keep \in BOOLEAN : Unsubscribe(k, g, u, keep)
  \/ \E g \in Groups :
       \/ Delete(k, g)
       \/ \E c \in Channels : Update(k, g, {c}, {}) \/ Update(k, g, {}, {c})

Step(k) ==
  \/ SubLock(k) \/ SubAdd(k) \/ SubBump(k) \/ SubRead(k) \/ SubEnter(k)
  \/ SubCheck(k) \/ SubClean(k) \/ UndoMember(k) \/ UndoChannels(k)
  \/ UnStart(k) \/ UnShared(k) \/ UnCover(k) \/ UnLeave(k) \/ UnLock(k)
  \/ UnDelete(k) \/ UnResub(k) \/ UnFinal(k)
  \/ UpMembers(k) \/ UpEnter(k) \/ UpCommit(k) \/ UpCheck(k) \/ UpClean(k)
  \/ DelLock(k) \/ DelList(k) \/ DelEmpty(k) \/ DelDeactivate(k)
  \/ DelRestore(k) \/ DelRow(k)

Next == \E k \in Callers : Call(k) \/ Step(k) \/ Fails(k) \/ Refused(k)

Spec == Init /\ [][Next]_vars

\* Goroutines are scheduled, and Zulip and SQLite answer; nobody has to call, and
\* nothing has to fail.
Fairness == \A k \in Callers : WF_vars(Step(k))

FairSpec == Spec /\ Fairness

---------------------------------------------------------------------------
(* Properties.                                                             *)

TypeDatabase == exists \subseteq Groups /\ chans \in [Groups -> SUBSET Channels]

TypeZulip ==
  /\ active \subseteq Groups
  /\ members \in [Groups -> SUBSET Users]
  /\ subs \subseteq Users \X Channels

TypeService ==
  /\ gen \in [Groups -> [Users -> Nat]]
  /\ readers \in [Groups -> SUBSET Callers]
  /\ writers \in [Groups -> SUBSET Callers]

TypeCallers == pc \in [Callers -> Places] /\ job \in [Callers -> Job]

TypeHistory ==
  /\ ops \in 0..MaxOps
  /\ called \subseteq Operations
  /\ faults \in 0..MaxFaults
  /\ late \subseteq Callers
  /\ kept \subseteq subs

\* Every variable has its type, and what is kept on purpose is subscribed.
TypeOK == TypeDatabase /\ TypeZulip /\ TypeService /\ TypeCallers /\ TypeHistory

\* An unsubscribe never deletes a member whom a subscribe added after the
\* unsubscribe had begun: memberWriteMu and the generations see to that.
NoLostSubscribe == \A k \in Callers : pc[k] = "unDelete" => k \notin late

\* The user group of a deleted channel group is deactivated and has no members:
\* nobody is added between its emptying and the deletion of the row, nor later.
DeletedIsEmpty == \A g \in Groups \ exists : g \notin active /\ members[g] = {}

Quiet == \A k \in Callers : pc[k] = "idle"

Subscribed == \A g \in Groups : members[g] \X chans[g] \subseteq subs

Justified(s) == \E g \in Groups : s[1] \in members[g] /\ s[2] \in chans[g]

\* When no call is in progress, every member of a group is subscribed to all of
\* its channels, a request that failed included, if it was not a subscribe's: its
\* rollback takes channels that another group of the user has.  (Where the undo of
\* an unsubscribe fails too, the member stays without the channels.)
MaterializedUnlessUndone ==
  Quiet /\ faults <= 1 /\ (faults > 0 => "subscribe" \notin called) => Subscribed

\* When no call is in progress and none failed, a user is subscribed only to the
\* channels of groups the user is a member of, and to those kept on purpose.
NoOrphans ==
  Quiet /\ faults = 0 => \A s \in subs \ kept : Justified(s)

\* Calls that overlap in any way leave the members of a group subscribed: any two,
\* unless they subscribe a user and add a channel, which the user can miss; and any
\* number, where none of them subscribes a user, or next to it channels are only
\* removed and groups deleted: entering the channels of a new member is what gets
\* lost.
MaterializedTogether ==
  /\ Quiet
  /\ \/ ops <= 2 /\ ~ {"subscribe", "add"} \subseteq called
     \/ "subscribe" \notin called
     \/ called \subseteq {"subscribe", "remove", "delete"}
  => Subscribed

\* Operations two calls of which can leave a user in a channel.
Clashes == {{"subscribe", "unsubscribe"}, {"subscribe", "remove"},
            {"delete", "unsubscribe"}, {"delete", "add"}}

\* Operations of which any number of calls may be in progress.
Companions == {{"subscribe", "keep", "add"}, {"subscribe", "keep", "delete"},
               {"unsubscribe", "keep", "remove"}, {"keep", "add", "remove"},
               {"keep", "remove", "delete"}}

\* Calls that overlap in any way leave nobody in a channel without membership: any
\* two, unless they clash, and any number, where their operations are companions.
\* Each of the cleanups (subscribers who are no members any more, members who left
\* before the channels were added, channels that an unsubscribe had not read) finds
\* what the others left.
NoOrphansTogether ==
  /\ Quiet
  /\ \/ ops <= 2 /\ called \notin Clashes
     \/ \E together \in Companions : called \subseteq together
  => \A s \in subs \ kept : Justified(s)

\* Every call returns: no loop, lock or rollback holds a caller for ever.
EveryCallReturns == \A k \in Callers : pc[k] # "idle" ~> pc[k] = "idle"
===========================================================================
