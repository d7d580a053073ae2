-------------------- MODULE ChannelGroupMembershipProofs --------------------
(***************************************************************************)
(* Theorems about ChannelGroupMembership, for any sets of groups, channels, *)
(* users and callers and any bounds: variables keep their types, no         *)
(* unsubscribe deletes a member who was added after it began, and a deleted *)
(* group leaves no members behind.                                         *)
(***************************************************************************)
EXTENDS ChannelGroupMembership, TLAPS

---------------------------------------------------------------------------
(* Moves of a caller.                                                      *)

LEMMA NoJobIsJob == NoJob \in Job
<1>1. (CHOOSE g \in Groups : TRUE) \in Groups
  BY SetsAssumption
<1>2. (CHOOSE u \in Users : TRUE) \in Users
  BY SetsAssumption
<1> QED
  BY <1>1, <1>2 DEF NoJob, Job

\* A caller that moves to a place with a job keeps the types, and moves alone.
LEMMA Move ==
  ASSUME TypeCallers, NEW k \in Callers, NEW p \in Places, NEW j \in Job,
         Goto(k, p), Set(k, j)
  PROVE  /\ TypeCallers'
         /\ pc'[k] = p /\ job'[k] = j
         /\ \A i \in Callers \ {k} : pc'[i] = pc[i] /\ job'[i] = job[i]
  BY DEF TypeCallers, Goto, Set

LEMMA ReturnMove ==
  ASSUME TypeCallers, NEW k \in Callers, Return(k)
  PROVE  /\ TypeCallers'
         /\ pc'[k] = "idle" /\ job'[k] = NoJob
         /\ \A i \in Callers \ {k} : pc'[i] = pc[i] /\ job'[i] = job[i]
         /\ late' = late \ {k}
<1>1. "idle" \in Places
  BY DEF Places
<1> QED
  BY <1>1, NoJobIsJob, Move DEF Return

LEMMA ContinueMove ==
  ASSUME TypeCallers, NEW k \in Callers, NEW p \in Places, NEW j \in Job,
         Continue(k, p, j)
  PROVE  /\ TypeCallers'
         /\ pc'[k] = p /\ job'[k] = j
         /\ \A i \in Callers \ {k} : pc'[i] = pc[i] /\ job'[i] = job[i]
         /\ late' = late
  BY Move DEF Continue

---------------------------------------------------------------------------
(* Types.                                                                  *)

\* Entering and leaving channels keeps the types.
LEMMA EnterType ==
  ASSUME TypeZulip, kept \subseteq subs, NEW us \in SUBSET Users, NEW cs \in SUBSET Channels,
         Enter(us, cs)
  PROVE  subs' \subseteq Users \X Channels /\ kept' \subseteq subs'
  BY DEF TypeZulip, Enter

LEMMA LeaveType ==
  ASSUME TypeZulip, kept \subseteq subs, NEW us, NEW cs, Leave(us, cs)
  PROVE  subs' \subseteq Users \X Channels /\ kept' \subseteq subs'
  BY DEF TypeZulip, Leave

LEMMA MembersType ==
  ASSUME TypeZulip, NEW g \in Groups, NEW us \in SUBSET Users,
         AddMembers(g, us) \/ DropMembers(g, us)
  PROVE  members' \in [Groups -> SUBSET Users]
  BY DEF TypeZulip, AddMembers, DropMembers

LEMMA ReleaseType ==
  ASSUME TypeService, NEW k, Release(k)
  PROVE  readers' \in [Groups -> SUBSET Callers] /\ writers' \in [Groups -> SUBSET Callers]
  BY DEF TypeService, Release

\* TypeOK' from what a step may have changed.
LEMMA TypeFrame ==
  ASSUME TypeOK, TypeCallers', late' \subseteq Callers, faults' \in 0..MaxFaults,
         UNCHANGED <<ops, called>>,
         UNCHANGED chans \/ chans' \in [Groups -> SUBSET Channels],
         exists' \subseteq exists, active' \subseteq active,
         UNCHANGED members \/ members' \in [Groups -> SUBSET Users],
         UNCHANGED <<subs, kept>> \/ (subs' \subseteq Users \X Channels /\ kept' \subseteq subs'),
         UNCHANGED gen \/ gen' \in [Groups -> [Users -> Nat]],
         UNCHANGED readers \/ readers' \in [Groups -> SUBSET Callers],
         UNCHANGED writers \/ writers' \in [Groups -> SUBSET Callers]
  PROVE  TypeOK'
  BY DEF TypeOK, TypeDatabase, TypeZulip, TypeService, TypeHistory

\* A step that changes nothing but the caller.
LEMMA TypeLocal ==
  ASSUME TypeOK, TypeCallers', late' \subseteq Callers,
         UNCHANGED <<database, zulip, gen, lock, ops, called, faults, kept>>
  PROVE  TypeOK'
  BY DEF TypeOK, TypeDatabase, TypeZulip, TypeService, TypeHistory, database, zulip, lock

LEMMA ReturnType ==
  ASSUME TypeOK, NEW k \in Callers, Return(k)
  PROVE  TypeCallers' /\ late' \subseteq Callers
  BY ReturnMove DEF TypeOK, TypeHistory

LEMMA ContinueType ==
  ASSUME TypeOK, NEW k \in Callers, NEW p \in Places, NEW j \in Job, Continue(k, p, j)
  PROVE  TypeCallers' /\ late' \subseteq Callers
  BY ContinueMove DEF TypeOK, TypeHistory

\* The arguments of a caller's next request.
LEMMA JobType ==
  ASSUME TypeOK, NEW k \in Callers
  PROVE  /\ job[k] \in Job
         /\ job[k].g \in Groups /\ job[k].u \in Users
         /\ {job[k].u} \in SUBSET Users /\ job[k].users \in SUBSET Users
         /\ job[k].chans \in SUBSET Channels /\ job[k].target \in SUBSET Channels
         /\ job[k].remove \in SUBSET Channels
         /\ job[k].done \in SUBSET Channels /\ job[k].covered \in SUBSET Channels
         /\ job[k].pending \in SUBSET (Groups \X Channels)
         /\ faults \in 0..MaxFaults
  BY DEF TypeOK, TypeCallers, TypeHistory, Job

LEMMA PlacesType ==
  /\ Subscribing \subseteq Places /\ Unsubscribing \subseteq Places
  /\ Updating \subseteq Places /\ Deleting \subseteq Places
  /\ {"idle", "unStart", "unResub", "unRestore", "unFinal"} \subseteq Places
  BY DEF Places

LEMMA SubscribeStepsType ==
  ASSUME TypeOK, NEW k \in Callers
  PROVE  /\ SubLock(k) => TypeOK'
         /\ SubAdd(k) => TypeOK'
         /\ SubBump(k) => TypeOK'
         /\ SubRead(k) => TypeOK'
         /\ SubEnter(k) => TypeOK'
         /\ SubCheck(k) => TypeOK'
         /\ SubClean(k) => TypeOK'
         /\ UndoMember(k) => TypeOK'
         /\ UndoChannels(k) => TypeOK'
<1> USE JobType, PlacesType
<1>1. ASSUME SubLock(k) PROVE TypeOK'
  <2>1. TypeCallers' /\ late' \subseteq Callers
    BY <1>1, ReturnType, ContinueType DEF SubLock, Subscribing
  <2>2. readers' \in [Groups -> SUBSET Callers]
    BY <1>1 DEF SubLock, TypeOK, TypeService
  <2> QED
    BY <1>1, <2>1, <2>2, TypeFrame DEF SubLock, database, zulip, lock
<1>2. ASSUME SubAdd(k) PROVE TypeOK'
  <2>1. Goto(k, "subBump") /\ Set(k, job[k])
    BY <1>2 DEF SubAdd, Set, TypeOK, TypeCallers
  <2>2. TypeCallers' /\ late' \subseteq Callers
    BY <1>2, <2>1, Move DEF SubAdd, Subscribing, TypeOK, TypeHistory
  <2>3. members' \in [Groups -> SUBSET Users]
    BY <1>2, MembersType DEF SubAdd, TypeOK
  <2> QED
    BY <1>2, <2>2, <2>3, TypeFrame DEF SubAdd, database, lock
<1>3. ASSUME SubBump(k) PROVE TypeOK'
  <2>1. TypeCallers' /\ late' \subseteq Callers
    BY <1>3, ReturnType, ContinueType DEF SubBump, Subscribing
  <2>2. readers' \in [Groups -> SUBSET Callers] /\ writers' \in [Groups -> SUBSET Callers]
    BY <1>3, ReleaseType DEF SubBump, TypeOK
  <2>3. gen' \in [Groups -> [Users -> Nat]]
    BY <1>3 DEF SubBump, TypeOK, TypeService
  <2> QED
    BY <1>3, <2>1, <2>2, <2>3, TypeFrame DEF SubBump, database, zulip, lock
<1>4. ASSUME SubRead(k) PROVE TypeOK'
  <2>1. \A cs \in SUBSET Channels : [job[k] EXCEPT !.target = cs] \in Job
    BY DEF Job
  <2>2. chans[job[k].g] \in SUBSET Channels
    BY DEF TypeOK, TypeDatabase
  <2>3. TypeCallers' /\ late' \subseteq Callers
    BY <1>4, <2>1, <2>2, ReturnType, ContinueType DEF SubRead, Subscribing
  <2> QED
    BY <1>4, <2>3, TypeLocal DEF SubRead
<1>5. ASSUME SubEnter(k) PROVE TypeOK'
  <2>1. [job[k] EXCEPT !.done = job[k].done \cup job[k].target, !.target = {}] \in Job
    BY DEF Job
  <2>2. TypeCallers' /\ late' \subseteq Callers
    BY <1>5, <2>1, ReturnType, ContinueType DEF SubEnter, Subscribing
  <2>3. subs' \subseteq Users \X Channels /\ kept' \subseteq subs'
    BY <1>5, EnterType DEF SubEnter, TypeOK, TypeHistory
  <2> QED
    BY <1>5, <2>2, <2>3, TypeFrame DEF SubEnter, database, zulip, lock
<1>6. ASSUME SubCheck(k) PROVE TypeOK'
  <2>1. TypeCallers' /\ late' \subseteq Callers
    BY <1>6, ReturnType, ContinueType DEF SubCheck, Subscribing
  <2> QED
    BY <1>6, <2>1, TypeLocal DEF SubCheck
<1>7. ASSUME SubClean(k) PROVE TypeOK'
  <2>1. TypeCallers' /\ late' \subseteq Callers
    BY <1>7, ReturnType, ContinueType DEF SubClean, Subscribing
  <2>2. subs' \subseteq Users \X Channels /\ kept' \subseteq subs'
    BY <1>7, LeaveType DEF SubClean, TypeOK, TypeHistory
  <2> QED
    BY <1>7, <2>1, <2>2, TypeFrame DEF SubClean, database, zulip, lock
<1>8. ASSUME UndoMember(k) PROVE TypeOK'
  <2>1. TypeCallers' /\ late' \subseteq Callers
    BY <1>8, ReturnType, ContinueType DEF UndoMember, Subscribing
  <2>2. members' \in [Groups -> SUBSET Users]
    BY <1>8, MembersType DEF UndoMember, TypeOK
  <2> QED
    BY <1>8, <2>1, <2>2, TypeFrame DEF UndoMember, database, zulip, lock
<1>9. ASSUME UndoChannels(k) PROVE TypeOK'
  <2>1. TypeCallers' /\ late' \subseteq Callers
    BY <1>9, ReturnType, ContinueType DEF UndoChannels, Subscribing
  <2>2. subs' \subseteq Users \X Channels /\ kept' \subseteq subs'
    BY <1>9, LeaveType DEF UndoChannels, TypeOK, TypeHistory
  <2> QED
    BY <1>9, <2>1, <2>2, TypeFrame DEF UndoChannels, database, zulip, lock
<1> QED
  BY <1>1, <1>2, <1>3, <1>4, <1>5, <1>6, <1>7, <1>8, <1>9

LEMMA UnsubscribeStepsType ==
  ASSUME TypeOK, NEW k \in Callers
  PROVE  /\ UnStart(k) => TypeOK'
         /\ UnShared(k) => TypeOK'
         /\ UnCover(k) => TypeOK'
         /\ UnLeave(k) => TypeOK'
         /\ UnLock(k) => TypeOK'
         /\ UnDelete(k) => TypeOK'
         /\ UnResub(k) => TypeOK'
         /\ UnFinal(k) => TypeOK'
<1> USE JobType, PlacesType
<1>1. ASSUME UnStart(k) PROVE TypeOK'
  <2>1. \A n \in Nat : [job[k] EXCEPT !.start = n, !.target = job[k].chans] \in Job
    BY DEF Job
  <2>2. gen[job[k].g][job[k].u] \in Nat
    BY DEF TypeOK, TypeService
  <2>3. [job[k] EXCEPT !.start = gen[job[k].g][job[k].u], !.target = job[k].chans] \in Job
    BY <2>1, <2>2
  <2>4. TypeCallers' /\ late' \subseteq Callers
    BY <1>1, <2>3, ContinueType DEF UnStart, Unsubscribing
  <2> QED
    BY <1>1, <2>4, TypeLocal DEF UnStart
<1>2. ASSUME UnShared(k) PROVE TypeOK'
  <2>1. \A ps \in SUBSET (Groups \X Channels) : [job[k] EXCEPT !.pending = ps, !.covered = {}] \in Job
    BY DEF Job
  <2>2. PICK j \in Job, p \in Places : Continue(k, p, j)
    <3> DEFINE shared == {p \in (Groups \ {job[k].g}) \X job[k].target :
                            p[2] \in chans[p[1]] \cap chans[job[k].g]}
    <3>1. shared \in SUBSET (Groups \X Channels)
      OBVIOUS
    <3>2. [job[k] EXCEPT !.pending = shared, !.covered = {}] \in Job
      BY <2>1, <3>1
    <3>3. (IF shared = {} THEN "unLeave" ELSE "unCover") \in Places
      BY DEF Unsubscribing
    <3>4. Continue(k, IF shared = {} THEN "unLeave" ELSE "unCover",
                   [job[k] EXCEPT !.pending = shared, !.covered = {}])
      BY <1>2 DEF UnShared
    <3> QED
      BY <3>2, <3>3, <3>4
  <2>3. TypeCallers' /\ late' \subseteq Callers
    BY <2>2, ContinueType
  <2> QED
    BY <1>2, <2>3, TypeLocal DEF UnShared
<1>3. ASSUME UnCover(k) PROVE TypeOK'
  <2>1. \A ps \in SUBSET (Groups \X Channels), cs \in SUBSET Channels :
          [job[k] EXCEPT !.pending = ps, !.covered = cs] \in Job
    BY DEF Job
  <2>2. PICK j \in Job, p \in Places : Continue(k, p, j)
    <3>1. PICK g \in {p[1] : p \in job[k].pending} :
            LET asked == {p \in job[k].pending : p[1] = g}
                shared == IF job[k].u \in members[g] THEN {p[2] : p \in asked} ELSE {}
            IN  Continue(k, IF job[k].pending = asked THEN "unLeave" ELSE "unCover",
                         [job[k] EXCEPT !.pending = job[k].pending \ asked,
                                        !.covered = job[k].covered \cup shared])
      BY <1>3 DEF UnCover
    <3> DEFINE asked == {p \in job[k].pending : p[1] = g}
               shared == IF job[k].u \in members[g] THEN {p[2] : p \in asked} ELSE {}
    <3>2. job[k].pending \ asked \in SUBSET (Groups \X Channels)
      OBVIOUS
    <3>3. job[k].covered \cup shared \in SUBSET Channels
      OBVIOUS
    <3>4. [job[k] EXCEPT !.pending = job[k].pending \ asked,
                         !.covered = job[k].covered \cup shared] \in Job
      BY <2>1, <3>2, <3>3
    <3>5. (IF job[k].pending = asked THEN "unLeave" ELSE "unCover") \in Places
      BY DEF Unsubscribing
    <3> HIDE DEF asked, shared
    <3> QED
      BY <3>1, <3>4, <3>5 DEF asked, shared
  <2>3. TypeCallers' /\ late' \subseteq Callers
    BY <2>2, ContinueType
  <2> QED
    BY <1>3, <2>3, TypeLocal DEF UnCover
<1>4. ASSUME UnLeave(k) PROVE TypeOK'
  <2>1. [job[k] EXCEPT !.target = {}, !.covered = {}] \in Job
    BY DEF Job
  <2>2. TypeCallers' /\ late' \subseteq Callers
    BY <1>4, <2>1, ReturnType, ContinueType DEF UnLeave, Unsubscribing
  <2>3. subs' \subseteq Users \X Channels /\ kept' \subseteq subs'
    BY <1>4, LeaveType DEF UnLeave, TypeOK, TypeHistory
  <2> QED
    BY <1>4, <2>2, <2>3, TypeFrame DEF UnLeave, database, zulip, lock
<1>5. ASSUME UnLock(k) PROVE TypeOK'
  <2>1. TypeCallers' /\ late' \subseteq Callers
    BY <1>5, ReturnType, ContinueType DEF UnLock, Unsubscribing
  <2>2. writers' \in [Groups -> SUBSET Callers]
    BY <1>5 DEF UnLock, TypeOK, TypeService
  <2> QED
    BY <1>5, <2>1, <2>2, TypeFrame DEF UnLock, database, zulip, lock
<1>6. ASSUME UnDelete(k) PROVE TypeOK'
  <2>1. TypeCallers' /\ late' \subseteq Callers
    BY <1>6, ReturnType, ContinueType DEF UnDelete, Unsubscribing
  <2>2. members' \in [Groups -> SUBSET Users]
    BY <1>6, MembersType DEF UnDelete, TypeOK
  <2>3. readers' \in [Groups -> SUBSET Callers] /\ writers' \in [Groups -> SUBSET Callers]
    BY <1>6, ReleaseType DEF UnDelete, TypeOK
  <2>4. kept' \subseteq subs
    BY <1>6 DEF UnDelete, TypeOK, TypeHistory
  <2>5. subs \subseteq Users \X Channels
    BY <1>6 DEF TypeOK, TypeZulip
  <2> QED
    BY <1>6, <2>1, <2>2, <2>3, <2>4, <2>5, TypeFrame DEF UnDelete, database, zulip, lock
<1>7. ASSUME UnResub(k) PROVE TypeOK'
  <2>1. TypeCallers' /\ late' \subseteq Callers
    BY <1>7, ReturnType, ContinueType DEF UnResub, Unsubscribing
  <2>2. subs' \subseteq Users \X Channels /\ kept' \subseteq subs'
    BY <1>7, EnterType DEF UnResub, TypeOK, TypeHistory
  <2> QED
    BY <1>7, <2>1, <2>2, TypeFrame DEF UnResub, database, zulip, lock
<1>8. ASSUME UnFinal(k) PROVE TypeOK'
  <2>1. \A cs \in SUBSET Channels : [job[k] EXCEPT !.target = cs, !.final = TRUE] \in Job
    BY DEF Job
  <2>2. chans[job[k].g] \in SUBSET Channels
    BY DEF TypeOK, TypeDatabase
  <2>3. TypeCallers' /\ late' \subseteq Callers
    BY <1>8, <2>1, <2>2, ReturnType, ContinueType DEF UnFinal, Unsubscribing
  <2> QED
    BY <1>8, <2>3, TypeLocal DEF UnFinal
<1> QED
  BY <1>1, <1>2, <1>3, <1>4, <1>5, <1>6, <1>7, <1>8

LEMMA UpdateStepsType ==
  ASSUME TypeOK, NEW k \in Callers
  PROVE  /\ UpMembers(k) => TypeOK'
         /\ UpEnter(k) => TypeOK'
         /\ UpCommit(k) => TypeOK'
         /\ UpCheck(k) => TypeOK'
         /\ UpClean(k) => TypeOK'
<1> USE JobType, PlacesType
<1>1. ASSUME UpMembers(k) PROVE TypeOK'
  <2>1. members[job[k].g] \in SUBSET Users
    BY DEF TypeOK, TypeZulip
  <2>2. \A us \in SUBSET Users : [job[k] EXCEPT !.users = us] \in Job
    BY DEF Job
  <2>3. TypeCallers' /\ late' \subseteq Callers
    BY <1>1, <2>1, <2>2, ReturnType, ContinueType DEF UpMembers, Updating
  <2> QED
    BY <1>1, <2>3, TypeLocal DEF UpMembers
<1>2. ASSUME UpEnter(k) PROVE TypeOK'
  <2>1. TypeCallers' /\ late' \subseteq Callers
    BY <1>2, ReturnType, ContinueType DEF UpEnter, Updating
  <2>2. subs' \subseteq Users \X Channels /\ kept' \subseteq subs'
    BY <1>2, EnterType DEF UpEnter, TypeOK, TypeHistory
  <2> QED
    BY <1>2, <2>1, <2>2, TypeFrame DEF UpEnter, database, zulip, lock
<1>3. ASSUME UpCommit(k) PROVE TypeOK'
  <2>1. TypeCallers' /\ late' \subseteq Callers
    BY <1>3, ReturnType, ContinueType DEF UpCommit, Updating
  <2>2. UNCHANGED chans \/ chans' \in [Groups -> SUBSET Channels]
    BY <1>3 DEF UpCommit, TypeOK, TypeDatabase
  <2>3. kept' \subseteq subs
    BY <1>3 DEF UpCommit, TypeOK, TypeHistory
  <2>4. subs \subseteq Users \X Channels
    BY <1>3 DEF TypeOK, TypeZulip
  <2> QED
    BY <1>3, <2>1, <2>2, <2>3, <2>4, TypeFrame DEF UpCommit, database, zulip, lock
<1>4. ASSUME UpCheck(k) PROVE TypeOK'
  <2>1. \A us \in SUBSET Users : [job[k] EXCEPT !.users = us] \in Job
    BY DEF Job
  <2>2. TypeCallers' /\ late' \subseteq Callers
    BY <1>4, <2>1, ReturnType, ContinueType DEF UpCheck, Updating
  <2> QED
    BY <1>4, <2>2, TypeLocal DEF UpCheck
<1>5. ASSUME UpClean(k) PROVE TypeOK'
  <2>1. TypeCallers' /\ late' \subseteq Callers
    BY <1>5, ReturnType, ContinueType DEF UpClean, Updating
  <2>2. subs' \subseteq Users \X Channels /\ kept' \subseteq subs'
    BY <1>5, LeaveType DEF UpClean, TypeOK, TypeHistory
  <2> QED
    BY <1>5, <2>1, <2>2, TypeFrame DEF UpClean, database, zulip, lock
<1> QED
  BY <1>1, <1>2, <1>3, <1>4, <1>5

LEMMA DeleteStepsType ==
  ASSUME TypeOK, NEW k \in Callers
  PROVE  /\ DelLock(k) => TypeOK'
         /\ DelList(k) => TypeOK'
         /\ DelEmpty(k) => TypeOK'
         /\ DelDeactivate(k) => TypeOK'
         /\ DelRestore(k) => TypeOK'
         /\ DelRow(k) => TypeOK'
<1> USE JobType, PlacesType
<1>1. ASSUME DelLock(k) PROVE TypeOK'
  <2>1. TypeCallers' /\ late' \subseteq Callers
    BY <1>1, ReturnType, ContinueType DEF DelLock, Deleting
  <2>2. writers' \in [Groups -> SUBSET Callers]
    BY <1>1 DEF DelLock, TypeOK, TypeService
  <2> QED
    BY <1>1, <2>1, <2>2, TypeFrame DEF DelLock, database, zulip, lock
<1>2. ASSUME DelList(k) PROVE TypeOK'
  <2>1. members[job[k].g] \in SUBSET Users
    BY DEF TypeOK, TypeZulip
  <2>2. \A us \in SUBSET Users : [job[k] EXCEPT !.users = us] \in Job
    BY DEF Job
  <2>3. TypeCallers' /\ late' \subseteq Callers
    BY <1>2, <2>1, <2>2, ReturnType, ContinueType DEF DelList, Deleting
  <2> QED
    BY <1>2, <2>3, TypeLocal DEF DelList
<1>3. ASSUME DelEmpty(k) PROVE TypeOK'
  <2>1. TypeCallers' /\ late' \subseteq Callers
    BY <1>3, ReturnType, ContinueType DEF DelEmpty, Deleting
  <2>2. UNCHANGED members \/ members' \in [Groups -> SUBSET Users]
    BY <1>3, MembersType DEF DelEmpty, TypeOK
  <2>3. UNCHANGED lock \/ (readers' \in [Groups -> SUBSET Callers] /\ writers' \in [Groups -> SUBSET Callers])
    BY <1>3, ReleaseType DEF DelEmpty, TypeOK
  <2> QED
    BY <1>3, <2>1, <2>2, <2>3, TypeFrame DEF DelEmpty, database, zulip, lock
<1>4. ASSUME DelDeactivate(k) PROVE TypeOK'
  <2>1. TypeCallers' /\ late' \subseteq Callers
    BY <1>4, ReturnType, ContinueType DEF DelDeactivate, Deleting
  <2> QED
    BY <1>4, <2>1, TypeFrame DEF DelDeactivate, database, zulip, lock
<1>5. ASSUME DelRestore(k) PROVE TypeOK'
  <2>1. TypeCallers' /\ late' \subseteq Callers
    BY <1>5, ReturnType, ContinueType DEF DelRestore, Deleting
  <2>2. members' \in [Groups -> SUBSET Users]
    BY <1>5, MembersType DEF DelRestore, TypeOK
  <2>3. readers' \in [Groups -> SUBSET Callers] /\ writers' \in [Groups -> SUBSET Callers]
    BY <1>5, ReleaseType DEF DelRestore, TypeOK
  <2> QED
    BY <1>5, <2>1, <2>2, <2>3, TypeFrame DEF DelRestore, database, zulip, lock
<1>6. ASSUME DelRow(k) PROVE TypeOK'
  <2>1. TypeCallers' /\ late' \subseteq Callers
    BY <1>6, ReturnType, ContinueType DEF DelRow, Deleting
  <2>2. readers' \in [Groups -> SUBSET Callers] /\ writers' \in [Groups -> SUBSET Callers]
    BY <1>6, ReleaseType DEF DelRow, TypeOK
  <2>3. chans' \in [Groups -> SUBSET Channels]
    BY <1>6 DEF DelRow, TypeOK, TypeDatabase
  <2>4. kept' \subseteq subs
    BY <1>6 DEF DelRow, TypeOK, TypeHistory
  <2>5. subs \subseteq Users \X Channels
    BY <1>6 DEF TypeOK, TypeZulip
  <2> QED
    BY <1>6, <2>1, <2>2, <2>3, <2>4, <2>5, TypeFrame DEF DelRow, database, zulip, lock
<1> QED
  BY <1>1, <1>2, <1>3, <1>4, <1>5, <1>6

LEMMA BeginType ==
  ASSUME TypeOK, NEW k \in Callers, NEW o, Begin(k, o),
         TypeCallers', late' \subseteq Callers,
         UNCHANGED <<database, zulip, gen, lock, faults, kept>>
  PROVE  TypeOK'
<1>1. ops' \in 0..MaxOps /\ called' \subseteq Operations
  BY SetsAssumption DEF Begin, TypeOK, TypeHistory
<1> QED
  BY <1>1 DEF TypeOK, TypeDatabase, TypeZulip, TypeService, TypeHistory, database, zulip, lock

LEMMA CallsType ==
  ASSUME TypeOK, NEW k \in Callers, Call(k)
  PROVE  TypeOK'
<1> USE PlacesType
<1>1. ASSUME NEW g \in Groups, NEW u \in Users, Subscribe(k, g, u) PROVE TypeOK'
  <2>1. [NoJob EXCEPT !.g = g, !.u = u] \in Job
    BY NoJobIsJob DEF Job
  <2>2. TypeCallers' /\ late' \subseteq Callers
    BY <1>1, <2>1, ContinueType DEF Subscribe, Subscribing
  <2> QED
    BY <1>1, <2>2, BeginType DEF Subscribe
<1>2. ASSUME NEW g \in Groups, NEW u \in Users, NEW keep \in BOOLEAN, Unsubscribe(k, g, u, keep)
      PROVE  TypeOK'
  <2>1. chans[g] \in SUBSET Channels
    BY DEF TypeOK, TypeDatabase
  <2>2. [NoJob EXCEPT !.g = g, !.u = u, !.keep = keep, !.chans = chans[g]] \in Job
    BY <2>1, NoJobIsJob DEF Job
  <2>3. TypeCallers' /\ late' \subseteq Callers
    BY <1>2, <2>2, ContinueType DEF Unsubscribe
  <2> QED
    BY <1>2, <2>3, BeginType DEF Unsubscribe
<1>3. ASSUME NEW g \in Groups, Delete(k, g) PROVE TypeOK'
  <2>1. [NoJob EXCEPT !.g = g] \in Job
    BY NoJobIsJob DEF Job
  <2>2. TypeCallers' /\ late' \subseteq Callers
    BY <1>3, <2>1, ContinueType DEF Delete, Deleting
  <2> QED
    BY <1>3, <2>2, BeginType DEF Delete
<1>4. ASSUME NEW g \in Groups, NEW add \in SUBSET Channels, NEW remove \in SUBSET Channels,
             Update(k, g, add, remove)
      PROVE  TypeOK'
  <2>1. [NoJob EXCEPT !.g = g, !.chans = add, !.remove = remove, !.target = add \ chans[g]] \in Job
    BY NoJobIsJob DEF Job
  <2>2. TypeCallers' /\ late' \subseteq Callers
    BY <1>4, <2>1, ContinueType DEF Update, Updating
  <2> QED
    BY <1>4, <2>2, BeginType DEF Update
<1>5. ASSUME NEW g \in Groups, NEW c \in Channels, Update(k, g, {c}, {}) \/ Update(k, g, {}, {c})
      PROVE  TypeOK'
  BY <1>4, <1>5, {c} \in SUBSET Channels, {} \in SUBSET Channels
<1> QED
  BY <1>1, <1>2, <1>3, <1>5 DEF Call

\* A lost answer keeps the types: what the request does keeps them.
LEMMA EffectType ==
  ASSUME TypeOK, NEW k \in Callers, Effect(k)
  PROVE  /\ active' \subseteq active
         /\ members' \in [Groups -> SUBSET Users]
         /\ subs' \subseteq Users \X Channels /\ kept' \subseteq subs'
<1> USE JobType
<1>0. /\ TypeZulip /\ kept \subseteq subs
      /\ members \in [Groups -> SUBSET Users] /\ subs \subseteq Users \X Channels
  BY DEF TypeOK, TypeZulip, TypeHistory
<1> DEFINE
      j == job[k]
      Member  == /\ AddMembers(j.g, {j.u}) \/ DropMembers(j.g, {j.u})
                   \/ AddMembers(j.g, j.users) \/ DropMembers(j.g, j.users)
                 /\ UNCHANGED <<active, subs, kept>>
      Off     == active' = active \ {j.g} /\ UNCHANGED <<members, subs, kept>>
      Channel == /\ \/ Enter({j.u}, j.target) \/ Enter({j.u}, j.chans) \/ Enter(j.users, j.target)
                    \/ Leave({j.u}, j.done) \/ Leave({j.u}, j.target \ j.covered)
                    \/ Leave(j.users, j.target)
                 /\ UNCHANGED <<active, members>>
<1>1. Member \/ Off \/ Channel
  BY DEF Effect
<1>2. CASE Member
  BY <1>0, <1>2, MembersType
<1>3. CASE Off
  BY <1>0, <1>3
<1>4. CASE Channel
  BY <1>0, <1>4, EnterType, LeaveType
<1> QED
  BY <1>1, <1>2, <1>3, <1>4

LEMMA ErrorType ==
  ASSUME TypeOK, NEW k \in Callers, Error(k)
  PROVE  /\ TypeCallers' /\ late' \subseteq Callers
         /\ readers' \in [Groups -> SUBSET Callers] /\ writers' \in [Groups -> SUBSET Callers]
         /\ UNCHANGED <<database, gen, ops, called>>
<1>1. AfterError(k) \in Places
  BY PlacesType DEF AfterError, Subscribing, Deleting
<1>2. TypeCallers' /\ late' \subseteq Callers
  BY <1>1, JobType, ReturnType, ContinueType DEF Error
<1>3. readers' \in [Groups -> SUBSET Callers] /\ writers' \in [Groups -> SUBSET Callers]
  BY ReleaseType DEF Error, TypeOK, TypeService, lock
<1> QED
  BY <1>2, <1>3 DEF Error

LEMMA FaultsType ==
  ASSUME TypeOK, NEW k \in Callers, Fails(k) \/ Refused(k)
  PROVE  TypeOK'
<1>0. Error(k)
  BY DEF Fails, Refused
<1>1. CASE Fails(k)
  <2>1. faults' \in 0..MaxFaults
    BY <1>1, SetsAssumption DEF Fails, TypeOK, TypeHistory
  <2>2. /\ active' \subseteq active
        /\ members' \in [Groups -> SUBSET Users]
        /\ subs' \subseteq Users \X Channels /\ kept' \subseteq subs'
    BY <1>1, EffectType DEF Fails, TypeOK, TypeZulip, TypeHistory
  <2> QED
    BY <1>0, <2>1, <2>2, ErrorType, TypeFrame DEF database
<1>2. CASE Refused(k)
  <2>1. UNCHANGED <<zulip, faults, kept>>
    BY <1>2 DEF Refused
  <2>2. faults' \in 0..MaxFaults
    BY <2>1, <1>2 DEF TypeOK, TypeHistory
  <2> QED
    BY <1>0, <2>1, <2>2, ErrorType, TypeFrame DEF database, zulip
<1> QED
  BY <1>1, <1>2

\* The types hold at first, and each step keeps them.
LEMMA TypeInit == Init => TypeOK
<1> SUFFICES ASSUME Init PROVE TypeOK
  OBVIOUS
<1>1. TypeDatabase /\ TypeZulip
  BY DEF Init, TypeDatabase, TypeZulip
<1>2. TypeService
  BY DEF Init, TypeService
<1>3. TypeCallers
  BY NoJobIsJob, PlacesType DEF Init, TypeCallers
<1>4. TypeHistory
  BY SetsAssumption DEF Init, TypeHistory
<1> QED
  BY <1>1, <1>2, <1>3, <1>4 DEF TypeOK

LEMMA TypeStep == TypeOK /\ [Next]_vars => TypeOK'
<1> SUFFICES ASSUME TypeOK, [Next]_vars PROVE TypeOK'
  OBVIOUS
<1>1. ASSUME NEW k \in Callers, Call(k) PROVE TypeOK'
  BY <1>1, CallsType
<1>2. ASSUME NEW k \in Callers, Step(k) PROVE TypeOK'
  BY <1>2, SubscribeStepsType, UnsubscribeStepsType, UpdateStepsType, DeleteStepsType DEF Step
<1>3. ASSUME NEW k \in Callers, Fails(k) \/ Refused(k) PROVE TypeOK'
  BY <1>3, FaultsType
<1>4. CASE UNCHANGED vars
  BY <1>4 DEF vars, database, zulip, lock, callers, TypeOK, TypeDatabase, TypeZulip, TypeService,
              TypeCallers, TypeHistory
<1> QED
  BY <1>1, <1>2, <1>3, <1>4 DEF Next

\* Every variable keeps its type, whatever the callers do and whatever fails:
\* api_channel_groups.go never takes a user or channel out of thin air, and the
\* generations never fall below zero.
THEOREM TypeCorrect == Spec => []TypeOK
<1> QED
  BY TypeInit, TypeStep, PTL DEF Spec

---------------------------------------------------------------------------
(* The invariants behind NoLostSubscribe and DeletedIsEmpty.               *)

\* Where a caller holds the lock of its group, shared or exclusively.
Sharing   == {"subAdd", "subBump"}
Exclusive == {"unDelete"} \cup (Deleting \ {"delLock"})
Outside   == Places \ (Sharing \cup Exclusive)

\* The lock is held by exactly those callers, an exclusive holder alone.
LockInv ==
  /\ \A g \in Groups, k \in Callers :
       /\ k \in readers[g] <=> pc[k] \in Sharing /\ job[k].g = g
       /\ k \in writers[g] <=> pc[k] \in Exclusive /\ job[k].g = g
  /\ \A g \in Groups : \A i, k \in Callers :
       i \in writers[g] => k \notin readers[g] /\ (k \in writers[g] => k = i)

\* A subscribe of the same user to the same group that has not counted the
\* generation up yet.
Overtaking(k) ==
  \E r \in Callers : pc[r] = "subBump" /\ job[r].g = job[k].g /\ job[r].u = job[k].u

\* The generation tells that an unsubscribe was overtaken, or is about to.
LateOf(k) ==
  LET now == gen[job[k].g][job[k].u]
  IN  /\ k \in late => pc[k] \in Unsubscribing \cup {"unResub"}
      /\ pc[k] \in {"unStart", "unLock", "unDelete"} => ~job[k].final
      /\ pc[k] \in Unsubscribing /\ ~job[k].final => job[k].start <= now
      /\ pc[k] \in Unsubscribing /\ ~job[k].final /\ k \in late
           => now > job[k].start \/ Overtaking(k)
      /\ pc[k] = "unDelete" => k \notin late

LateInv == \A k \in Callers : LateOf(k)

\* What a caller knows of the group whose lock it holds.
DeleteOf(k) ==
  LET g == job[k].g
  IN  /\ pc[k] \in {"subAdd", "delEmpty", "delRestore"} => g \in exists
      /\ pc[k] = "delDeactivate" /\ job[k].users # {} => g \in exists
      /\ pc[k] = "delEmpty" => members[g] \subseteq job[k].users
      /\ pc[k] \in {"delDeactivate", "delRow"} => members[g] = {}
      /\ pc[k] = "delRow" => g \notin active

DeleteInv == DeletedIsEmpty /\ \A k \in Callers : DeleteOf(k)

IInv == TypeOK /\ LockInv /\ LateInv /\ DeleteInv

MovesAlone(k) == \A i \in Callers \ {k} : pc'[i] = pc[i] /\ job'[i] = job[i]

LEMMA MoveTo ==
  ASSUME TypeCallers, NEW k \in Callers, NEW p, NEW j, Goto(k, p), Set(k, j)
  PROVE  pc'[k] = p /\ job'[k] = j /\ MovesAlone(k)
  BY DEF TypeCallers, Goto, Set, MovesAlone

LEMMA ContinueTo ==
  ASSUME TypeCallers, NEW k \in Callers, NEW p, NEW j, Continue(k, p, j)
  PROVE  pc'[k] = p /\ job'[k] = j /\ MovesAlone(k) /\ late' = late
  BY MoveTo DEF Continue

LEMMA ReturnTo ==
  ASSUME TypeCallers, NEW k \in Callers, Return(k)
  PROVE  pc'[k] = "idle" /\ job'[k] = NoJob /\ MovesAlone(k) /\ late' = late \ {k}
  BY MoveTo DEF Return

---------------------------------------------------------------------------
(* What keeps them.                                                        *)

\* The lock, where its holders stay the same,
LEMMA LockKeep ==
  ASSUME LockInv, NEW k \in Callers, MovesAlone(k), UNCHANGED lock,
         pc'[k] \in Sharing <=> pc[k] \in Sharing,
         pc'[k] \in Exclusive <=> pc[k] \in Exclusive,
         pc[k] \in Sharing \cup Exclusive => job'[k].g = job[k].g
  PROVE  LockInv'
<1>1. \A g \in Groups, i \in Callers :
        /\ i \in readers'[g] <=> pc'[i] \in Sharing /\ job'[i].g = g
        /\ i \in writers'[g] <=> pc'[i] \in Exclusive /\ job'[i].g = g
  BY DEF LockInv, MovesAlone, lock
<1> QED
  BY <1>1 DEF LockInv, lock

\* where the caller no longer holds it,
LEMMA LockRelease ==
  ASSUME LockInv, NEW k \in Callers, MovesAlone(k), Release(k),
         pc'[k] \notin Sharing \cup Exclusive
  PROVE  LockInv'
<1>1. \A g \in Groups, i \in Callers :
        /\ i \in readers'[g] <=> i \in readers[g] /\ i # k
        /\ i \in writers'[g] <=> i \in writers[g] /\ i # k
  BY DEF Release
<1>2. \A g \in Groups, i \in Callers :
        /\ i \in readers'[g] <=> pc'[i] \in Sharing /\ job'[i].g = g
        /\ i \in writers'[g] <=> pc'[i] \in Exclusive /\ job'[i].g = g
  BY <1>1 DEF LockInv, MovesAlone
<1> QED
  BY <1>1, <1>2 DEF LockInv

\* and where it takes the lock shared or exclusively.
LEMMA LockShared ==
  ASSUME TypeOK, LockInv, NEW k \in Callers, MovesAlone(k), NEW g \in Groups, Free(g),
         readers' = [readers EXCEPT ![g] = readers[g] \cup {k}], UNCHANGED writers,
         pc[k] \notin Sharing \cup Exclusive, pc'[k] \in Sharing, job'[k].g = g
  PROVE  LockInv'
<1>0. Sharing \cap Exclusive = {}
  BY DEF Sharing, Exclusive, Deleting
<1>1. \A h \in Groups, i \in Callers :
        i \in readers'[h] <=> i \in readers[h] \/ (i = k /\ h = g)
  BY DEF TypeOK, TypeService
<1>2. \A h \in Groups, i \in Callers :
        /\ i \in readers'[h] <=> pc'[i] \in Sharing /\ job'[i].g = h
        /\ i \in writers'[h] <=> pc'[i] \in Exclusive /\ job'[i].g = h
  BY <1>0, <1>1 DEF LockInv, MovesAlone
<1> QED
  BY <1>1, <1>2 DEF LockInv, Free

LEMMA LockExclusive ==
  ASSUME TypeOK, LockInv, NEW k \in Callers, MovesAlone(k), NEW g \in Groups, Unlocked(g),
         writers' = [writers EXCEPT ![g] = {k}], UNCHANGED readers,
         pc[k] \notin Sharing \cup Exclusive, pc'[k] \in Exclusive, job'[k].g = g
  PROVE  LockInv'
<1>0. Sharing \cap Exclusive = {}
  BY DEF Sharing, Exclusive, Deleting
<1>1. \A h \in Groups, i \in Callers :
        i \in writers'[h] <=> i \in writers[h] \/ (i = k /\ h = g)
  BY DEF TypeOK, TypeService, Unlocked
<1>2. \A h \in Groups, i \in Callers :
        /\ i \in readers'[h] <=> pc'[i] \in Sharing /\ job'[i].g = h
        /\ i \in writers'[h] <=> pc'[i] \in Exclusive /\ job'[i].g = h
  BY <1>0, <1>1 DEF LockInv, MovesAlone
<1> QED
  BY <1>1, <1>2 DEF LockInv, Unlocked

\* The generations, where a caller neither adds a member nor counts.
LEMMA LateFrame ==
  ASSUME LateInv, NEW k \in Callers, MovesAlone(k), UNCHANGED gen, late' \subseteq late,
         pc[k] # "subBump", LateOf(k)'
  PROVE  LateInv'
<1> SUFFICES ASSUME NEW i \in Callers \ {k} PROVE LateOf(i)'
  BY DEF LateInv
<1>1. pc'[i] = pc[i] /\ job'[i] = job[i]
  BY DEF MovesAlone
<1>2. Overtaking(i) => Overtaking(i)'
  BY <1>1 DEF Overtaking, MovesAlone
<1> QED
  BY <1>1, <1>2 DEF LateInv, LateOf

\* The same, where the caller is no unsubscribe and becomes none.
LEMMA LateOther ==
  ASSUME LateInv, NEW k \in Callers, MovesAlone(k), UNCHANGED gen, late' \subseteq late,
         pc[k] # "subBump", k \notin late',
         pc'[k] \notin Unsubscribing \cup {"unStart"}
  PROVE  LateInv'
<1>1. LateOf(k)'
  BY DEF LateOf, Unsubscribing
<1> QED
  BY <1>1, LateFrame

\* The members, where only holders of the lock add any and delete the group.
LEMMA DeleteFrame ==
  ASSUME TypeOK, LockInv, DeleteInv, NEW k \in Callers, MovesAlone(k), active' \subseteq active,
         exists' \subseteq exists,
         \A g \in exists \ exists' : /\ pc[k] = "delRow" /\ g = job[k].g
                                     /\ members'[g] = members[g],
         \A g \in Groups : \/ members'[g] \subseteq members[g]
                           \/ pc[k] \in {"subAdd", "delRestore"} /\ g = job[k].g /\ g \in exists',
         DeleteOf(k)'
  PROVE  DeleteInv'
<1>1. DeletedIsEmpty'
  BY DEF DeleteInv, DeletedIsEmpty, DeleteOf
<1>2. ASSUME NEW i \in Callers \ {k} PROVE DeleteOf(i)'
  <2>1. pc'[i] = pc[i] /\ job'[i] = job[i]
    BY DEF MovesAlone
  <2>2. job[i].g \in Groups
    BY JobType
  <2>3. CASE job[k].g = job[i].g /\ pc[i] \in Sharing \cup Exclusive
                                 /\ pc[k] \in {"subAdd", "delRestore", "delRow"}
    <3>1. pc[i] \in Sharing
      BY <2>2, <2>3 DEF LockInv, Sharing, Exclusive, Deleting
    <3>2. pc[k] = "subAdd"
      BY <2>2, <2>3, <3>1 DEF LockInv, Sharing, Exclusive, Deleting
    <3> QED
      BY <2>1, <2>2, <3>1, <3>2 DEF DeleteInv, DeleteOf, Sharing
  <2>4. CASE ~(job[k].g = job[i].g /\ pc[i] \in Sharing \cup Exclusive
                                   /\ pc[k] \in {"subAdd", "delRestore", "delRow"})
    BY <2>1, <2>2, <2>4 DEF DeleteInv, DeleteOf, Sharing, Exclusive, Deleting
  <2> QED
    BY <2>3, <2>4
<1> QED
  BY <1>1, <1>2 DEF DeleteInv

\* The same, where the caller knows nothing of its group.
LEMMA DeleteOther ==
  ASSUME TypeOK, LockInv, DeleteInv, NEW k \in Callers, MovesAlone(k),
         UNCHANGED exists, active' \subseteq active,
         \A g \in Groups : \/ members'[g] \subseteq members[g]
                           \/ pc[k] \in {"subAdd", "delRestore"} /\ g = job[k].g /\ g \in exists,
         pc'[k] \in Outside \cup {"subBump", "unDelete"}
  PROVE  DeleteInv'
<1>1. DeleteOf(k)'
  BY DEF DeleteOf, Outside, Exclusive, Sharing, Deleting
<1> QED
  BY <1>1, DeleteFrame

---------------------------------------------------------------------------
(* The steps of subscribes, unsubscribes and updates.                      *)

KeepsInv == LockInv' /\ LateInv' /\ DeleteInv'

\* A caller that holds no lock, and adds no member.
LEMMA Plain ==
  ASSUME IInv, NEW k \in Callers, MovesAlone(k), UNCHANGED <<lock, gen, exists, active>>,
         \A g \in Groups : members'[g] \subseteq members[g],
         late' \subseteq late, pc[k] \in Outside, pc'[k] \in Outside, LateOf(k)'
  PROVE  KeepsInv
<1>1. LockInv'
  BY LockKeep DEF IInv, Outside
<1>2. LateInv'
  BY LateFrame DEF IInv, Outside, Sharing
<1>3. DeleteInv'
  BY DeleteOther DEF IInv
<1> QED
  BY <1>1, <1>2, <1>3 DEF KeepsInv

\* Places before and after which a caller is no unsubscribe on its way.
Apart == Outside \ (Unsubscribing \cup {"unStart", "unResub"})

LEMMA PlainApart ==
  ASSUME IInv, NEW k \in Callers, MovesAlone(k), UNCHANGED <<lock, gen, exists, active>>,
         \A g \in Groups : members'[g] \subseteq members[g],
         late' \subseteq late, pc[k] \in Apart, pc'[k] \in Apart \cup {"unResub"}
  PROVE  KeepsInv
<1>1. k \notin late
  BY DEF IInv, LateInv, LateOf, Apart
<1>2. LateOf(k)'
  BY <1>1 DEF LateOf, Apart, Unsubscribing
<1>3. {"unResub"} \subseteq Outside
  BY DEF Outside, Places, Sharing, Exclusive, Deleting
<1> QED
  BY <1>2, <1>3, Plain DEF Apart

LEMMA Shrinks ==
  ASSUME TypeOK, NEW g \in Groups, NEW us, UNCHANGED members \/ DropMembers(g, us)
  PROVE  \A h \in Groups : members'[h] \subseteq members[h]
  BY DEF TypeOK, TypeZulip, DropMembers

LEMMA ApartPlaces ==
  (Subscribing \ Sharing) \cup Updating \cup {"idle", "delLock", "unRestore", "unFinal"} \subseteq Apart
  BY DEF Apart, Outside, Places, Subscribing, Unsubscribing, Updating, Deleting, Sharing, Exclusive


LEMMA SubscribeKeeps ==
  ASSUME IInv, NEW k \in Callers
  PROVE  /\ SubLock(k) => KeepsInv
         /\ SubAdd(k) => KeepsInv
         /\ SubBump(k) => KeepsInv
         /\ SubRead(k) => KeepsInv
         /\ SubEnter(k) => KeepsInv
         /\ SubCheck(k) => KeepsInv
         /\ SubClean(k) => KeepsInv
         /\ UndoMember(k) => KeepsInv
         /\ UndoChannels(k) => KeepsInv
<1> USE JobType, ApartPlaces DEF Subscribing, Sharing, Updating
<1>0. TypeOK /\ TypeCallers
  BY DEF IInv, TypeOK
<1>n. k \in late => pc[k] \in Unsubscribing \cup {"unResub"}
  BY DEF IInv, LateInv, LateOf
<1>1. ASSUME SubLock(k) PROVE KeepsInv
  <2>1. k \notin late
    BY <1>1, <1>n DEF SubLock, Unsubscribing
  <2>2. CASE job[k].g \in exists
    <3>1. MovesAlone(k) /\ late' = late /\ pc'[k] = "subAdd" /\ job'[k] = job[k]
      BY <1>0, <1>1, <2>2, ContinueTo DEF SubLock
    <3>2. LockInv'
      BY <1>0, <1>1, <2>2, <3>1, LockShared DEF SubLock, IInv, Exclusive, Deleting
    <3>3. LateInv'
      BY <1>1, <2>1, <3>1, LateOther DEF SubLock, IInv, Unsubscribing
    <3>4. DeleteOf(k)'
      BY <1>1, <2>2, <3>1 DEF SubLock, DeleteOf, database
    <3>5. DeleteInv'
      BY <1>0, <1>1, <3>1, <3>4, DeleteFrame DEF SubLock, IInv, database, zulip
    <3> QED
      BY <3>2, <3>3, <3>5 DEF KeepsInv
  <2>3. CASE job[k].g \notin exists
    <3>1. MovesAlone(k) /\ late' \subseteq late /\ pc'[k] = "idle"
      BY <1>0, <1>1, <2>3, ReturnTo DEF SubLock
    <3> QED
      BY <1>0, <1>1, <2>3, <3>1, PlainApart DEF SubLock, database, zulip, lock
  <2> QED
    BY <2>2, <2>3
<1>2. ASSUME SubAdd(k) PROVE KeepsInv
  <2>1. MovesAlone(k) /\ pc'[k] = "subBump" /\ job' = job
    BY <1>0, <1>2 DEF SubAdd, Goto, TypeCallers, MovesAlone
  <2>2. LockInv'
    BY <1>2, <2>1, LockKeep DEF SubAdd, IInv, Exclusive, Deleting
  <2>3. k \notin late /\ k \in readers[job[k].g]
    BY <1>2, <1>n DEF SubAdd, Unsubscribing, IInv, LockInv
  <2>4. ASSUME NEW i \in Callers PROVE LateOf(i)'
    <3>1. (i \in late)' => i \in late \/ (/\ pc[i] \in Unsubscribing
                                         /\ job[i].g = job[k].g /\ job[i].u = job[k].u)
      BY <1>2 DEF SubAdd
    <3>2. CASE i = k
      BY <1>2, <2>1, <2>3, <3>1, <3>2 DEF LateOf, Unsubscribing, SubAdd
    <3>3. CASE i # k
      <4>1. pc'[i] = pc[i] /\ job'[i] = job[i] /\ gen' = gen
        BY <1>2, <2>1, <3>3 DEF MovesAlone, SubAdd
      <4>2. Overtaking(i) => Overtaking(i)'
        BY <1>2, <2>1 DEF Overtaking, MovesAlone, SubAdd
      <4>3. job[i].g = job[k].g /\ job[i].u = job[k].u => Overtaking(i)'
        BY <2>1, <4>1 DEF Overtaking
      <4>4. job[i].g = job[k].g => pc[i] # "unDelete"
        BY <1>2, <2>3 DEF IInv, LockInv, Exclusive
      <4> QED
        BY <3>1, <4>1, <4>2, <4>3, <4>4 DEF LateOf, IInv, LateInv
    <3> QED
      BY <3>2, <3>3
  <2>5. job[k].g \in exists /\ UNCHANGED exists
    BY <1>2 DEF SubAdd, IInv, DeleteInv, DeleteOf, database
  <2>6. \A g \in Groups : members'[g] \subseteq members[g] \/ g = job[k].g
    BY <1>0, <1>2 DEF SubAdd, AddMembers, TypeOK, TypeZulip
  <2>7. DeleteInv'
    BY <1>0, <1>2, <2>1, <2>5, <2>6, DeleteOther DEF SubAdd, IInv
  <2> QED
    BY <2>2, <2>4, <2>7 DEF KeepsInv, LateInv
<1>3. ASSUME SubBump(k) PROVE KeepsInv
  <2>1. MovesAlone(k) /\ pc'[k] = "subRead" /\ job'[k] = job[k] /\ late' = late
    BY <1>0, <1>3, ContinueTo DEF SubBump
  <2>2. LockInv'
    BY <1>3, <2>1, LockRelease DEF SubBump, IInv, Exclusive, Deleting
  <2>3. /\ gen'[job[k].g][job[k].u] = gen[job[k].g][job[k].u] + 1
        /\ \A g \in Groups, u \in Users : gen'[g][u] >= gen[g][u] /\ gen[g][u] \in Nat /\ gen'[g][u] \in Nat
    BY <1>0, <1>3 DEF SubBump, TypeOK, TypeService
  <2>4. ASSUME NEW i \in Callers PROVE LateOf(i)'
    <3>1. CASE i = k
      BY <1>3, <1>n, <2>1, <3>1 DEF LateOf, Unsubscribing, SubBump
    <3>2. CASE i # k
      <4>1. pc'[i] = pc[i] /\ job'[i] = job[i]
        BY <2>1, <3>2 DEF MovesAlone
      <4>2. job[i].g \in Groups /\ job[i].u \in Users /\ job[i].start \in Nat
        BY <1>0 DEF TypeCallers, Job
      <4>3. Overtaking(i) => Overtaking(i)' \/ (job[i].g = job[k].g /\ job[i].u = job[k].u)
        BY <2>1 DEF Overtaking, MovesAlone
      <4>4. LateOf(i)
        BY DEF IInv, LateInv
      <4> QED
        BY <2>1, <2>3, <4>1, <4>2, <4>3, <4>4 DEF LateOf
    <3> QED
      BY <3>1, <3>2
  <2>5. DeleteInv'
    BY <1>0, <1>3, <2>1, DeleteOther DEF SubBump, IInv, database, zulip, Apart
  <2> QED
    BY <2>2, <2>4, <2>5 DEF KeepsInv, LateInv
<1>4. ASSUME SubRead(k) PROVE KeepsInv
  <2>1. MovesAlone(k) /\ late' \subseteq late /\ pc'[k] \in {"undoMember", "idle", "subEnter"}
    BY <1>0, <1>4, ReturnTo, ContinueTo DEF SubRead
  <2>2. \A h \in Groups : members'[h] \subseteq members[h]
    BY <1>0, <1>4, Shrinks DEF SubRead, zulip
  <2> QED
    BY <1>4, <2>1, <2>2, PlainApart DEF SubRead, database, zulip, lock
<1>5. ASSUME SubEnter(k) PROVE KeepsInv
  <2>1. MovesAlone(k) /\ late' \subseteq late /\ pc'[k] \in {"subCheck"}
    BY <1>0, <1>5, ReturnTo, ContinueTo DEF SubEnter
  <2>2. \A h \in Groups : members'[h] \subseteq members[h]
    BY <1>0, <1>5, Shrinks DEF SubEnter, zulip
  <2> QED
    BY <1>5, <2>1, <2>2, PlainApart DEF SubEnter, database, zulip, lock
<1>6. ASSUME SubCheck(k) PROVE KeepsInv
  <2>1. MovesAlone(k) /\ late' \subseteq late /\ pc'[k] \in {"subRead", "subClean"}
    BY <1>0, <1>6, ReturnTo, ContinueTo DEF SubCheck
  <2>2. \A h \in Groups : members'[h] \subseteq members[h]
    BY <1>0, <1>6, Shrinks DEF SubCheck, zulip
  <2> QED
    BY <1>6, <2>1, <2>2, PlainApart DEF SubCheck, database, zulip, lock
<1>7. ASSUME SubClean(k) PROVE KeepsInv
  <2>1. MovesAlone(k) /\ late' \subseteq late /\ pc'[k] \in {"idle"}
    BY <1>0, <1>7, ReturnTo, ContinueTo DEF SubClean
  <2>2. \A h \in Groups : members'[h] \subseteq members[h]
    BY <1>0, <1>7, Shrinks DEF SubClean, zulip
  <2> QED
    BY <1>7, <2>1, <2>2, PlainApart DEF SubClean, database, zulip, lock
<1>8. ASSUME UndoMember(k) PROVE KeepsInv
  <2>1. MovesAlone(k) /\ late' \subseteq late /\ pc'[k] \in {"undoChannels"}
    BY <1>0, <1>8, ReturnTo, ContinueTo DEF UndoMember
  <2>2. \A h \in Groups : members'[h] \subseteq members[h]
    BY <1>0, <1>8, Shrinks DEF UndoMember, zulip
  <2> QED
    BY <1>8, <2>1, <2>2, PlainApart DEF UndoMember, database, zulip, lock
<1>9. ASSUME UndoChannels(k) PROVE KeepsInv
  <2>1. MovesAlone(k) /\ late' \subseteq late /\ pc'[k] \in {"idle"}
    BY <1>0, <1>9, ReturnTo, ContinueTo DEF UndoChannels
  <2>2. \A h \in Groups : members'[h] \subseteq members[h]
    BY <1>0, <1>9, Shrinks DEF UndoChannels, zulip
  <2> QED
    BY <1>9, <2>1, <2>2, PlainApart DEF UndoChannels, database, zulip, lock
<1> QED
  BY <1>1, <1>2, <1>3, <1>4, <1>5, <1>6, <1>7, <1>8, <1>9

LEMMA UpdateKeeps ==
  ASSUME IInv, NEW k \in Callers
  PROVE  /\ UpMembers(k) => KeepsInv
         /\ UpEnter(k) => KeepsInv
         /\ UpCommit(k) => KeepsInv
         /\ UpCheck(k) => KeepsInv
         /\ UpClean(k) => KeepsInv
<1> USE JobType, ApartPlaces DEF Subscribing, Sharing, Updating
<1>0. TypeOK /\ TypeCallers
  BY DEF IInv, TypeOK
<1>1. ASSUME UpMembers(k) PROVE KeepsInv
  <2>1. MovesAlone(k) /\ late' \subseteq late /\ pc'[k] \in {"upCommit", "upEnter"}
    BY <1>0, <1>1, ReturnTo, ContinueTo DEF UpMembers
  <2>2. \A h \in Groups : members'[h] \subseteq members[h]
    BY <1>0, <1>1, Shrinks DEF UpMembers, zulip
  <2> QED
    BY <1>1, <2>1, <2>2, PlainApart DEF UpMembers, database, zulip, lock
<1>2. ASSUME UpEnter(k) PROVE KeepsInv
  <2>1. MovesAlone(k) /\ late' \subseteq late /\ pc'[k] \in {"upCommit"}
    BY <1>0, <1>2, ReturnTo, ContinueTo DEF UpEnter
  <2>2. \A h \in Groups : members'[h] \subseteq members[h]
    BY <1>0, <1>2, Shrinks DEF UpEnter, zulip
  <2> QED
    BY <1>2, <2>1, <2>2, PlainApart DEF UpEnter, database, zulip, lock
<1>3. ASSUME UpCommit(k) PROVE KeepsInv
  <2>1. MovesAlone(k) /\ late' \subseteq late /\ pc'[k] \in {"idle", "upCheck"}
    BY <1>0, <1>3, ReturnTo, ContinueTo DEF UpCommit
  <2>2. \A h \in Groups : members'[h] \subseteq members[h]
    BY <1>0, <1>3, Shrinks DEF UpCommit, zulip
  <2> QED
    BY <1>3, <2>1, <2>2, PlainApart DEF UpCommit, database, zulip, lock
<1>4. ASSUME UpCheck(k) PROVE KeepsInv
  <2>1. MovesAlone(k) /\ late' \subseteq late /\ pc'[k] \in {"idle", "upClean"}
    BY <1>0, <1>4, ReturnTo, ContinueTo DEF UpCheck
  <2>2. \A h \in Groups : members'[h] \subseteq members[h]
    BY <1>0, <1>4, Shrinks DEF UpCheck, zulip
  <2> QED
    BY <1>4, <2>1, <2>2, PlainApart DEF UpCheck, database, zulip, lock
<1>5. ASSUME UpClean(k) PROVE KeepsInv
  <2>1. MovesAlone(k) /\ late' \subseteq late /\ pc'[k] \in {"idle"}
    BY <1>0, <1>5, ReturnTo, ContinueTo DEF UpClean
  <2>2. \A h \in Groups : members'[h] \subseteq members[h]
    BY <1>0, <1>5, Shrinks DEF UpClean, zulip
  <2> QED
    BY <1>5, <2>1, <2>2, PlainApart DEF UpClean, database, zulip, lock
<1> QED
  BY <1>1, <1>2, <1>3, <1>4, <1>5

---------------------------------------------------------------------------

\* A caller that returns without having held the lock.
LEMMA PlainReturn ==
  ASSUME IInv, NEW k \in Callers, Return(k), UNCHANGED <<lock, gen, exists, active>>,
         \A g \in Groups : members'[g] \subseteq members[g], pc[k] \in Outside
  PROVE  KeepsInv
<1>1. MovesAlone(k) /\ late' = late \ {k} /\ pc'[k] = "idle"
  BY ReturnTo DEF IInv, TypeOK
<1>2. LateOf(k)'
  BY <1>1 DEF LateOf, Unsubscribing
<1>3. "idle" \in Outside
  BY DEF Outside, Places, Sharing, Exclusive, Deleting
<1> QED
  BY <1>1, <1>2, <1>3, Plain

\* An unsubscribe on its way to the lock stays as late as it was.
LEMMA PlainOnTheWay ==
  ASSUME IInv, NEW k \in Callers, NEW p, NEW j, Continue(k, p, j),
         UNCHANGED <<lock, gen, exists, active, members>>,
         pc[k] \in {"unShared", "unCover", "unLeave"},
         p \in {"unShared", "unCover", "unLeave", "unLock"},
         p = "unLock" => ~job[k].final,
         j.g = job[k].g, j.u = job[k].u, j.start = job[k].start, j.final = job[k].final
  PROVE  KeepsInv
<1>1. MovesAlone(k) /\ late' = late /\ pc'[k] = p /\ job'[k] = j
  BY ContinueTo DEF IInv, TypeOK
<1>2. pc[k] \in Outside /\ pc'[k] \in Outside
  BY <1>1 DEF Outside, Places, Unsubscribing, Sharing, Exclusive, Deleting
<1>3. Overtaking(k) => Overtaking(k)'
  BY <1>1 DEF Overtaking, MovesAlone
<1>4. LateOf(k)
  BY DEF IInv, LateInv
<1>5. LateOf(k)'
  BY <1>1, <1>3, <1>4 DEF LateOf, Unsubscribing
<1> QED
  BY <1>1, <1>2, <1>5, Plain

LEMMA UnsubscribeKeeps ==
  ASSUME IInv, NEW k \in Callers
  PROVE  /\ UnStart(k) => KeepsInv
         /\ UnShared(k) => KeepsInv
         /\ UnCover(k) => KeepsInv
         /\ UnLeave(k) => KeepsInv
         /\ UnLock(k) => KeepsInv
         /\ UnDelete(k) => KeepsInv
         /\ UnResub(k) => KeepsInv
         /\ UnFinal(k) => KeepsInv
<1> USE JobType
<1>0. TypeOK /\ TypeCallers
  BY DEF IInv, TypeOK
<1>m. LateOf(k)
  BY DEF IInv, LateInv
<1>n. k \in late => pc[k] \in Unsubscribing \cup {"unResub"}
  BY <1>m DEF LateOf
<1>o. {"unStart", "unResub", "unRestore", "unShared", "unCover", "unLeave", "unLock", "unFinal", "idle"}
        \subseteq Outside
  BY DEF Outside, Places, Unsubscribing, Sharing, Exclusive, Deleting
<1>1. ASSUME UnStart(k) PROVE KeepsInv
  <2> DEFINE j == [job[k] EXCEPT !.start = gen[job[k].g][job[k].u], !.target = job[k].chans]
  <2>1. j.g = job[k].g /\ j.u = job[k].u /\ j.start = gen[job[k].g][job[k].u] /\ j.final = job[k].final
    BY <1>0 DEF Job
  <2>2. gen[job[k].g][job[k].u] \in Nat
    BY <1>0 DEF TypeOK, TypeService
  <2>3. PICK p \in {"unLock", "unShared"} : Continue(k, p, j)
    BY <1>1 DEF UnStart
  <2> HIDE DEF j
  <2>4. MovesAlone(k) /\ late' = late /\ pc'[k] = p /\ job'[k] = j
    BY <1>0, <2>3, ContinueTo
  <2>5. LateOf(k)'
    BY <1>1, <1>m, <1>n, <2>1, <2>2, <2>4 DEF UnStart, LateOf, Unsubscribing
  <2> QED
    BY <1>1, <1>o, <2>4, <2>5, Plain DEF UnStart, database, zulip
<1>2. ASSUME UnShared(k) PROVE KeepsInv
  <2>1. PICK j \in Job, p \in {"unLeave", "unCover"} :
          /\ Continue(k, p, j)
          /\ j.g = job[k].g /\ j.u = job[k].u /\ j.start = job[k].start /\ j.final = job[k].final
    <3> DEFINE shared == {p \in (Groups \ {job[k].g}) \X job[k].target :
                            p[2] \in chans[p[1]] \cap chans[job[k].g]}
               j == [job[k] EXCEPT !.pending = shared, !.covered = {}]
    <3>1. shared \in SUBSET (Groups \X Channels)
      BY <1>0
    <3>2. Continue(k, IF shared = {} THEN "unLeave" ELSE "unCover", j)
      BY <1>2 DEF UnShared
    <3> HIDE DEF shared
    <3>3. j \in Job /\ j.g = job[k].g /\ j.u = job[k].u /\ j.start = job[k].start /\ j.final = job[k].final
      BY <1>0, <3>1 DEF Job
    <3> QED
      BY <3>2, <3>3
  <2> QED
    BY <1>2, <2>1, PlainOnTheWay DEF UnShared, database, zulip
<1>3. ASSUME UnCover(k) PROVE KeepsInv
  <2>1. PICK j \in Job, p \in {"unLeave", "unCover"} :
          /\ Continue(k, p, j)
          /\ j.g = job[k].g /\ j.u = job[k].u /\ j.start = job[k].start /\ j.final = job[k].final
    <3>1. PICK g \in {p[1] : p \in job[k].pending} :
            LET asked == {p \in job[k].pending : p[1] = g}
                shared == IF job[k].u \in members[g] THEN {p[2] : p \in asked} ELSE {}
            IN  Continue(k, IF job[k].pending = asked THEN "unLeave" ELSE "unCover",
                         [job[k] EXCEPT !.pending = job[k].pending \ asked,
                                        !.covered = job[k].covered \cup shared])
      BY <1>3 DEF UnCover
    <3> DEFINE asked == {p \in job[k].pending : p[1] = g}
               shared == IF job[k].u \in members[g] THEN {p[2] : p \in asked} ELSE {}
               j == [job[k] EXCEPT !.pending = job[k].pending \ asked,
                                   !.covered = job[k].covered \cup shared]
    <3>2. Continue(k, IF job[k].pending = asked THEN "unLeave" ELSE "unCover", j)
      BY <3>1
    <3>3. job[k].pending \ asked \in SUBSET (Groups \X Channels)
      BY <1>0
    <3>4. job[k].covered \cup shared \in SUBSET Channels
      <4>1. \A q \in job[k].pending : q[2] \in Channels
        BY <1>0
      <4>2. shared \in SUBSET Channels
        BY <4>1
      <4> HIDE DEF asked, shared
      <4> QED
        BY <1>0, <4>2
    <3> HIDE DEF asked, shared
    <3>5. job[k] \in Job
      BY <1>0
    <3>6. j \in Job
      BY <3>3, <3>4, <3>5 DEF Job
    <3>7. j.g = job[k].g /\ j.u = job[k].u /\ j.start = job[k].start /\ j.final = job[k].final
      BY <3>5 DEF Job
    <3> QED
      BY <3>2, <3>6, <3>7
  <2> QED
    BY <1>3, <2>1, PlainOnTheWay DEF UnCover, database, zulip
<1>4. ASSUME UnLeave(k) PROVE KeepsInv
  <2>1. CASE job[k].final
    BY <1>4, <1>o, <2>1, PlainReturn DEF UnLeave, database
  <2>2. CASE ~job[k].final
    <3> DEFINE j == [job[k] EXCEPT !.target = {}, !.covered = {}]
    <3>1. j.g = job[k].g /\ j.u = job[k].u /\ j.start = job[k].start /\ j.final = job[k].final
      BY <1>0 DEF Job
    <3>2. Continue(k, "unLock", j)
      BY <1>4, <2>2 DEF UnLeave
    <3> HIDE DEF j
    <3> QED
      BY <1>4, <2>2, <3>1, <3>2, PlainOnTheWay DEF UnLeave, database
  <2> QED
    BY <2>1, <2>2
<1>5. ASSUME UnLock(k) PROVE KeepsInv
  <2>0. UNCHANGED <<readers, exists, active, members, gen>> /\ pc[k] = "unLock"
    BY <1>5 DEF UnLock, database, zulip
  <2>1. CASE gen[job[k].g][job[k].u] = job[k].start
    <3>1. MovesAlone(k) /\ late' = late /\ pc'[k] = "unDelete" /\ job'[k] = job[k]
      BY <1>0, <1>5, <2>1, ContinueTo DEF UnLock
    <3>2. LockInv'
      BY <1>0, <1>5, <2>1, <3>1, LockExclusive DEF UnLock, IInv, Exclusive, Deleting, Sharing
    <3>3. ~Overtaking(k)
      BY <1>5 DEF UnLock, Unlocked, Overtaking, IInv, LockInv, Sharing
    <3>4. job[k].start \in Nat
      BY <1>0 DEF TypeCallers, Job
    <3>5. k \notin late
      BY <1>m, <2>0, <2>1, <3>3, <3>4 DEF LateOf, Unsubscribing
    <3>6. LateOf(k)'
      BY <1>m, <2>0, <3>1, <3>5 DEF LateOf, Unsubscribing
    <3>7. LateInv'
      BY <2>0, <3>1, <3>6, LateFrame DEF IInv
    <3>8. DeleteInv'
      BY <1>0, <2>0, <3>1, DeleteOther DEF IInv
    <3> QED
      BY <3>2, <3>7, <3>8 DEF KeepsInv
  <2>2. CASE gen[job[k].g][job[k].u] # job[k].start
    <3>1. UNCHANGED lock /\ (Return(k) \/ Continue(k, "unResub", job[k]))
      BY <1>5, <2>2 DEF UnLock, lock
    <3>2. CASE Return(k)
      BY <1>o, <2>0, <3>1, <3>2, PlainReturn
    <3>3. CASE Continue(k, "unResub", job[k])
      <4>1. MovesAlone(k) /\ late' = late /\ pc'[k] = "unResub"
        BY <1>0, <3>3, ContinueTo
      <4>2. LateOf(k)'
        BY <4>1 DEF LateOf, Unsubscribing
      <4> QED
        BY <1>o, <2>0, <3>1, <4>1, <4>2, Plain
    <3> QED
      BY <3>1, <3>2, <3>3
  <2> QED
    BY <2>1, <2>2
<1>6. ASSUME UnDelete(k) PROVE KeepsInv
  <2>1. MovesAlone(k) /\ late' \subseteq late /\ pc'[k] \in {"idle", "unFinal"}
    BY <1>0, <1>6, ReturnTo, ContinueTo DEF UnDelete
  <2>2. LockInv'
    BY <1>6, <2>1, LockRelease DEF UnDelete, IInv, Sharing, Exclusive, Deleting
  <2>3. k \notin late'
    BY <1>6, <1>m, <2>1 DEF UnDelete, LateOf
  <2>4. LateInv'
    BY <1>6, <2>1, <2>3, LateOther DEF UnDelete, IInv, Unsubscribing
  <2>5. \A h \in Groups : members'[h] \subseteq members[h]
    BY <1>0, <1>6, Shrinks DEF UnDelete
  <2>6. DeleteInv'
    BY <1>0, <1>6, <1>o, <2>1, <2>5, DeleteOther DEF UnDelete, IInv, database
  <2> QED
    BY <2>2, <2>4, <2>6 DEF KeepsInv
<1>7. ASSUME UnResub(k) PROVE KeepsInv
  BY <1>7, <1>o, PlainReturn DEF UnResub, database
<1>8. ASSUME UnFinal(k) PROVE KeepsInv
  <2>1. CASE Return(k)
    BY <1>8, <1>o, <2>1, PlainReturn DEF UnFinal, database, zulip
  <2>2. CASE ~Return(k)
    <3> DEFINE j == [job[k] EXCEPT !.target = chans[job[k].g] \ job[k].chans, !.final = TRUE]
    <3>1. j.final = TRUE
      BY <1>0 DEF Job
    <3>2. Continue(k, "unShared", j)
      BY <1>8, <2>2 DEF UnFinal
    <3> HIDE DEF j
    <3>3. MovesAlone(k) /\ late' = late /\ pc'[k] = "unShared" /\ job'[k] = j
      BY <1>0, <3>2, ContinueTo
    <3>4. LateOf(k)'
      BY <1>8, <1>n, <3>1, <3>3 DEF LateOf, Unsubscribing, UnFinal
    <3> QED
      BY <1>8, <1>o, <3>3, <3>4, Plain DEF UnFinal, database, zulip
  <2> QED
    BY <2>1, <2>2
<1> QED
  BY <1>1, <1>2, <1>3, <1>4, <1>5, <1>6, <1>7, <1>8

---------------------------------------------------------------------------
(* The steps of deletions, the calls, and failing requests.                *)

LEMMA DeleteKeeps ==
  ASSUME IInv, NEW k \in Callers
  PROVE  /\ DelLock(k) => KeepsInv
         /\ DelList(k) => KeepsInv
         /\ DelEmpty(k) => KeepsInv
         /\ DelDeactivate(k) => KeepsInv
         /\ DelRestore(k) => KeepsInv
         /\ DelRow(k) => KeepsInv
<1> USE JobType
<1>0. TypeOK /\ TypeCallers
  BY DEF IInv, TypeOK
<1>m. DeleteOf(k)
  BY DEF IInv, DeleteInv
<1>1. ASSUME DelLock(k) PROVE KeepsInv
  <2>1. MovesAlone(k) /\ late' = late /\ pc'[k] = "delList" /\ job'[k] = job[k]
    BY <1>0, <1>1, ContinueTo DEF DelLock
  <2>2. LockInv'
    BY <1>0, <1>1, <2>1, LockExclusive DEF DelLock, IInv, Sharing, Exclusive, Deleting
  <2>3. LateOf(k)'
    BY <1>1, <2>1 DEF DelLock, LateOf, IInv, LateInv, Unsubscribing
  <2>4. LateInv'
    BY <1>1, <2>1, <2>3, LateFrame DEF DelLock, IInv
  <2>5. DeleteOf(k)'
    BY <2>1 DEF DeleteOf
  <2>6. DeleteInv'
    BY <1>0, <1>1, <2>1, <2>5, DeleteFrame DEF DelLock, IInv, database, zulip
  <2> QED
    BY <2>2, <2>4, <2>6 DEF KeepsInv
<1>2. ASSUME DelList(k) PROVE KeepsInv
  <2> DEFINE j == [job[k] EXCEPT !.users = members[job[k].g]]
  <2>1. j.g = job[k].g /\ j.users = members[job[k].g]
    BY <1>0 DEF Job
  <2>2. PICK p \in {"delDeactivate", "delEmpty"} :
          /\ Continue(k, p, j)
          /\ p = "delDeactivate" <=> members[job[k].g] = {}
    BY <1>2 DEF DelList
  <2> HIDE DEF j
  <2>3. MovesAlone(k) /\ late' = late /\ pc'[k] = p /\ job'[k] = j
    BY <1>0, <2>2, ContinueTo
  <2>4. UNCHANGED <<lock, gen, exists, active, members>> /\ pc[k] = "delList"
    BY <1>2 DEF DelList, database, zulip
  <2>5. LockInv'
    BY <2>1, <2>3, <2>4, LockKeep DEF IInv, Sharing, Exclusive, Deleting
  <2>6. LateOf(k)'
    BY <2>3, <2>4 DEF LateOf, IInv, LateInv, Unsubscribing
  <2>7. LateInv'
    BY <2>3, <2>4, <2>6, LateFrame DEF IInv
  <2>8. DeleteOf(k)'
    BY <2>1, <2>2, <2>3, <2>4 DEF DeleteOf, IInv, DeleteInv, DeletedIsEmpty
  <2>9. DeleteInv'
    BY <1>0, <2>3, <2>4, <2>8, DeleteFrame DEF IInv
  <2> QED
    BY <2>5, <2>7, <2>9 DEF KeepsInv
<1>3. ASSUME DelEmpty(k) PROVE KeepsInv
  <2>0. UNCHANGED <<gen, exists, active>> /\ pc[k] = "delEmpty"
    BY <1>3 DEF DelEmpty, database
  <2>1. \A h \in Groups : members'[h] \subseteq members[h]
    BY <1>0, <1>3, Shrinks DEF DelEmpty
  <2>2. CASE job[k].users \subseteq members[job[k].g]
    <3>1. MovesAlone(k) /\ late' = late /\ pc'[k] = "delDeactivate" /\ job'[k] = job[k]
      BY <1>0, <1>3, <2>2, ContinueTo DEF DelEmpty
    <3>2. LockInv'
      BY <1>3, <2>0, <2>2, <3>1, LockKeep DEF DelEmpty, IInv, Sharing, Exclusive, Deleting
    <3>3. LateOf(k)'
      BY <2>0, <3>1 DEF LateOf, IInv, LateInv, Unsubscribing
    <3>4. LateInv'
      BY <2>0, <3>1, <3>3, LateFrame DEF IInv
    <3>5. members'[job[k].g] = {}
      BY <1>0, <1>3, <1>m, <2>0, <2>2 DEF DelEmpty, DropMembers, DeleteOf, TypeOK, TypeZulip
    <3>6. DeleteOf(k)'
      BY <1>m, <2>0, <3>1, <3>5 DEF DeleteOf
    <3>7. DeleteInv'
      BY <1>0, <2>0, <2>1, <3>1, <3>6, DeleteFrame DEF IInv
    <3> QED
      BY <3>2, <3>4, <3>7 DEF KeepsInv
  <2>3. CASE ~(job[k].users \subseteq members[job[k].g])
    <3>1. MovesAlone(k) /\ late' = late \ {k} /\ pc'[k] = "idle"
      BY <1>0, <1>3, <2>3, ReturnTo DEF DelEmpty
    <3>2. LockInv'
      BY <1>3, <2>3, <3>1, LockRelease DEF DelEmpty, IInv, Sharing, Exclusive, Deleting
    <3>3. LateInv'
      BY <2>0, <3>1, LateOther DEF IInv, Unsubscribing
    <3>4. DeleteOf(k)'
      BY <3>1 DEF DeleteOf
    <3>5. DeleteInv'
      BY <1>0, <2>0, <2>1, <3>1, <3>4, DeleteFrame DEF IInv
    <3> QED
      BY <3>2, <3>3, <3>5 DEF KeepsInv
  <2> QED
    BY <2>2, <2>3
<1>4. ASSUME DelDeactivate(k) PROVE KeepsInv
  <2>0. UNCHANGED <<lock, gen, exists, members>> /\ pc[k] = "delDeactivate" /\ active' = active \ {job[k].g}
    BY <1>4 DEF DelDeactivate, database
  <2>1. MovesAlone(k) /\ late' = late /\ pc'[k] = "delRow" /\ job'[k] = job[k]
    BY <1>0, <1>4, ContinueTo DEF DelDeactivate
  <2>2. LockInv'
    BY <2>0, <2>1, LockKeep DEF IInv, Sharing, Exclusive, Deleting
  <2>3. LateOf(k)'
    BY <2>0, <2>1 DEF LateOf, IInv, LateInv, Unsubscribing
  <2>4. LateInv'
    BY <2>0, <2>1, <2>3, LateFrame DEF IInv
  <2>5. DeleteOf(k)'
    BY <1>m, <2>0, <2>1 DEF DeleteOf
  <2>6. DeleteInv'
    BY <1>0, <2>0, <2>1, <2>5, DeleteFrame DEF IInv
  <2> QED
    BY <2>2, <2>4, <2>6 DEF KeepsInv
<1>5. ASSUME DelRestore(k) PROVE KeepsInv
  <2>0. UNCHANGED <<gen, exists, active>> /\ pc[k] = "delRestore" /\ job[k].g \in exists
    BY <1>5, <1>m DEF DelRestore, database, DeleteOf
  <2>1. MovesAlone(k) /\ late' = late \ {k} /\ pc'[k] = "idle"
    BY <1>0, <1>5, ReturnTo DEF DelRestore
  <2>2. LockInv'
    BY <1>5, <2>1, LockRelease DEF DelRestore, IInv, Sharing, Exclusive, Deleting
  <2>3. LateInv'
    BY <2>0, <2>1, LateOther DEF IInv, Unsubscribing
  <2>4. \A g \in Groups : members'[g] \subseteq members[g] \/ g = job[k].g
    BY <1>0, <1>5 DEF DelRestore, AddMembers, TypeOK, TypeZulip
  <2>5. DeleteOf(k)'
    BY <2>1 DEF DeleteOf
  <2>6. DeleteInv'
    BY <1>0, <2>0, <2>1, <2>4, <2>5, DeleteFrame DEF IInv
  <2> QED
    BY <2>2, <2>3, <2>6 DEF KeepsInv
<1>6. ASSUME DelRow(k) PROVE KeepsInv
  <2>0. UNCHANGED <<gen, active, members>> /\ pc[k] = "delRow" /\ exists' = exists \ {job[k].g}
    BY <1>6 DEF DelRow, zulip
  <2>1. MovesAlone(k) /\ late' = late \ {k} /\ pc'[k] = "idle"
    BY <1>0, <1>6, ReturnTo DEF DelRow
  <2>2. LockInv'
    BY <1>6, <2>1, LockRelease DEF DelRow, IInv, Sharing, Exclusive, Deleting
  <2>3. LateInv'
    BY <2>0, <2>1, LateOther DEF IInv, Unsubscribing
  <2>4. DeleteOf(k)'
    BY <2>1 DEF DeleteOf
  <2>5. DeleteInv'
    BY <1>0, <2>0, <2>1, <2>4, DeleteFrame DEF IInv
  <2> QED
    BY <2>2, <2>3, <2>5 DEF KeepsInv
<1> QED
  BY <1>1, <1>2, <1>3, <1>4, <1>5, <1>6

LEMMA CallKeeps ==
  ASSUME IInv, NEW k \in Callers, Call(k)
  PROVE  KeepsInv
<1>0. TypeOK /\ TypeCallers
  BY DEF IInv, TypeOK
<1>1. pc[k] = "idle" /\ UNCHANGED <<lock, gen, exists, active, members>>
  BY DEF Call, Subscribe, Unsubscribe, Update, Delete, Begin, database, zulip
<1>2. ASSUME NEW g \in Groups, NEW u \in Users, NEW keep \in BOOLEAN, Unsubscribe(k, g, u, keep)
      PROVE  KeepsInv
  <2> DEFINE j == [NoJob EXCEPT !.g = g, !.u = u, !.keep = keep, !.chans = chans[g]]
  <2>1. j.final = FALSE
    BY DEF NoJob
  <2>2. Continue(k, "unStart", j)
    BY <1>2 DEF Unsubscribe
  <2> HIDE DEF j
  <2>3. MovesAlone(k) /\ late' = late /\ pc'[k] = "unStart" /\ job'[k] = j
    BY <1>0, <2>2, ContinueTo
  <2>4. LateOf(k)'
    BY <1>1, <2>1, <2>3 DEF LateOf, IInv, LateInv, Unsubscribing
  <2>5. {"idle", "unStart"} \subseteq Outside
    BY DEF Outside, Places, Sharing, Exclusive, Deleting
  <2> QED
    BY <1>1, <2>3, <2>4, <2>5, Plain
<1>3. ASSUME NEW p \in {"subLock", "delLock", "upCommit", "upMembers"}, NEW j, Continue(k, p, j)
      PROVE  KeepsInv
  <2>1. MovesAlone(k) /\ late' = late /\ pc'[k] = p
    BY <1>0, <1>3, ContinueTo
  <2>2. {"idle", "subLock", "delLock", "upCommit", "upMembers"} \subseteq Apart
    BY ApartPlaces DEF Subscribing, Updating, Sharing
  <2> QED
    BY <1>1, <2>1, <2>2, PlainApart
<1>4. ASSUME NEW g \in Groups, NEW u \in Users, Subscribe(k, g, u) PROVE KeepsInv
  BY <1>3, <1>4 DEF Subscribe
<1>5. ASSUME NEW g \in Groups, Delete(k, g) PROVE KeepsInv
  BY <1>3, <1>5 DEF Delete
<1>6. ASSUME NEW g \in Groups, NEW add, NEW remove, Update(k, g, add, remove) PROVE KeepsInv
  BY <1>3, <1>6 DEF Update
<1>7. ASSUME NEW g \in Groups, NEW c \in Channels, Update(k, g, {c}, {}) \/ Update(k, g, {}, {c})
      PROVE  KeepsInv
  BY <1>6, <1>7
<1> QED
  BY <1>2, <1>4, <1>5, <1>7 DEF Call

\* An error hands the lock back, but for the restoring of a deletion's members.
LEMMA ErrorKeeps ==
  ASSUME IInv, NEW k \in Callers, Error(k), active' \subseteq active,
         pc[k] # "subBump",
         \A g \in Groups : \/ members'[g] \subseteq members[g]
                           \/ pc[k] \in {"subAdd", "delRestore"} /\ g = job[k].g
  PROVE  KeepsInv
<1>0. TypeOK /\ TypeCallers /\ LateOf(k) /\ DeleteOf(k)
  BY DEF IInv, TypeOK, LateInv, DeleteInv
<1>1. MovesAlone(k) /\ late' \subseteq late /\ pc'[k] = AfterError(k) /\ UNCHANGED <<gen, exists>>
  BY <1>0, ReturnTo, ContinueTo DEF Error, database
<1>2. AfterError(k) = "idle" => k \notin late'
  BY <1>0, ReturnTo DEF Error
<1>3. CASE AfterError(k) = "delRestore"
  <2>1. pc[k] = "delDeactivate" /\ job[k].users # {}
    BY <1>3 DEF AfterError
  <2>2. job'[k] = job[k] /\ UNCHANGED lock
    BY <1>0, <1>3, ContinueTo DEF Error
  <2>3. LockInv'
    BY <1>1, <1>3, <2>1, <2>2, LockKeep DEF IInv, Sharing, Exclusive, Deleting
  <2>4. LateOf(k)'
    BY <1>0, <1>1, <1>3, <2>1 DEF LateOf, Unsubscribing
  <2>5. LateInv'
    BY <1>1, <2>4, LateFrame DEF IInv
  <2>6. DeleteOf(k)'
    BY <1>0, <1>1, <1>3, <2>1, <2>2 DEF DeleteOf
  <2>7. DeleteInv'
    BY <1>0, <1>1, <2>1, <2>6, DeleteFrame DEF IInv
  <2> QED
    BY <2>3, <2>5, <2>7 DEF KeepsInv
<1>4. CASE AfterError(k) # "delRestore"
  <2>1. pc'[k] \in {"idle", "undoMember", "undoChannels", "unRestore"}
    BY <1>1, <1>4 DEF AfterError
  <2>2. k \notin late'
    BY <1>0, <1>1, <1>2, <1>4 DEF AfterError, LateOf, Unsubscribing
  <2>3. LockInv'
    BY <1>1, <1>4, <2>1, LockRelease DEF Error, IInv, Sharing, Exclusive, Deleting
  <2>4. LateInv'
    BY <1>1, <2>1, <2>2, LateOther DEF IInv, Unsubscribing
  <2>5. DeleteOf(k)'
    BY <2>1 DEF DeleteOf
  <2>6. pc[k] \in {"subAdd", "delRestore"} => job[k].g \in exists
    BY <1>0 DEF DeleteOf
  <2>7. DeleteInv'
    BY <1>0, <1>1, <2>5, <2>6, DeleteFrame DEF IInv
  <2> QED
    BY <2>3, <2>4, <2>7 DEF KeepsInv
<1> QED
  BY <1>3, <1>4

LEMMA FaultKeeps ==
  ASSUME IInv, NEW k \in Callers, Fails(k) \/ Refused(k)
  PROVE  KeepsInv
<1>0. TypeOK /\ members \in [Groups -> SUBSET Users]
  BY DEF IInv, TypeOK, TypeZulip
<1>1. Error(k) /\ pc[k] # "subBump"
  BY DEF Fails, Refused, Requests
<1>2. CASE UNCHANGED <<active, members>>
  BY <1>1, <1>2, ErrorKeeps
<1>3. CASE Effect(k)
  <2>1. active' \subseteq active
    BY <1>0, <1>3, EffectType
  <2>2. \A g \in Groups : \/ members'[g] \subseteq members[g]
                          \/ pc[k] \in {"subAdd", "delRestore"} /\ g = job[k].g
    BY <1>0, <1>3 DEF Effect, AddMembers, DropMembers
  <2> QED
    BY <1>1, <2>1, <2>2, ErrorKeeps
<1> QED
  BY <1>2, <1>3 DEF Fails, Refused, zulip

---------------------------------------------------------------------------
(* The theorems.                                                           *)

LEMMA InvInit == Init => IInv
<1> SUFFICES ASSUME Init PROVE IInv
  OBVIOUS
<1>1. LockInv
  BY DEF Init, LockInv, Sharing, Exclusive, Deleting
<1>2. LateInv
  BY DEF Init, LateInv, LateOf, Unsubscribing
<1>3. DeleteInv
  BY DEF Init, DeleteInv, DeletedIsEmpty, DeleteOf
<1> QED
  BY <1>1, <1>2, <1>3, TypeInit DEF IInv

LEMMA InvStep == IInv /\ [Next]_vars => IInv'
<1> SUFFICES ASSUME IInv, [Next]_vars PROVE IInv'
  OBVIOUS
<1>1. TypeOK'
  BY TypeStep DEF IInv
<1>2. ASSUME NEW k \in Callers, Call(k) PROVE KeepsInv
  BY <1>2, CallKeeps
<1>3. ASSUME NEW k \in Callers, Step(k) PROVE KeepsInv
  BY <1>3, SubscribeKeeps, UnsubscribeKeeps, UpdateKeeps, DeleteKeeps DEF Step
<1>4. ASSUME NEW k \in Callers, Fails(k) \/ Refused(k) PROVE KeepsInv
  BY <1>4, FaultKeeps
<1>5. ASSUME UNCHANGED vars PROVE KeepsInv
  <2>1. LockInv'
    BY <1>5 DEF vars, lock, callers, IInv, LockInv
  <2>2. LateInv'
    BY <1>5 DEF vars, callers, IInv, LateInv, LateOf, Overtaking
  <2>3. DeleteInv'
    BY <1>5 DEF vars, callers, database, zulip, IInv, DeleteInv, DeletedIsEmpty, DeleteOf
  <2> QED
    BY <2>1, <2>2, <2>3 DEF KeepsInv
<1>6. KeepsInv
  BY <1>2, <1>3, <1>4, <1>5 DEF Next
<1> QED
  BY <1>1, <1>6 DEF KeepsInv, IInv

\* An unsubscribe never deletes a member whom a subscribe added after the
\* unsubscribe had begun, for any number of callers, users and groups, whatever
\* fails: memberWriteMu and memberOpGenerations of api_channel_groups.go are enough.
THEOREM NoLostSubscribeAlways == Spec => []NoLostSubscribe
<1>1. IInv => NoLostSubscribe
  BY DEF IInv, LateInv, LateOf, NoLostSubscribe
<1> QED
  BY <1>1, InvInit, InvStep, PTL DEF Spec

\* The user group of a deleted channel group has no members and is deactivated:
\* DeleteChannelGroup holds memberWriteMu exclusively from the listing of the
\* members to the deletion of the row, and every adding of members holds it too.
THEOREM DeletedIsEmptyAlways == Spec => []DeletedIsEmpty
<1>1. IInv => DeletedIsEmpty
  BY DEF IInv, DeleteInv
<1> QED
  BY <1>1, InvInit, InvStep, PTL DEF Spec

\* memberWriteMu keeps writers apart from readers and from each other, and no
\* path through a call, an error of a request included, leaves it held.
THEOREM LockCorrect == Spec => []LockInv
<1>1. IInv => LockInv
  BY DEF IInv
<1> QED
  BY <1>1, InvInit, InvStep, PTL DEF Spec
=============================================================================
