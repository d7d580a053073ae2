--------------------------- MODULE ChannelFolders ---------------------------
(* Channel folders at Zulip and the helpers of package channelgroup that put
   channels into a folder, take them out again and archive the folder. A channel
   that is in another folder is a conflict: helpers go through the channels one
   by one and stop there, leaving behind what they did. *)
EXTENDS Integers, FiniteSets

CONSTANTS Channels, Nil

VARIABLES
  made,   \* the number of folders that the bot created: 1..made
  open,   \* those that are not archived
  in      \* the folder each channel is in: Nil, Foreign or one of the bot's

folders == <<made, open, in>>

Foreign == 0

InitFolders == made = 0 /\ open = {} /\ in = [c \in Channels |-> Nil]

Inside(f) == {c \in Channels : in[c] = f}
Conflicts(cs, f) == {c \in cs : in[c] \notin {Nil, f}}

CreateFolder ==
  /\ made' = made + 1
  /\ open' = open \cup {made'}
  /\ UNCHANGED in

Move(cs, f) == in' = [c \in Channels |-> IF c \in cs THEN f ELSE in[c]]

AddChannelsToFolder(cs, f) ==
  /\ Conflicts(cs, f) = {}
  /\ Move(cs, f)
  /\ UNCHANGED <<made, open>>

(* What is left when adding stops at a conflict or a failing request. *)
AddingStops(cs, f) ==
  /\ \E done \in SUBSET (cs \ Conflicts(cs, f)) : Move(done, f)
  /\ UNCHANGED <<made, open>>

RemoveChannelsFromFolder(cs, f) ==
  /\ Conflicts(cs, f) = {}
  /\ Move(cs, Nil)
  /\ UNCHANGED <<made, open>>

RemovingStops(cs, f) ==
  /\ \E done \in SUBSET (cs \cap Inside(f)) : Move(done, Nil)
  /\ UNCHANGED <<made, open>>

(* Zulip does not archive a folder that channels are in. *)
ArchiveFolder(f) ==
  /\ Inside(f) = {}
  /\ open' = open \ {f}
  /\ UNCHANGED <<made, in>>

(* rollbackCreatedChannelFolder: the folder is archived if nothing is left in
   it, whether or not all could be removed. *)
RollbackCreatedChannelFolder(cs, f) ==
  /\ \E done \in (IF Conflicts(cs, f) = {} THEN {cs} ELSE SUBSET (cs \cap Inside(f))) :
       /\ Move(done, Nil)
       /\ open' = IF Inside(f) \subseteq done THEN open \ {f} ELSE open
  /\ UNCHANGED made

(* What is left of that when a request fails: it stops taking channels out, and may
   not archive the folder. *)
RollbackStops(cs, f) ==
  /\ \E done \in SUBSET (cs \cap Inside(f)) :
       /\ Move(done, Nil)
       /\ open' = open \/ (Inside(f) \subseteq done /\ open' = open \ {f})
  /\ UNCHANGED made

FoldersOK ==
  /\ open \subseteq 1..made
  /\ in \in [Channels -> {Nil} \cup 0..made]
=============================================================================
