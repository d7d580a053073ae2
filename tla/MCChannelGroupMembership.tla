---------------------- MODULE MCChannelGroupMembership ----------------------
(* Instances of ChannelGroupMembership for TLC: the operations and faults of *)
(* the runs, named for what a run looks at.                                  *)
EXTENDS ChannelGroupMembership, TLC

EveryOperation == AllOperations
OnlySubscribe  == {"subscribe"}
EveryFault     == AllFaultKinds
Failing        == {"fail"}
NoFault        == {}

\* Callers are interchangeable, and so are channels (groups and users are not:
\* NoJob chooses one of each).
Symmetry == Permutations(Callers) \cup Permutations(Channels)
=============================================================================
