--------------------------- MODULE MCBotEventLoop ---------------------------
(* Instances of BotEventLoop for TLC: the kinds of events and faults of the  *)
(* runs, named for what a run looks at.                                      *)
EXTENDS BotEventLoop

CommandsAndRestarts == {"other", "command", "restart"}
RestartCommands     == {"restart", "restartNew", "update"}
UpdateCommands      == {"restart", "update", "updateNew"}
OnlyRestarts        == {"restart", "restartNew"}
EveryKind           == AllKinds
EveryFault          == AllFaultKinds
NoDatabaseFault     == AllFaultKinds \ {"db"}
CrashesAndExpiry    == {"crash", "expire", "send", "api"}
NoFault             == {}
=============================================================================
