---------------------- MODULE MCChannelGroupLifecycle ----------------------
(* ChannelGroupLifecycle for TLC, whose finished instances may stop. *)
EXTENDS ChannelGroupLifecycle
=============================================================================
