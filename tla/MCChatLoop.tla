----------------------------- MODULE MCChatLoop -----------------------------
(* Instances of ChatLoop for TLC. *)
EXTENDS ChatLoop

=============================================================================
