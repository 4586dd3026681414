--------------------------- MODULE MCMessageQueue ---------------------------
(* MessageQueue with two producers and five posts, two of them IM_QUIT. *)
EXTENDS MessageQueue

MCPosts == {"m1", "m2", "m3", "quit1", "quit2"}
MCQuitPosts == {"quit1", "quit2"}
=============================================================================
