---------------------------- MODULE BoundedDeque ----------------------------
(***************************************************************************)
(* What a control-message queue promises its users: a sequence of posted   *)
(* messages in which a quit request goes in front of everything else, an   *)
(* ordinary message goes to the back, and a full queue makes room by       *)
(* forgetting from the front.  Every operation is one step.                *)
(*                                                                         *)
(* This is the abstract specification that MessageQueue implements.        *)
(***************************************************************************)
EXTENDS Naturals, Sequences

CONSTANTS Posts,        \* the posts that can be made (one element per push)
          QuitPosts,    \* those of them that carry IM_QUIT and go to the front
          MaxElements   \* the queue's limit, 0 for none

VARIABLES q,      \* the messages waiting, oldest position first
          taken   \* the message the consumer took last, or the empty sequence

vars == <<q, taken>>

\* The queue with room for one more message.
Room(s) == IF MaxElements > 0 /\ Len(s) >= MaxElements THEN Tail(s) ELSE s

Init == q = <<>> /\ taken = <<>>

Push(m) ==
    /\ q' = IF m \in QuitPosts THEN <<m>> \o Room(q) ELSE Append(Room(q), m)
    /\ UNCHANGED taken

Pop ==
    /\ q # <<>>
    /\ taken' = <<Head(q)>>
    /\ q' = Tail(q)

Clear ==
    /\ q' = <<>>
    /\ UNCHANGED taken

Next == (\E m \in Posts : Push(m)) \/ Pop \/ Clear

Spec == Init /\ [][Next]_vars
=============================================================================
