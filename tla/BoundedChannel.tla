--------------------------- MODULE BoundedChannel ---------------------------
(***************************************************************************)
(* What a credited stream promises its two users: a channel that holds at  *)
(* most Capacity items.  A writer may put an item while there is room, a   *)
(* reader always comes to take one that is there, and after the writer's   *)
(* end the reader takes what is left and then sees the end.                *)
(***************************************************************************)
EXTENDS Naturals

CONSTANT Capacity

VARIABLES
  buffer,  \* items put and not yet taken
  status   \* is the channel open, ended by the writer, or read to its end

vars == <<buffer, status>>

Init == buffer = 0 /\ status = "open"

Put ==
  /\ status = "open"
  /\ buffer < Capacity
  /\ buffer' = buffer + 1
  /\ UNCHANGED status

Take ==
  /\ buffer > 0
  /\ buffer' = buffer - 1
  /\ UNCHANGED status

End ==
  /\ status = "open"
  /\ status' = "ended"
  /\ UNCHANGED buffer

SeeEnd ==
  /\ status = "ended"
  /\ buffer = 0
  /\ status' = "done"
  /\ UNCHANGED buffer

Next == Put \/ Take \/ End \/ SeeEnd

Spec == Init /\ [][Next]_vars

(* The reader keeps reading; the writer may stop where it likes. *)
FairSpec == Spec /\ WF_vars(Take) /\ WF_vars(SeeEnd)
=============================================================================
