-------------------------------- MODULE Flow --------------------------------
(***************************************************************************)
(* The order of the frames of one flow (a request id and, behind a relay,  *)
(* its routing id): which kinds of frame belong to a flow, which of them   *)
(* end it, and what a receiver that puts the frames back in the order they *)
(* were written does with each number that arrives.  The compiled model    *)
(* functions behind FrameType and ReorderBuffer of bifaci/frame.py.        *)
(***************************************************************************)
EXTENDS Naturals, FiniteSets

Kinds == {"HELLO", "REQ", "CHUNK", "END", "LOG", "ERR", "HEARTBEAT",
          "STREAM_START", "STREAM_END", "RELAY_NOTIFY", "RELAY_STATE",
          "CANCEL", "CREDIT", "POLICY", "CLOSE_STREAM"}

ControlKinds == {"HELLO", "HEARTBEAT", "RELAY_NOTIFY", "RELAY_STATE",
                 "CANCEL", "CREDIT", "POLICY", "CLOSE_STREAM"}

(* Only the frames of a flow are numbered, and end with it. *)
IsFlow(kind) == kind \notin ControlKinds

IsTerminal(kind) == kind \in {"END", "ERR"}

-----------------------------------------------------------------------------
(* A receiver knows the number it expects next and the numbers it holds *)
(* because one before them is still missing.                            *)
Orders == [expected : Nat, held : SUBSET Nat]

Start == [expected |-> 0, held |-> {}]

(* The end of the run of consecutive held numbers that begins at seq. *)
RunEnd(seq, held) ==
  CHOOSE n \in seq..(seq + Cardinality(held)) :
    seq..(n - 1) \subseteq held /\ n \notin held

(* What arrives is delivered with the run it releases, held back, or *)
(* refused: a number already delivered, one that is held, or one too  *)
(* many to hold.                                                      *)
Answer(order, seq, limit) ==
  IF seq < order.expected THEN "stale"
  ELSE IF seq = order.expected THEN "deliver"
  ELSE IF seq \in order.held THEN "duplicate"
  ELSE IF Cardinality(order.held) >= limit THEN "overflow"
  ELSE "hold"

(* A held number keeps its place among the others, which are a set here. *)
Hold(held, seq) == held \cup {seq}

(* Mutant: only the frame that arrived is delivered, not those it releases. *)
Advance_One(order) == order.expected + 1

(* The numbers delivered are expected .. Advance - 1. *)
Advance(order) == RunEnd(order.expected + 1, order.held)

(* The order after an arrival. *)
Accepted(order, seq, limit) ==
  CASE Answer(order, seq, limit) = "deliver" ->
         [expected |-> Advance(order), held |-> order.held \ (0..(Advance(order) - 1))]
    [] Answer(order, seq, limit) = "hold" ->
         [order EXCEPT !.held = Hold(@, seq)]
    [] OTHER -> order
=============================================================================
