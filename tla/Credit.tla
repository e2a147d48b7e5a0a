------------------------------- MODULE Credit -------------------------------
(***************************************************************************)
(* The decisions of credit flow control: what an acquire, a grant and a    *)
(* close do to the window a sender holds (the gate), and what an arrival,  *)
(* a consumption and a flush do to the window a receiver holds.  These are *)
(* the compiled model functions the Python classes of bifaci/credit.py ask *)
(* for every answer; the classes themselves add the locks and the waiting, *)
(* which CreditFlow models.                                                *)
(***************************************************************************)
EXTENDS Naturals, FiniteSets

NotClosed == "not closed"

(* A sender's window: the credit left, and why it was closed (if it was). *)
Gates(reasons) == [available : Nat, closed : reasons \cup {NotClosed}]

GateOpened(initial) == [available |-> initial, closed |-> NotClosed]

IsOpen(gate) == gate.closed = NotClosed

(* The three answers of an acquire: a closed gate refuses whatever is left. *)
MustFail(gate)   == ~IsOpen(gate)
CanTake(gate, n) == IsOpen(gate) /\ n <= gate.available
MustWait(gate, n) == IsOpen(gate) /\ n > gate.available

(* Mutant: an acquire that leaves the credit in the window. *)
Taken_Nothing(gate, n) == gate

Taken(gate, n) == [gate EXCEPT !.available = @ - n]

(* Grants after the close are no-ops; the first close names the reason. *)
Granted(gate, n) ==
  IF IsOpen(gate) THEN [gate EXCEPT !.available = @ + n] ELSE gate

Closed(gate, reason) ==
  IF IsOpen(gate) THEN [gate EXCEPT !.closed = reason] ELSE gate

(***************************************************************************)
(* A receiver's window: the chunks the sender may still send, the chunks   *)
(* consumed and not granted back, and the size of a batched grant.         *)
(***************************************************************************)
Windows == [remaining : Nat, pending : Nat, batch : Nat \ {0}]

Batch(initial) == IF initial \div 2 = 0 THEN 1 ELSE initial \div 2

WindowOpened(initial) ==
  [remaining |-> initial, pending |-> 0, batch |-> Batch(initial)]

(* An arrival on an empty window is the violation, and changes nothing. *)
Violates(window) == window.remaining = 0
Arrived(window)  == [window EXCEPT !.remaining = @ - 1]

(* Mutants: a grant counted twice, a grant the window never learns of, and  *)
(* a continuation that is counted and not granted.                          *)
Flush_PendingKept(window) ==
  [window |-> [window EXCEPT !.remaining = @ + window.pending],
   grant  |-> window.pending]
Continued_Uncounted(window)  == [window |-> window, grant |-> 1]
Continued_NotGranted(window) ==
  [window |-> [window EXCEPT !.remaining = @ + 1], grant |-> 0]

(* Each of these is a step: the new window and the grant that is now due. *)
Flush(window) ==
  [window |-> [remaining |-> window.remaining + window.pending,
               pending   |-> 0,
               batch     |-> window.batch],
   grant  |-> window.pending]

Consume(window) ==
  LET counted == [window EXCEPT !.pending = @ + 1]
  IN  IF counted.batch <= counted.pending
      THEN Flush(counted)
      ELSE [window |-> counted, grant |-> 0]

Continued(window) ==
  [window |-> [window EXCEPT !.remaining = @ + 1], grant |-> 1]
=============================================================================
