----------------------------- MODULE OrderedFlow -----------------------------
(***************************************************************************)
(* What the numbering, the writer's gate and the reordering of frames      *)
(* promise together: each flow is a sequence of frames that ends with at   *)
(* most one terminal, and its receiver gets that sequence, each frame      *)
(* once and in order, however the frames travelled.                        *)
(***************************************************************************)
EXTENDS Flow, Sequences

CONSTANT Requests

VARIABLES sent, got

vars == <<sent, got>>

Over(frames) == frames # <<>> /\ IsTerminal(frames[Len(frames)].kind)

Init ==
  /\ sent = [r \in Requests |-> <<>>]
  /\ got = [r \in Requests |-> <<>>]

(* Some frame is sent. *)
Send(r) ==
  /\ ~Over(sent[r])
  /\ Len(sent'[r]) = Len(sent[r]) + 1
  /\ sent' = [sent EXCEPT ![r] = Append(@, sent'[r][Len(@) + 1])]
  /\ UNCHANGED got

Receive(r) ==
  /\ Len(got[r]) < Len(sent[r])
  /\ got' = [got EXCEPT ![r] = Append(@, sent[r][Len(@) + 1])]
  /\ UNCHANGED sent

Next == \E r \in Requests : Send(r) \/ Receive(r)

Spec == Init /\ [][Next]_vars
=============================================================================
