--------------------------- MODULE MCRelaySwitch ---------------------------
EXTENDS RelaySwitch
CONSTANTS m1, m2, e1, p1
OneCall == (e1 :> Engine) @@ (p1 :> e1)
(* The call can only be served by m2, the request by either master. *)
Servers == (e1 :> {m1, m2}) @@ (p1 :> {m2})
=============================================================================
