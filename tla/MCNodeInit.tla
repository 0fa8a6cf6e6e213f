------------------------------ MODULE MCNodeInit ------------------------------
(***************************************************************************)
(* NodeInit for TLC: two machines that were both called y--x, while x is   *)
(* enrolled and the operator issues tokens.                                *)
(***************************************************************************)
EXTENDS NodeInit, MCBroker

MCNodeName(v) == "y--x"

\* One token has been issued.
OneToken ==
  {[NewNode EXCEPT !.tokens = [t \in Tokens |-> IF t = "t1" THEN @[t] ELSE None]]}

\* The machines send their own enrollments; others come from elsewhere.
OtherRequests ==
  {[kind |-> "issue", node |-> "y--x"],
   [kind |-> "enroll", id |-> "1", node |-> "y--x", token |-> "t1"],
   [kind |-> "enroll", id |-> "2", node |-> "x", token |-> "t1"],
   [kind |-> "sync", node |-> "x", apps |-> {"t--y"}],
   [kind |-> "sync", node |-> "x", apps |-> {}],
   [kind |-> "sync", node |-> "y--x", apps |-> {}]}

NodeInitSymmetry == Permutations(Calls) \cup Permutations(Volumes)
=============================================================================
