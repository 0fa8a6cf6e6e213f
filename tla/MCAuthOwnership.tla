-------------------------- MODULE MCAuthOwnership --------------------------
(***************************************************************************)
(* An instance of AuthOwnership for TLC: three machines, no applications.  *)
(***************************************************************************)
EXTENDS AuthOwnership

MCHostname(a, n) == <<a, n>>

MCStart ==
  [EmptyRegistry EXCEPT
     !.nodes = [n \in Nodes |-> CASE n = 1 -> "x" [] n = 2 -> "y" [] OTHER -> "z"]]

=============================================================================
