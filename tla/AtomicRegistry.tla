--------------------------- MODULE AtomicRegistry ---------------------------
(***************************************************************************)
(* What the callers of registry/cmd/repository.go rely on, without the     *)
(* object store: one registry, and every mutation applied to it in one     *)
(* step at some moment between the call and its answer.                    *)
(*                                                                         *)
(*   - "ok" means the mutation was applied, or that at some moment of the  *)
(*     call there was nothing to change;                                   *)
(*   - a refusal was deserved at some moment of the call, and the          *)
(*     mutation was not and will not be applied;                           *)
(*   - any other answer, or none, says nothing;                            *)
(*   - a mutation is applied at most once.                                 *)
(*                                                                         *)
(* The exception is a call in doubt: it could not find out whether its own *)
(* write took effect and tried again.  Repository implements this module.  *)
(***************************************************************************)
EXTENDS RegistryState

CONSTANTS
  Ops,     \* the operations calls may ask for
  Seeds    \* the registries a run may start from

VARIABLES
  registry,    \* the current content
  operation,   \* what each call asked for, None before it is made
  answer,      \* what each call was told, None before it is told anything
  took,        \* calls whose operation was applied
  doubt,       \* calls that do not know whether their write was applied
  seen         \* outcomes each operation would have had since it was asked

avars == <<registry, operation, answer, took, doubt, seen>>

Answers == {"ok", "exhausted", "unavailable", "missing", "collision"}
             \cup Refusals

\* Answers that promise the operation was not applied.
Definite == Refusals \cup {"exhausted"}

AInit ==
  /\ registry \in {StateAt(p) : p \in Seeds}
  /\ operation = [c \in Calls |-> None]
  /\ answer = [c \in Calls |-> None]
  /\ took = {}
  /\ doubt = {}
  /\ seen = [c \in Calls |-> {}]

Ask(c, o) ==
  /\ operation[c] = None
  /\ operation' = [operation EXCEPT ![c] = o]
  /\ seen' = [seen EXCEPT ![c] = {Outcome(o, registry)}]
  /\ UNCHANGED <<registry, answer, took, doubt>>

Apply(c) ==
  /\ operation[c] # None
  /\ Outcome(operation[c], registry) = "change"
  /\ c \in took \/ answer[c] \in Definite => c \in doubt
  /\ registry' = Successor(c, operation[c], registry)
  /\ took' = took \cup {c}
  /\ seen' = [d \in Calls |->
       IF operation[d] = None
       THEN seen[d] ELSE seen[d] \cup {Outcome(operation[d], registry')}]
  /\ UNCHANGED <<operation, answer, doubt>>

Tell(c, r) ==
  /\ operation[c] # None /\ answer[c] = None
  /\ r = "ok" => c \in took \/ "nochange" \in seen[c]
  /\ r \in Refusals => r \in seen[c]
  /\ r \in Definite /\ c \in took => c \in doubt
  /\ answer' = [answer EXCEPT ![c] = r]
  /\ UNCHANGED <<registry, operation, took, doubt, seen>>

\* The call gives up finding out about its write and tries again.
Lose(c) ==
  /\ operation[c] # None /\ answer[c] = None
  /\ doubt' = doubt \cup {c}
  /\ UNCHANGED <<registry, operation, answer, took, seen>>

ANext ==
  \E c \in Calls :
     \/ \E o \in Ops : Ask(c, o)
     \/ Apply(c)
     \/ \E r \in Answers : Tell(c, r)
     \/ Lose(c)

ASpec == AInit /\ [][ANext]_avars
=============================================================================
