----------------------------- MODULE BrokerProofs -----------------------------
(***************************************************************************)
(* Proofs about Broker: what its guarantees rest on, for any nodes, apps,  *)
(* tokens, requests and faults.                                            *)
(***************************************************************************)
EXTENDS BrokerGuarantees, SequenceTheorems, TLAPS

-----------------------------------------------------------------------------
(* The steps of the broker, whatever is asked for.                         *)

Step ==
  \/ \E c \in Calls, r \in Request : Send(c, r)
  \/ \E c \in Calls : Handle(c)
  \/ \E c \in Calls : CloudflareFails(c)
  \/ \E t \in Tokens : Expire(t)
  \/ Restart
  \/ UNCHANGED vars

\* Next asks for what the instance knows only.
LEMMA NextIsStep == [Next]_vars => Step
BY KnownRequests DEF Next, Step, Arrive, Finished

\* What a request carries.
LEMMA RequestFields ==
  ASSUME NEW r \in Request
  PROVE  /\ r.kind \in {"issue", "enroll", "sync", "app", "auth", "transfer", "adopt"}
         /\ r.kind \in {"issue", "enroll", "sync", "app", "auth"} => r.node \in Nodes
         /\ r.kind = "enroll" => r.id \in Ids /\ r.token \in Tokens
         /\ r.kind = "sync" => r.apps \in SUBSET AppNames
         /\ r.kind = "app" => r.app \in AppNames
         /\ r.kind = "transfer" => r.source \in Nodes /\ r.destination \in Nodes
         /\ r.kind = "adopt" => r.host \in {AuthHost, PortalHost} /\ r.tunnel \in Tunnels
BY DEF Request

\* Hosts and tunnels of nodes and of the broker.
LEMMA HostFacts ==
  /\ AuthHost \in Hosts /\ PortalHost \in Hosts
  /\ \A n \in Nodes : Terminal(n) \in Hosts
  /\ \A n \in Nodes, a \in AppNames : Hostname(a, n) \in Hosts
  /\ Nodes \subseteq Tunnels /\ Portal \in Tunnels
  /\ Tunnels \subseteq Record /\ None \in Record
BY DEF Hosts, Tunnels, Record

LEMMA NoneFacts ==
  /\ None \notin Nodes /\ None \notin Ids /\ None \notin Tunnels
  /\ None \notin Token /\ None \notin Request /\ None \notin Answers
  /\ \A s, d \in Nodes : <<s, d>> # None
  /\ \A hosts \in SUBSET Hosts : hosts # None
BY NamesDiffer, NoAnswerYet DEF Tunnels

-----------------------------------------------------------------------------
(* Turns.                                                                  *)

Busy(c) == pc[c] \notin {"idle", "waiting", "done"}

\* The steps a handler goes through.
StepsOf(kind) ==
  CASE kind = "enroll" -> {"node_tunnel", "terminal_ingress", "terminal_record", "node_row",
                           "portal_tunnel", "portal_ingress", "portal_record", "answer"}
    [] kind = "sync" -> {"drop", "ingress", "records", "answer"}
    [] kind \in {"app", "auth"} -> {"ingress", "records", "answer"}
    [] kind = "transfer" -> {"source_ingress", "destination_ingress", "auth_record", "answer"}
    [] kind = "adopt" -> {"adopt_record", "answer"}
    [] OTHER -> {}

QueueOK ==
  /\ queue \in Seq(Calls)
  /\ \A i, j \in DOMAIN queue : queue[i] = queue[j] => i = j
  /\ \A c \in Calls : (\E i \in DOMAIN queue : queue[i] = c) <=> pc[c] \notin {"idle", "done"}

\* Only the call whose turn it is has got anywhere, and it is where its kind of
\* request goes; nobody has an answer before the end.
Turns ==
  /\ QueueOK
  /\ pc \in [Calls -> Steps]
  /\ req \in [Calls -> Request \cup {None}]
  /\ result \in [Calls -> Answers \cup {None}]
  /\ \A c \in Calls :
       /\ Busy(c) => Serving(c) /\ pc[c] \in StepsOf(req[c].kind)
       /\ pc[c] # "idle" => req[c] \in Request
       /\ pc[c] # "done" => result[c] = None

\* How a handler's step moves it: on, or to its end.
Moves(c) ==
  /\ Serving(c)
  /\ req' = req
  /\ pc' = [pc EXCEPT ![c] = pc'[c]]
  /\ \/ pc'[c] \in StepsOf(req[c].kind) /\ queue' = queue /\ result' = result
     \/ /\ pc'[c] = "done"
        /\ queue' = Tail(queue)
        /\ result'[c] \in Answers
        /\ result' = [result EXCEPT ![c] = result'[c]]

\* The call that is served is in the queue, and is not idle or done.
LEMMA ServedCall ==
  ASSUME QueueOK, NEW c \in Calls, Serving(c)
  PROVE  /\ queue # << >> /\ 1 \in DOMAIN queue /\ queue[1] = c
         /\ pc[c] \notin {"idle", "done"}
<1>1. queue # << >> /\ queue \in Seq(Calls) /\ Head(queue) = c
  BY DEF Serving, QueueOK
<1>2. Len(queue) \in Nat \ {0} /\ DOMAIN queue = 1 .. Len(queue)
  BY <1>1, EmptySeq, LenProperties
<1>3. queue[1] = c
  BY <1>1, <1>2
<1> QED  BY <1>1, <1>2, <1>3 DEF QueueOK

\* The queue without its head.
LEMMA TailOfQueue ==
  ASSUME QueueOK, NEW c \in Calls, Serving(c)
  PROVE  /\ Tail(queue) \in Seq(Calls)
         /\ \A i, j \in DOMAIN Tail(queue) : Tail(queue)[i] = Tail(queue)[j] => i = j
         /\ \A d \in Calls : (\E i \in DOMAIN Tail(queue) : Tail(queue)[i] = d)
                               <=> d # c /\ pc[d] \notin {"idle", "done"}
<1> DEFINE t == Tail(queue)
<1>1. queue # << >> /\ queue \in Seq(Calls) /\ queue[1] = c /\ 1 \in DOMAIN queue
  BY ServedCall DEF QueueOK
<1>2. /\ t \in Seq(Calls) /\ Len(t) = Len(queue) - 1
      /\ \A i \in 1 .. Len(t) : t[i] = queue[i + 1]
  BY <1>1, HeadTailProperties
<1>3. /\ DOMAIN queue = 1 .. Len(queue) /\ Len(queue) \in Nat
      /\ DOMAIN t = 1 .. Len(t) /\ Len(t) \in Nat
  BY <1>1, <1>2, LenProperties
<1> HIDE DEF t
<1>4. \A i, j \in DOMAIN t : t[i] = t[j] => i = j
  <2> SUFFICES ASSUME NEW i \in DOMAIN t, NEW j \in DOMAIN t, t[i] = t[j]
               PROVE  i = j
    OBVIOUS
  <2>1. i + 1 \in DOMAIN queue /\ j + 1 \in DOMAIN queue /\ queue[i + 1] = queue[j + 1]
    BY <1>2, <1>3
  <2>2. i + 1 = j + 1
    BY <2>1 DEF QueueOK
  <2> QED  BY <2>2, <1>3
<1>5. ASSUME NEW d \in Calls, NEW i \in DOMAIN t, t[i] = d
      PROVE  d # c /\ pc[d] \notin {"idle", "done"}
  <2>1. i + 1 \in DOMAIN queue /\ queue[i + 1] = d /\ i + 1 # 1
    BY <1>2, <1>3, <1>5
  <2> QED  BY <2>1, <1>1 DEF QueueOK
<1>6. ASSUME NEW d \in Calls, d # c, pc[d] \notin {"idle", "done"}
      PROVE  \E i \in DOMAIN t : t[i] = d
  <2>1. PICK j \in DOMAIN queue : queue[j] = d
    BY <1>6 DEF QueueOK
  <2>2. j # 1
    BY <2>1, <1>1, <1>6
  <2>3. j - 1 \in DOMAIN t /\ t[j - 1] = d
    BY <2>1, <2>2, <1>2, <1>3
  <2> QED  BY <2>3
<1>7. \A d \in Calls : (\E i \in DOMAIN t : t[i] = d) <=> d # c /\ pc[d] \notin {"idle", "done"}
  BY <1>5, <1>6
<1> QED  BY <1>2, <1>4, <1>7 DEF t

\* The others are where they were: idle, waiting or done.
LEMMA OthersWait ==
  ASSUME Turns, NEW c \in Calls, Moves(c), NEW d \in Calls, d # c
  PROVE  /\ pc'[d] = pc[d] /\ req'[d] = req[d] /\ result'[d] = result[d]
         /\ ~Busy(d) /\ ~Busy(d)'
<1>1. pc'[d] = pc[d] /\ req'[d] = req[d] /\ result'[d] = result[d]
  BY DEF Moves, Turns
<1>2. ~Busy(d)
  BY DEF Turns, Moves, Serving
<1> QED  BY <1>1, <1>2 DEF Busy

LEMMA StepsAreSteps ==
  ASSUME NEW kind, NEW s \in StepsOf(kind)
  PROVE  s \in Steps /\ s \notin {"idle", "waiting", "done"}
<1>1. kind \in {"enroll", "sync", "app", "auth", "transfer", "adopt"}
  BY DEF StepsOf
<1> QED  BY <1>1 DEF StepsOf, Steps

LEMMA MovesKeepTurns ==
  ASSUME Turns, NEW c \in Calls, Moves(c)
  PROVE  Turns'
<1> USE DEF Moves
<1>1. QueueOK /\ queue # << >> /\ pc[c] \notin {"idle", "done"}
  BY ServedCall DEF Turns
<1>2. pc'[c] \in Steps /\ pc'[c] # "idle"
  BY StepsAreSteps DEF Steps
<1>3. pc' \in [Calls -> Steps]
  BY <1>2 DEF Turns
<1>4. result' \in [Calls -> Answers \cup {None}]
  BY DEF Turns
<1>5. \A d \in Calls : d # c => pc'[d] = pc[d] /\ req'[d] = req[d] /\ result'[d] = result[d]
                                /\ ~Busy(d)' /\ ~Busy(d)
  BY OthersWait
<1>6. QueueOK'
  <2>1. CASE queue' = queue /\ pc'[c] \in StepsOf(req[c].kind)
    <3>1. \A d \in Calls : pc'[d] \notin {"idle", "done"} <=> pc[d] \notin {"idle", "done"}
      BY <2>1, <1>1, <1>5, StepsAreSteps
    <3> QED  BY <2>1, <3>1, <1>1 DEF QueueOK
  <2>2. CASE queue' = Tail(queue) /\ pc'[c] = "done"
    <3>1. \A d \in Calls : pc'[d] \notin {"idle", "done"}
                             <=> d # c /\ pc[d] \notin {"idle", "done"}
      BY <2>2, <1>5
    <3>2. /\ queue' \in Seq(Calls)
          /\ \A i, j \in DOMAIN queue' : queue'[i] = queue'[j] => i = j
          /\ \A d \in Calls : (\E i \in DOMAIN queue' : queue'[i] = d)
                                <=> d # c /\ pc[d] \notin {"idle", "done"}
      BY <2>2, <1>1, TailOfQueue
    <3> QED  BY <3>1, <3>2 DEF QueueOK
  <2> QED  BY <2>1, <2>2
<1>7. /\ Busy(c)' => Serving(c)' /\ pc'[c] \in StepsOf(req'[c].kind)
      /\ req'[c] \in Request
      /\ pc'[c] # "done" => result'[c] = None
  BY <1>1 DEF Turns, Busy, Serving
<1>8. ASSUME NEW d \in Calls
      PROVE  /\ Busy(d)' => Serving(d)' /\ pc'[d] \in StepsOf(req'[d].kind)
             /\ pc'[d] # "idle" => req'[d] \in Request
             /\ pc'[d] # "done" => result'[d] = None
  BY <1>5, <1>7 DEF Turns
<1>9. req' \in [Calls -> Request \cup {None}]
  BY DEF Turns
<1> QED  BY <1>3, <1>4, <1>6, <1>8, <1>9 DEF Turns

LEMMA SendKeepsTurns ==
  ASSUME Turns, NEW c \in Calls, NEW r \in Request, Send(c, r)
  PROVE  /\ Turns'
         /\ req'[c] = r /\ pc'[c] = "waiting"
         /\ \A d \in Calls : /\ d # c => req'[d] = req[d] /\ pc'[d] = pc[d]
                             /\ Busy(d)' <=> Busy(d)
                             /\ Busy(d) => req'[d] = req[d] /\ pc'[d] = pc[d]
<1> USE DEF Send
<1>1. /\ pc' \in [Calls -> Steps] /\ req' \in [Calls -> Request \cup {None}]
      /\ req'[c] = r /\ pc'[c] = "waiting" /\ pc[c] = "idle"
      /\ \A d \in Calls : d # c => req'[d] = req[d] /\ pc'[d] = pc[d]
  BY DEF Turns, Steps
<1>2. \A d \in Calls : /\ Busy(d)' <=> Busy(d)
                       /\ Busy(d) => req'[d] = req[d] /\ pc'[d] = pc[d]
  BY <1>1 DEF Busy
<1>3. /\ queue \in Seq(Calls) /\ queue' \in Seq(Calls)
      /\ Len(queue') = Len(queue) + 1 /\ Len(queue) \in Nat
      /\ \A i \in 1 .. Len(queue) : queue'[i] = queue[i]
      /\ queue'[Len(queue) + 1] = c
  BY AppendProperties, LenProperties DEF Turns, QueueOK
<1>4. DOMAIN queue = 1 .. Len(queue) /\ DOMAIN queue' = 1 .. (Len(queue) + 1)
  BY <1>3, LenProperties
<1>5. \A i \in DOMAIN queue : queue[i] # c
  BY <1>1 DEF Turns, QueueOK
<1>6. \A i, j \in DOMAIN queue' : queue'[i] = queue'[j] => i = j
  BY <1>3, <1>4, <1>5 DEF Turns, QueueOK
<1>7. ASSUME NEW d \in Calls
      PROVE  (\E i \in DOMAIN queue' : queue'[i] = d) <=> pc'[d] \notin {"idle", "done"}
  <2>1. CASE d = c
    BY <2>1, <1>1, <1>3, <1>4
  <2>2. CASE d # c
    <3>1. (\E i \in DOMAIN queue' : queue'[i] = d) <=> (\E i \in DOMAIN queue : queue[i] = d)
      BY <2>2, <1>3, <1>4
    <3> QED  BY <3>1, <2>2, <1>1 DEF Turns, QueueOK
  <2> QED  BY <2>1, <2>2
<1>8. QueueOK'
  BY <1>3, <1>6, <1>7 DEF QueueOK
<1>9. \A d \in Calls : Serving(d) => Serving(d)'
  <2> SUFFICES ASSUME NEW d \in Calls, Serving(d) PROVE Serving(d)'
    OBVIOUS
  <2>1. queue[1] = d /\ 1 \in DOMAIN queue
    BY ServedCall DEF Turns
  <2>2. queue'[1] = d /\ queue' # << >>
    BY <2>1, <1>3, <1>4, EmptySeq
  <2>3. Head(queue') = queue'[1]
    BY <2>2, <1>3
  <2> QED  BY <2>2, <2>3 DEF Serving
<1>10. ASSUME NEW d \in Calls
       PROVE  /\ Busy(d)' => Serving(d)' /\ pc'[d] \in StepsOf(req'[d].kind)
              /\ pc'[d] # "idle" => req'[d] \in Request
              /\ pc'[d] # "done" => result'[d] = None
  <2>1. CASE d = c
    BY <2>1, <1>1 DEF Turns, Busy
  <2>2. CASE d # c
    BY <2>2, <1>1, <1>2, <1>9 DEF Turns
  <2> QED  BY <2>1, <2>2
<1>11. result' \in [Calls -> Answers \cup {None}]
  BY DEF Turns
<1>12. Turns'
  BY <1>1, <1>8, <1>10, <1>11 DEF Turns
<1> QED  BY <1>1, <1>2, <1>12

LEMMA RestartKeepsTurns ==
  ASSUME Turns, Restart
  PROVE  /\ Turns'
         /\ \A d \in Calls : ~Busy(d)' /\ (pc'[d] = pc[d] \/ pc'[d] = "done")
         /\ \A d \in Calls : result'[d] = result[d] \/ result'[d] = "lost"
<1> DEFINE waiting == {queue[i] : i \in DOMAIN queue}
<1>1. /\ pc' = [c \in Calls |-> IF c \in waiting THEN "done" ELSE pc[c]]
      /\ result' = [c \in Calls |-> IF c \in waiting THEN "lost" ELSE result[c]]
      /\ queue' = << >> /\ req' = req
  BY DEF Restart
<1>2. \A c \in Calls : c \in waiting <=> pc[c] \notin {"idle", "done"}
  <2>1. \A c \in Calls : c \in waiting <=> \E i \in DOMAIN queue : queue[i] = c
    OBVIOUS
  <2> HIDE DEF waiting
  <2> QED  BY <2>1 DEF Turns, QueueOK
<1> HIDE DEF waiting
<1>3. \A c \in Calls : pc'[c] = IF pc[c] = "idle" THEN "idle" ELSE "done"
  BY <1>1, <1>2
<1>4. pc' \in [Calls -> Steps] /\ result' \in [Calls -> Answers \cup {None}]
  <2>1. \A c \in Calls : (IF c \in waiting THEN "done" ELSE pc[c]) \in Steps
    BY DEF Turns, Steps
  <2>2. \A c \in Calls : (IF c \in waiting THEN "lost" ELSE result[c]) \in Answers \cup {None}
    BY DEF Turns, Answers
  <2> QED  BY <1>1, <2>1, <2>2
<1>5. QueueOK'
  <2>1. queue' \in Seq(Calls) /\ DOMAIN queue' = {}
    BY <1>1, EmptySeq, LenProperties
  <2> QED  BY <2>1, <1>3 DEF QueueOK
<1>6. ASSUME NEW d \in Calls
      PROVE  /\ ~Busy(d)' /\ (pc'[d] = pc[d] \/ pc'[d] = "done")
             /\ pc'[d] # "idle" => req'[d] \in Request
             /\ pc'[d] # "done" => result'[d] = None
             /\ result'[d] = result[d] \/ result'[d] = "lost"
  BY <1>1, <1>2, <1>3 DEF Busy, Turns
<1>7. req' \in [Calls -> Request \cup {None}]
  BY <1>1 DEF Turns
<1>8. Turns'
  BY <1>4, <1>5, <1>6, <1>7 DEF Turns
<1> QED  BY <1>6, <1>8

-----------------------------------------------------------------------------
(* The handlers move in turn.                                              *)

EnrollSteps ==
  {"node_tunnel", "terminal_ingress", "terminal_record", "node_row",
   "portal_tunnel", "portal_ingress", "portal_record"}
TransferSteps == {"source_ingress", "destination_ingress", "auth_record"}

\* A step tells the kind of the request.
LEMMA KindAtStep ==
  ASSUME Turns, NEW c \in Calls, Busy(c)
  PROVE  /\ req[c] \in Request
         /\ pc[c] \in EnrollSteps => req[c].kind = "enroll"
         /\ pc[c] = "drop" => req[c].kind = "sync"
         /\ pc[c] \in {"ingress", "records"} => req[c].kind \in {"sync", "app", "auth"}
         /\ pc[c] \in TransferSteps => req[c].kind = "transfer"
         /\ pc[c] = "adopt_record" => req[c].kind = "adopt"
         /\ pc[c] = "answer" =>
              req[c].kind \in {"enroll", "sync", "app", "auth", "transfer", "adopt"}
<1>1. req[c] \in Request /\ pc[c] \in StepsOf(req[c].kind)
  BY DEF Turns, Busy
<1>2. req[c].kind \in {"issue", "enroll", "sync", "app", "auth", "transfer", "adopt"}
  BY <1>1, RequestFields
<1> HIDE DEF Turns
<1> QED  BY <1>1, <1>2 DEF StepsOf, EnrollSteps, TransferSteps

LEMMA StepKinds ==
  ASSUME Turns, NEW c \in Calls, NEW s, At(c, s), s \notin {"idle", "waiting", "done"}
  PROVE  Serving(c) /\ Busy(c) /\ pc[c] = s
BY DEF At, Busy

LEMMA FinishMoves ==
  ASSUME Turns, NEW c \in Calls, NEW answer \in Answers,
         Serving(c), req' = req, Finish(c, answer)
  PROVE  Moves(c) /\ pc'[c] = "done" /\ result'[c] = answer
BY DEF Finish, Moves, Turns

LEMMA ContinueMoves ==
  ASSUME Turns, NEW c \in Calls, NEW s \in StepsOf(req[c].kind),
         Serving(c), req' = req, Continue(c, s)
  PROVE  Moves(c) /\ pc'[c] = s
BY DEF Continue, Moves, Turns

\* What becomes of faults.
Counted == faults' = faults \/ Fault

LEMMA PerformedMoves ==
  ASSUME Turns, NEW c \in Calls, NEW s \in StepsOf(req[c].kind),
         Serving(c), req' = req, Performed(c, s)
  PROVE  Moves(c) /\ pc'[c] \in {s, "done"} /\ (pc'[c] = "done" => result'[c] = "failed")
         /\ Counted
<1>1. "failed" \in Answers
  BY DEF Answers
<1> QED  BY <1>1, FinishMoves, ContinueMoves, StepsAreSteps DEF Performed, Counted

\* ensureDNS writes where nothing is, or what is there.
LEMMA EnsureMoves ==
  ASSUME Turns, NEW c \in Calls, NEW s \in StepsOf(req[c].kind), NEW h, NEW t,
         Serving(c), req' = req, EnsureDNS(c, h, t, s)
  PROVE  /\ Moves(c) /\ pc'[c] \in {s, "done"} /\ (pc'[c] = "done" => result'[c] = "failed")
         /\ Counted
         /\ \/ dns[h] \in {None, t} /\ dns' = [dns EXCEPT ![h] = t]
            \/ dns' = dns /\ pc'[c] = "done"
<1>1. "failed" \in Answers
  BY DEF Answers
<1> QED  BY <1>1, FinishMoves, PerformedMoves DEF EnsureDNS, Counted

LEMMA AdoptMoves ==
  ASSUME Turns, NEW c \in Calls, NEW s \in StepsOf(req[c].kind), NEW h, NEW t,
         Serving(c), req' = req, AdoptExactDNS(c, h, t, s)
  PROVE  /\ Moves(c) /\ pc'[c] \in {s, "done"} /\ (pc'[c] = "done" => result'[c] = "failed")
         /\ Counted
         /\ \/ dns[h] \in Tunnels \cup {Legacy} /\ dns' = [dns EXCEPT ![h] = t]
            \/ dns' = dns /\ pc'[c] = "done"
<1>1. "failed" \in Answers
  BY DEF Answers
<1>2. CASE /\ dns[h] \in Tunnels \cup {Legacy}
            /\ dns' = [dns EXCEPT ![h] = t]
            /\ Performed(c, s)
  BY <1>2, PerformedMoves
<1>3. CASE Finish(c, "failed") /\ dns' = dns /\ faults' = faults
  BY <1>1, <1>3, FinishMoves DEF Counted
<1> QED  BY <1>2, <1>3 DEF AdoptExactDNS

\* The steps of an enrollment.
LEMMA EnrollMoves ==
  ASSUME Turns, NEW c \in Calls, Enroll(c)
  PROVE  /\ Moves(c) /\ req[c] \in Request /\ req[c].kind = "enroll"
         /\ Counted
         /\ LET verdict == Verdict(req[c].id, req[c].node, req[c].token) IN
              \/ verdict = "accepted" /\ pc'[c] = "node_tunnel"
              \/ verdict = "enrolled" /\ pc'[c] = "portal_tunnel"
              \/ pc'[c] = "done" /\ result'[c] = verdict /\ verdict \in EnrollRefusals
<1> DEFINE verdict == Verdict(req[c].id, req[c].node, req[c].token)
<1>1. Serving(c) /\ pc[c] = "waiting" /\ req[c].kind = "enroll" /\ req' = req /\ faults' = faults
  BY DEF Enroll, Asked, At
<1>2. req[c] \in Request
  BY <1>1 DEF Turns
<1>3. {"node_tunnel", "portal_tunnel"} \subseteq StepsOf(req[c].kind)
  BY <1>1 DEF StepsOf
<1>4. verdict \in EnrollRefusals \cup {"accepted", "enrolled"}
  BY DEF Verdict, EnrollRefusals
<1>5. EnrollRefusals \subseteq Answers
  BY DEF Answers
<1> HIDE DEF verdict
<1>6. \/ verdict = "accepted" /\ Continue(c, "node_tunnel")
      \/ verdict = "enrolled" /\ Continue(c, "portal_tunnel")
      \/ verdict \in EnrollRefusals /\ Finish(c, verdict)
  BY <1>4 DEF Enroll, verdict
<1>7. /\ Moves(c)
      /\ \/ verdict = "accepted" /\ pc'[c] = "node_tunnel"
         \/ verdict = "enrolled" /\ pc'[c] = "portal_tunnel"
         \/ pc'[c] = "done" /\ result'[c] = verdict /\ verdict \in EnrollRefusals
  BY <1>1, <1>3, <1>5, <1>6, ContinueMoves, FinishMoves
<1> QED  BY <1>1, <1>2, <1>7 DEF verdict, Counted

\* A step that asks Cloudflare goes on or fails.
GoesOn(c, from, to) ==
  /\ Moves(c) /\ Busy(c) /\ pc[c] = from
  /\ pc'[c] \in {to, "done"}
  /\ pc'[c] = "done" => result'[c] = "failed"
  /\ Counted

LEMMA EnrollmentGoesOn ==
  ASSUME Turns, NEW c \in Calls
  PROVE  /\ NodeTunnel(c) => GoesOn(c, "node_tunnel", "terminal_ingress")
         /\ TerminalIngress(c) => GoesOn(c, "terminal_ingress", "terminal_record")
         /\ TerminalRecord(c) => GoesOn(c, "terminal_record", "node_row")
         /\ NodeRow(c) => GoesOn(c, "node_row", "portal_tunnel") /\ pc'[c] = "portal_tunnel"
         /\ PortalTunnel(c) => GoesOn(c, "portal_tunnel", "portal_ingress")
         /\ PortalIngress(c) => GoesOn(c, "portal_ingress", "portal_record")
         /\ PortalRecord(c) => GoesOn(c, "portal_record", "answer")
<1>1. ASSUME NEW s \in EnrollSteps, At(c, s)
      PROVE  /\ Serving(c) /\ Busy(c) /\ pc[c] = s
             /\ EnrollSteps \cup {"answer"} \subseteq StepsOf(req[c].kind)
  <2>1. Serving(c) /\ Busy(c) /\ pc[c] = s
    BY <1>1, StepKinds DEF EnrollSteps
  <2>2. req[c].kind = "enroll"
    BY <2>1, KindAtStep
  <2> QED  BY <2>1, <2>2 DEF StepsOf, EnrollSteps
<1>2. NodeTunnel(c) => GoesOn(c, "node_tunnel", "terminal_ingress")
  BY <1>1, PerformedMoves DEF NodeTunnel, GoesOn, EnrollSteps
<1>3. TerminalIngress(c) => GoesOn(c, "terminal_ingress", "terminal_record")
  BY <1>1, PerformedMoves DEF TerminalIngress, GoesOn, EnrollSteps
<1>4. TerminalRecord(c) => GoesOn(c, "terminal_record", "node_row")
  BY <1>1, EnsureMoves DEF TerminalRecord, GoesOn, EnrollSteps
<1>5. NodeRow(c) => GoesOn(c, "node_row", "portal_tunnel") /\ pc'[c] = "portal_tunnel"
  BY <1>1, ContinueMoves DEF NodeRow, GoesOn, EnrollSteps, Counted
<1>6. PortalTunnel(c) => GoesOn(c, "portal_tunnel", "portal_ingress")
  BY <1>1, PerformedMoves DEF PortalTunnel, GoesOn, EnrollSteps
<1>7. PortalIngress(c) => GoesOn(c, "portal_ingress", "portal_record")
  BY <1>1, PerformedMoves DEF PortalIngress, GoesOn, EnrollSteps
<1>8. PortalRecord(c) => GoesOn(c, "portal_record", "answer")
  BY <1>1, EnsureMoves DEF PortalRecord, GoesOn, EnrollSteps
<1> QED  BY <1>2, <1>3, <1>4, <1>5, <1>6, <1>7, <1>8

LEMMA HostsGoOn ==
  ASSUME Turns, NEW c \in Calls
  PROVE  /\ Drop(c) => GoesOn(c, "drop", "drop")
         /\ AddRows(c) => GoesOn(c, "drop", "ingress") /\ pc'[c] = "ingress"
         /\ NodeIngress(c) => /\ GoesOn(c, "ingress", pc'[c])
                              /\ pc'[c] = "done" \/ pc'[c] = IF left[c] = {} THEN "answer" ELSE "records"
         /\ EnsureRecord(c) => /\ GoesOn(c, "records", pc'[c])
                               /\ pc'[c] \in {"records", "answer", "done"}
<1>1. ASSUME At(c, "drop")
      PROVE  /\ Serving(c) /\ Busy(c) /\ pc[c] = "drop" /\ req[c].kind = "sync"
             /\ {"drop", "ingress"} \subseteq StepsOf(req[c].kind)
  <2>1. Serving(c) /\ Busy(c) /\ pc[c] = "drop"
    BY <1>1, StepKinds
  <2>2. req[c].kind = "sync"
    BY <2>1, KindAtStep
  <2> QED  BY <2>1, <2>2 DEF StepsOf
<1>2. ASSUME NEW s \in {"ingress", "records"}, At(c, s)
      PROVE  /\ Serving(c) /\ Busy(c) /\ pc[c] = s
             /\ {"records", "answer"} \subseteq StepsOf(req[c].kind)
  <2>1. Serving(c) /\ Busy(c) /\ pc[c] = s
    BY <1>2, StepKinds
  <2>2. req[c].kind \in {"sync", "app", "auth"}
    BY <2>1, <1>2, KindAtStep
  <2> QED  BY <2>1, <2>2 DEF StepsOf
<1>3. "failed" \in Answers
  BY DEF Answers
<1>4. Drop(c) => GoesOn(c, "drop", "drop")
  <2> SUFFICES ASSUME Drop(c) PROVE GoesOn(c, "drop", "drop")
    OBVIOUS
  <2>1. At(c, "drop") /\ req' = req
    BY DEF Drop
  <2>2. \/ queue' = queue /\ pc' = pc /\ result' = result /\ faults' = faults
        \/ Fault /\ Finish(c, "failed")
    BY DEF Drop
  <2>3. CASE queue' = queue /\ pc' = pc /\ result' = result /\ faults' = faults
    BY <1>1, <2>1, <2>3 DEF GoesOn, Moves, Counted, Turns
  <2>4. CASE Fault /\ Finish(c, "failed")
    BY <1>1, <1>3, <2>1, <2>4, FinishMoves DEF GoesOn, Counted
  <2> QED  BY <2>2, <2>3, <2>4
<1>5. AddRows(c) => GoesOn(c, "drop", "ingress") /\ pc'[c] = "ingress"
  BY <1>1, ContinueMoves DEF AddRows, GoesOn, Counted
<1>6. NodeIngress(c) => /\ GoesOn(c, "ingress", pc'[c])
                        /\ pc'[c] = "done" \/ pc'[c] = IF left[c] = {} THEN "answer" ELSE "records"
  <2> DEFINE to == IF left[c] = {} THEN "answer" ELSE "records"
  <2> SUFFICES ASSUME NodeIngress(c)
               PROVE  GoesOn(c, "ingress", pc'[c]) /\ pc'[c] \in {to, "done"}
    OBVIOUS
  <2>1. At(c, "ingress") /\ req' = req /\ Performed(c, to)
    BY DEF NodeIngress
  <2>2. to \in StepsOf(req[c].kind)
    BY <1>2, <2>1
  <2> HIDE DEF to
  <2> QED  BY <2>1, <2>2, <1>2, PerformedMoves DEF GoesOn
<1>7. EnsureRecord(c) => /\ GoesOn(c, "records", pc'[c])
                         /\ pc'[c] \in {"records", "answer", "done"}
  <2> SUFFICES ASSUME EnsureRecord(c)
               PROVE  GoesOn(c, "records", pc'[c]) /\ pc'[c] \in {"records", "answer", "done"}
    OBVIOUS
  <2>1. PICK h \in left[c] :
          EnsureDNS(c, h, req[c].node, IF left[c] = {h} THEN "answer" ELSE "records")
    BY DEF EnsureRecord
  <2> DEFINE to == IF left[c] = {h} THEN "answer" ELSE "records"
  <2>2. At(c, "records") /\ req' = req
    BY DEF EnsureRecord
  <2>3. to \in StepsOf(req[c].kind) /\ to \in {"records", "answer"}
    BY <1>2, <2>2
  <2> HIDE DEF to
  <2>4. EnsureDNS(c, h, req[c].node, to)
    BY <2>1 DEF to
  <2> QED  BY <2>2, <2>3, <2>4, <1>2, EnsureMoves DEF GoesOn
<1> QED  BY <1>4, <1>5, <1>6, <1>7

LEMMA TransferGoesOn ==
  ASSUME Turns, NEW c \in Calls
  PROVE  /\ SourceIngress(c) => GoesOn(c, "source_ingress", "destination_ingress")
         /\ DestinationIngress(c) => GoesOn(c, "destination_ingress", "auth_record")
         /\ AuthRecord(c) => GoesOn(c, "auth_record", "answer")
         /\ AdoptRecord(c) => GoesOn(c, "adopt_record", "answer")
         /\ Answer(c) => Moves(c) /\ pc[c] = "answer" /\ pc'[c] = "done" /\ result'[c] = "ready"
<1>1. ASSUME NEW s \in TransferSteps, At(c, s)
      PROVE  /\ Serving(c) /\ Busy(c) /\ pc[c] = s
             /\ TransferSteps \cup {"answer"} \subseteq StepsOf(req[c].kind)
  <2>1. Serving(c) /\ Busy(c) /\ pc[c] = s
    BY <1>1, StepKinds DEF TransferSteps
  <2>2. req[c].kind = "transfer"
    BY <2>1, KindAtStep
  <2> QED  BY <2>1, <2>2 DEF StepsOf, TransferSteps
<1>2. SourceIngress(c) => GoesOn(c, "source_ingress", "destination_ingress")
  BY <1>1, PerformedMoves DEF SourceIngress, GoesOn, TransferSteps
<1>3. DestinationIngress(c) => GoesOn(c, "destination_ingress", "auth_record")
  BY <1>1, PerformedMoves DEF DestinationIngress, GoesOn, TransferSteps
<1>4. AuthRecord(c) => GoesOn(c, "auth_record", "answer")
  BY <1>1, AdoptMoves DEF AuthRecord, GoesOn, TransferSteps
<1>5. AdoptRecord(c) => GoesOn(c, "adopt_record", "answer")
  <2> SUFFICES ASSUME AdoptRecord(c) PROVE GoesOn(c, "adopt_record", "answer")
    OBVIOUS
  <2>1. Serving(c) /\ Busy(c) /\ pc[c] = "adopt_record"
    BY StepKinds DEF AdoptRecord
  <2>2. "answer" \in StepsOf(req[c].kind)
    BY <2>1, KindAtStep DEF StepsOf
  <2> QED  BY <2>1, <2>2, AdoptMoves DEF AdoptRecord, GoesOn
<1>6. "ready" \in Answers
  BY DEF Answers
<1>7. Answer(c) => Moves(c) /\ pc[c] = "answer" /\ pc'[c] = "done" /\ result'[c] = "ready"
  BY <1>6, FinishMoves DEF Answer, At
<1> QED  BY <1>2, <1>3, <1>4, <1>5, <1>7

\* The first step of a request: its verdict and what it does then.
Begins(c, kinds, next) ==
  /\ Moves(c) /\ pc[c] = "waiting" /\ req[c] \in Request /\ req[c].kind \in kinds
  /\ pc'[c] \in next \cup {"done"}
  /\ pc'[c] = "done" => result'[c] \notin EnrollRefusals
  /\ Counted

LEMMA RequestsBegin ==
  ASSUME Turns, NEW c \in Calls
  PROVE  /\ IssueToken(c) => Begins(c, {"issue"}, {})
         /\ Unauthorized(c) =>
              Begins(c, {"sync", "app", "auth"}, {}) /\ result'[c] = "unauthorized"
         /\ SyncApps(c) => Begins(c, {"sync"}, {"drop"}) /\ pc'[c] = "drop"
         /\ ProvisionApp(c) => Begins(c, {"app"}, {"ingress"}) /\ pc'[c] = "ingress"
         /\ ProvisionAuth(c) =>
              /\ Begins(c, {"auth"}, {"ingress"})
              /\ pc'[c] = "done" => result'[c] # "ready"
         /\ TransferAuth(c) =>
              /\ Begins(c, {"transfer"}, {"source_ingress"})
              /\ pc'[c] = "done" => result'[c] # "ready"
         /\ AdoptDNS(c) =>
              /\ Begins(c, {"adopt"}, {"adopt_record"})
              /\ pc'[c] = "done" => result'[c] # "ready"
<1>1. ASSUME NEW kind, Asked(c, kind)
      PROVE  Serving(c) /\ pc[c] = "waiting" /\ req[c] \in Request /\ req[c].kind = kind
  BY <1>1 DEF Asked, At, Turns
<1>2. {"ready", "failed", "node_exists", "unauthorized", "auth_owner_exists",
       "owner_conflict", "dns_conflict"} \subseteq Answers \ EnrollRefusals
  BY DEF Answers, EnrollRefusals
<1>3. IssueToken(c) => Begins(c, {"issue"}, {})
  <2> SUFFICES ASSUME IssueToken(c) PROVE Begins(c, {"issue"}, {})
    OBVIOUS
  <2>1. /\ Asked(c, "issue") /\ req' = req /\ faults' = faults
        /\ Finish(c, "node_exists") \/ Finish(c, "ready")
    BY DEF IssueToken
  <2> QED  BY <2>1, <1>1, <1>2, FinishMoves DEF Begins, Counted
<1>4. Unauthorized(c) => Begins(c, {"sync", "app", "auth"}, {}) /\ result'[c] = "unauthorized"
  BY <1>2, FinishMoves DEF Unauthorized, At, Begins, Counted, Turns
<1>5. SyncApps(c) => Begins(c, {"sync"}, {"drop"}) /\ pc'[c] = "drop"
  BY <1>1, ContinueMoves DEF SyncApps, Begins, StepsOf, Counted
<1>6. ProvisionApp(c) => Begins(c, {"app"}, {"ingress"}) /\ pc'[c] = "ingress"
  BY <1>1, ContinueMoves DEF ProvisionApp, Begins, StepsOf, Counted
<1>7. ProvisionAuth(c) => /\ Begins(c, {"auth"}, {"ingress"})
                          /\ pc'[c] = "done" => result'[c] # "ready"
  <2> SUFFICES ASSUME ProvisionAuth(c)
               PROVE  Begins(c, {"auth"}, {"ingress"}) /\ (pc'[c] = "done" => result'[c] # "ready")
    OBVIOUS
  <2>1. /\ Asked(c, "auth") /\ req' = req /\ faults' = faults
        /\ Finish(c, "auth_owner_exists") \/ Continue(c, "ingress")
    BY DEF ProvisionAuth
  <2>2. "ingress" \in StepsOf(req[c].kind)
    BY <2>1, <1>1 DEF StepsOf
  <2> QED  BY <2>1, <2>2, <1>1, <1>2, FinishMoves, ContinueMoves DEF Begins, Counted
<1>8. TransferAuth(c) => /\ Begins(c, {"transfer"}, {"source_ingress"})
                         /\ pc'[c] = "done" => result'[c] # "ready"
  <2> DEFINE verdict == TransferVerdict(req[c].source, req[c].destination)
  <2> SUFFICES ASSUME TransferAuth(c)
               PROVE  Begins(c, {"transfer"}, {"source_ingress"}) /\ (pc'[c] = "done" => result'[c] # "ready")
    OBVIOUS
  <2>1. verdict \in {"owner_conflict", "dns_conflict", "admitted"}
    BY DEF TransferVerdict
  <2>2. /\ Asked(c, "transfer") /\ req' = req /\ faults' = faults
        /\ \/ Continue(c, "source_ingress")
           \/ verdict # "admitted" /\ Finish(c, verdict)
    BY DEF TransferAuth
  <2>3. "source_ingress" \in StepsOf(req[c].kind)
    BY <2>2, <1>1 DEF StepsOf
  <2> HIDE DEF verdict
  <2> QED  BY <2>1, <2>2, <2>3, <1>1, <1>2, FinishMoves, ContinueMoves DEF Begins, Counted
<1>9. AdoptDNS(c) => /\ Begins(c, {"adopt"}, {"adopt_record"})
                     /\ pc'[c] = "done" => result'[c] # "ready"
  <2> SUFFICES ASSUME AdoptDNS(c)
               PROVE  Begins(c, {"adopt"}, {"adopt_record"}) /\ (pc'[c] = "done" => result'[c] # "ready")
    OBVIOUS
  <2>1. Asked(c, "adopt") /\ req' = req /\ Performed(c, "adopt_record")
    BY DEF AdoptDNS
  <2>2. "adopt_record" \in StepsOf(req[c].kind)
    BY <2>1, <1>1 DEF StepsOf
  <2> QED  BY <2>1, <2>2, <1>1, <1>2, PerformedMoves DEF Begins
<1> QED  BY <1>3, <1>4, <1>5, <1>6, <1>7, <1>8, <1>9

\* Every step of a handler is a move, and refusals of enrollments come from
\* Enroll.
LEMMA HandleMoves ==
  ASSUME Turns, NEW c \in Calls, Handle(c)
  PROVE  /\ Moves(c) /\ Counted
         /\ pc'[c] = "done" /\ result'[c] \in EnrollRefusals => Enroll(c)
<1>1. "failed" \notin EnrollRefusals /\ "ready" \notin EnrollRefusals
  BY DEF EnrollRefusals
<1>3. Enroll(c) => Moves(c) /\ Counted
  BY EnrollMoves
<1>4. Answer(c) => Moves(c) /\ result'[c] = "ready" /\ Counted
  BY TransferGoesOn DEF Answer, Counted
<1>5. NodeTunnel(c) \/ TerminalIngress(c) \/ TerminalRecord(c) \/ NodeRow(c)
        \/ PortalTunnel(c) \/ PortalIngress(c) \/ PortalRecord(c)
      => Moves(c) /\ Counted /\ (pc'[c] = "done" => result'[c] \notin EnrollRefusals)
  BY <1>1, EnrollmentGoesOn DEF GoesOn
<1>6. Drop(c) \/ AddRows(c) \/ NodeIngress(c) \/ EnsureRecord(c)
      => Moves(c) /\ Counted /\ (pc'[c] = "done" => result'[c] \notin EnrollRefusals)
  BY <1>1, HostsGoOn DEF GoesOn
<1>7. SourceIngress(c) \/ DestinationIngress(c) \/ AuthRecord(c) \/ AdoptRecord(c)
      => Moves(c) /\ Counted /\ (pc'[c] = "done" => result'[c] \notin EnrollRefusals)
  BY <1>1, TransferGoesOn DEF GoesOn
<1>8. IssueToken(c) \/ Unauthorized(c) \/ SyncApps(c) \/ ProvisionApp(c)
        \/ ProvisionAuth(c) \/ TransferAuth(c) \/ AdoptDNS(c)
      => Moves(c) /\ Counted /\ (pc'[c] = "done" => result'[c] \notin EnrollRefusals)
  BY RequestsBegin DEF Begins
<1> QED  BY <1>1, <1>3, <1>4, <1>5, <1>6, <1>7, <1>8 DEF Handle

LEMMA FailureMoves ==
  ASSUME Turns, NEW c \in Calls, CloudflareFails(c)
  PROVE  /\ Moves(c) /\ pc'[c] = "done" /\ result'[c] = "failed" /\ Counted
         /\ UNCHANGED <<tables, cloudflare, left, interrupted>>
<1>1. "failed" \in Answers
  BY DEF Answers
<1> QED  BY <1>1, FinishMoves DEF CloudflareFails, Counted

LEMMA TurnsAtFirst == Init => Turns
<1> SUFFICES ASSUME Init PROVE Turns
  OBVIOUS
<1>1. queue \in Seq(Calls) /\ DOMAIN queue = {}
  BY EmptySeq, LenProperties DEF Init
<1>2. \A c \in Calls : pc[c] = "idle" /\ req[c] = None /\ result[c] = None
  BY DEF Init
<1>3. /\ pc \in [Calls -> Steps] /\ req \in [Calls -> Request \cup {None}]
      /\ result \in [Calls -> Answers \cup {None}]
  BY DEF Init, Steps
<1> QED  BY <1>1, <1>2, <1>3 DEF Turns, QueueOK, Busy

LEMMA TurnsStay == Turns /\ Step => Turns'
<1> SUFFICES ASSUME Turns, Step PROVE Turns'
  OBVIOUS
<1>1. ASSUME UNCHANGED <<queue, pc, req, result>> PROVE Turns'
  BY <1>1 DEF Turns, QueueOK, Busy, Serving
<1>2. ASSUME NEW c \in Calls, NEW r \in Request, Send(c, r) PROVE Turns'
  BY <1>2, SendKeepsTurns
<1>3. ASSUME NEW c \in Calls, Handle(c) PROVE Turns'
  BY <1>3, HandleMoves, MovesKeepTurns
<1>4. ASSUME NEW c \in Calls, CloudflareFails(c) PROVE Turns'
  BY <1>4, FailureMoves, MovesKeepTurns
<1>5. ASSUME NEW t \in Tokens, Expire(t) PROVE Turns'
  BY <1>5, <1>1 DEF Expire, object
<1>6. UNCHANGED vars => Turns'
  BY <1>1 DEF vars, object
<1> QED  BY <1>2, <1>3, <1>4, <1>5, <1>6, RestartKeepsTurns DEF Step

-----------------------------------------------------------------------------
(* Who writes what.                                                        *)

LEMMA TableWriters ==
  ASSUME Step
  PROVE  /\ nodes' = nodes \/ \E c \in Calls : NodeRow(c)
         /\ owner' = owner \/ \E c \in Calls : ProvisionAuth(c) \/ TransferAuth(c)
         /\ \/ tokens' = tokens
            \/ \E c \in Calls : IssueToken(c) \/ Enroll(c)
            \/ \E t \in Tokens : Expire(t)
         /\ rows' = rows \/ \E c \in Calls : Drop(c) \/ AddRows(c) \/ ProvisionApp(c)
<1> USE DEF vars, tables
<1>1. ASSUME NEW c \in Calls, Handle(c)
      PROVE  /\ nodes' = nodes \/ NodeRow(c)
             /\ owner' = owner \/ ProvisionAuth(c) \/ TransferAuth(c)
             /\ tokens' = tokens \/ IssueToken(c) \/ Enroll(c)
             /\ rows' = rows \/ Drop(c) \/ AddRows(c) \/ ProvisionApp(c)
  BY <1>1 DEF Handle, IssueToken, Enroll, NodeTunnel, TerminalIngress, TerminalRecord, NodeRow,
     PortalTunnel, PortalIngress, PortalRecord, Unauthorized, SyncApps, Drop, AddRows,
     ProvisionApp, ProvisionAuth, NodeIngress, EnsureRecord, TransferAuth, SourceIngress,
     DestinationIngress, AuthRecord, AdoptDNS, AdoptRecord, Answer
<1> QED  BY <1>1 DEF Step, Send, CloudflareFails, Expire, Restart

LEMMA CloudflareWriters ==
  ASSUME Step
  PROVE  /\ \/ ingress' = ingress
            \/ \E c \in Calls :
                 \/ NodeTunnel(c) \/ TerminalIngress(c) \/ PortalTunnel(c) \/ PortalIngress(c)
                 \/ NodeIngress(c) \/ SourceIngress(c) \/ DestinationIngress(c) \/ AdoptDNS(c)
         /\ \/ dns' = dns
            \/ \E c \in Calls :
                 \/ TerminalRecord(c) \/ PortalRecord(c) \/ Drop(c) \/ EnsureRecord(c)
                 \/ AuthRecord(c) \/ AdoptRecord(c)
<1> USE DEF vars, cloudflare
<1>1. ASSUME NEW c \in Calls, Handle(c)
      PROVE  /\ \/ ingress' = ingress
                \/ NodeTunnel(c) \/ TerminalIngress(c) \/ PortalTunnel(c) \/ PortalIngress(c)
                \/ NodeIngress(c) \/ SourceIngress(c) \/ DestinationIngress(c) \/ AdoptDNS(c)
             /\ \/ dns' = dns
                \/ TerminalRecord(c) \/ PortalRecord(c) \/ Drop(c) \/ EnsureRecord(c)
                \/ AuthRecord(c) \/ AdoptRecord(c)
  BY <1>1 DEF Handle, IssueToken, Enroll, NodeTunnel, TerminalIngress, TerminalRecord, NodeRow,
     PortalTunnel, PortalIngress, PortalRecord, Unauthorized, SyncApps, Drop, AddRows,
     ProvisionApp, ProvisionAuth, NodeIngress, EnsureRecord, TransferAuth, SourceIngress,
     DestinationIngress, AuthRecord, AdoptDNS, AdoptRecord, Answer
<1> QED  BY <1>1 DEF Step, Send, CloudflareFails, Expire, Restart

LEMMA OtherWriters ==
  ASSUME Step
  PROVE  /\ \/ left' = left
            \/ \E c \in Calls : \/ SyncApps(c) \/ Drop(c) \/ AddRows(c)
                                \/ ProvisionApp(c) \/ ProvisionAuth(c) \/ EnsureRecord(c)
         /\ \/ interrupted' = interrupted
            \/ \E c \in Calls : TransferAuth(c) \/ AdoptRecord(c) \/ Answer(c)
<1> USE DEF vars, object
<1>1. ASSUME NEW c \in Calls, Handle(c)
      PROVE  /\ \/ left' = left
                \/ SyncApps(c) \/ Drop(c) \/ AddRows(c)
                \/ ProvisionApp(c) \/ ProvisionAuth(c) \/ EnsureRecord(c)
             /\ interrupted' = interrupted \/ TransferAuth(c) \/ AdoptRecord(c) \/ Answer(c)
  BY <1>1 DEF Handle, IssueToken, Enroll, NodeTunnel, TerminalIngress, TerminalRecord, NodeRow,
     PortalTunnel, PortalIngress, PortalRecord, Unauthorized, SyncApps, Drop, AddRows,
     ProvisionApp, ProvisionAuth, NodeIngress, EnsureRecord, TransferAuth, SourceIngress,
     DestinationIngress, AuthRecord, AdoptDNS, AdoptRecord, Answer
<1> QED  BY <1>1 DEF Step, Send, CloudflareFails, Expire, Restart

-----------------------------------------------------------------------------
(* The invariant: what the tables, tunnels and records say, and what the    *)
(* handler whose turn it is has already brought about.                     *)

DataOK ==
  /\ nodes \in [Nodes -> Ids \cup {None}]
  /\ owner \in Nodes \cup {None}
  /\ tokens \in [Tokens -> Token \cup {None}]
  /\ rows \subseteq Row
  /\ UniqueHosts(rows)
  /\ ingress \in [Tunnels -> {None} \cup SUBSET Hosts]
  /\ dns \in [Hosts -> Record]
  /\ left \in [Calls -> SUBSET Hosts]
  /\ faults \in 0 .. MaxFaults
  /\ interrupted \in (Nodes \X Nodes) \cup {None}

\* The token of an enrollment is claimed for its node by its id.
Claimed(c) ==
  LET t == tokens[req[c].token] IN
    t # None /\ t.node = req[c].node /\ t.claimed = req[c].id

\* Until the row is there name and id are free, and the terminal is made first.
Enrolling(c) ==
  pc[c] \in {"node_tunnel", "terminal_ingress", "terminal_record", "node_row"} =>
    LET n == req[c].node IN
      /\ Claimed(c)
      /\ nodes[n] = None /\ \A m \in Nodes : nodes[m] # req[c].id
      /\ pc[c] \in {"terminal_record", "node_row"} => ingress[n] = {Terminal(n)}
      /\ pc[c] = "node_row" => dns[Terminal(n)] = n

\* From there on the row has that id.
Credited(c) ==
  \/ pc[c] \in {"portal_tunnel", "portal_ingress", "portal_record"}
  \/ pc[c] = "answer" /\ req[c].kind = "enroll"
  \/ pc[c] = "done" /\ req[c].kind = "enroll" /\ result[c] = "ready"

Admitted(c) == Credited(c) => Claimed(c) /\ nodes[req[c].node] = req[c].id

OwnerEnrolled == owner # None => nodes[owner] # None

EnrollmentInv ==
  /\ UniqueIds(nodes)
  /\ OwnerEnrolled
  /\ \A c \in Calls : Enrolling(c) /\ Admitted(c)

AppHosts(n) == {Hostname(a, n) : a \in AppNames}

\* syncApps drops only hosts of the node; what is not listed is to be dropped.
Dropping(c) ==
  pc[c] = "drop" =>
    LET n == req[c].node IN
      /\ left[c] \subseteq AppHosts(n)
      /\ \A r \in rows : r.node = n /\ r.app \notin req[c].apps => Hostname(r.app, n) \in left[c]

\* The hosts a request wants.
Wanted(r) ==
  CASE r.kind = "sync" -> {Hostname(a, r.node) : a \in r.apps}
    [] r.kind = "app" -> {Hostname(r.app, r.node)}
    [] r.kind = "auth" -> {AuthHost}

\* The tables agree with the request before the tunnel and the records do.
Providing(c) ==
  pc[c] \in {"ingress", "records", "answer"} /\ req[c].kind \in {"sync", "app", "auth"} =>
    LET n == req[c].node IN
      /\ left[c] \subseteq Wanted(req[c])
      /\ \A h \in Wanted(req[c]) \ left[c] : dns[h] = n
      /\ pc[c] = "answer" => left[c] = {}
      /\ pc[c] \in {"records", "answer"} => ingress[n] = Served(n)
      /\ req[c].kind = "auth" => owner = n
      /\ req[c].kind = "sync" => \A r \in rows : r.node = n => r.app \in req[c].apps
      /\ req[c].kind # "auth" =>
           \A a \in AppNames : Hostname(a, n) \in Wanted(req[c]) /\ Unambiguous(a, n) =>
             [node |-> n, app |-> a] \in rows

AppsInv ==
  /\ RecordsHaveRows
  /\ \A c \in Calls : Dropping(c) /\ Providing(c)

\* The owner has moved before the tunnels and the record do.
Transferring(c) ==
  Busy(c) /\ req[c].kind = "transfer" =>
    LET s == req[c].source
        d == req[c].destination IN
      /\ owner = d /\ interrupted = <<s, d>>
      /\ pc[c] # "source_ingress" => ingress[s] = Served(s)
      /\ pc[c] \in {"auth_record", "answer"} => ingress[d] = Served(d)
      /\ pc[c] = "answer" => dns[AuthHost] = d

\* An admitted transfer and its reverse are admitted until it is completed.
Recoverable ==
  interrupted # None =>
    /\ TransferVerdict(interrupted[1], interrupted[2]) = "admitted"
    /\ TransferVerdict(interrupted[2], interrupted[1]) = "admitted"

\* An auth record that points to a node points to the owner, which serves it.
AuthLed ==
  /\ interrupted = None
  /\ dns[AuthHost] \in Nodes
  /\ \A c \in Calls : req[c] # None /\ req[c].kind = "adopt" => req[c].host # AuthHost
  => /\ AuthRouted(dns[AuthHost])
     /\ ingress[dns[AuthHost]] # None

Unsent == \A c \in Calls : pc[c] = "idle" => req[c] = None

AuthInv ==
  /\ Unsent
  /\ Recoverable
  /\ AuthLed
  /\ \A c \in Calls : Transferring(c)

-----------------------------------------------------------------------------
(* Types.                                                                  *)

LEMMA ServedHosts ==
  ASSUME rows \subseteq Row, NEW n \in Nodes
  PROVE  Served(n) \in SUBSET Hosts
BY HostFacts DEF Served, Row

\* INSERT OR IGNORE keeps hosts unique.
LEMMA InsertedRows ==
  ASSUME rows \subseteq Row, UniqueHosts(rows), NEW n \in Nodes, NEW apps \in SUBSET AppNames
  PROVE  Inserted(n, apps) \subseteq Row /\ UniqueHosts(Inserted(n, apps))
<1> DEFINE new == {[node |-> n, app |-> a] :
                     a \in {a \in apps : \A r \in rows : Hostname(r.app, r.node) # Hostname(a, n)}}
<1>1. Inserted(n, apps) = rows \cup new
  BY DEF Inserted
<1>2. \A r \in new : /\ r \in Row /\ r.node = n /\ r.app \in AppNames
                     /\ \A o \in rows : Hostname(o.app, o.node) # Hostname(r.app, n)
  BY DEF Row
<1>3. \A r, o \in new : r.app = o.app => r = o
  OBVIOUS
<1> HIDE DEF new
<1>4. \A r, o \in new : Hostname(r.app, r.node) = Hostname(o.app, o.node) => r = o
  BY <1>2, <1>3, HostsDiffer
<1> QED  BY <1>1, <1>2, <1>4 DEF UniqueHosts

LEMMA TokensTyped ==
  ASSUME Turns, DataOK, Step
  PROVE  tokens' \in [Tokens -> Token \cup {None}]
<1>1. tokens \in [Tokens -> Token \cup {None}]
  BY DEF DataOK
<1>2. ASSUME NEW c \in Calls, IssueToken(c)
      PROVE  tokens' \in [Tokens -> Token \cup {None}]
  <2>1. Begins(c, {"issue"}, {})
    BY <1>2, RequestsBegin
  <2>2. req[c].node \in Nodes
    BY <2>1, RequestFields DEF Begins
  <2>3. [node |-> req[c].node, claimed |-> None, expired |-> FALSE] \in Token
    BY <2>2 DEF Token
  <2> QED  BY <1>1, <1>2, <2>3 DEF IssueToken, tables
<1>3. ASSUME NEW c \in Calls, Enroll(c)
      PROVE  tokens' \in [Tokens -> Token \cup {None}]
  <2> DEFINE t == req[c].token
             id == req[c].id
  <2>1. id \in Ids /\ t \in Tokens
    BY <1>3, EnrollMoves, RequestFields
  <2>2. CASE tokens' = tokens
    BY <2>2, <1>1
  <2>3. CASE /\ tokens' = [tokens EXCEPT ![t].claimed = IF @ = None THEN id ELSE @]
             /\ Verdict(id, req[c].node, t) = "accepted"
    <3>1. tokens[t] # None
      BY <2>3 DEF Verdict
    <3>2. tokens[t] \in Token
      BY <3>1, <2>1, <1>1
    <3>3. [tokens[t] EXCEPT !.claimed = IF @ = None THEN id ELSE @] \in Token
      BY <3>2, <2>1 DEF Token
    <3>4. tokens' = [tokens EXCEPT ![t] = [tokens[t] EXCEPT !.claimed = IF @ = None THEN id ELSE @]]
      BY <2>3
    <3> QED  BY <3>3, <3>4, <1>1
  <2> QED  BY <1>3, <2>2, <2>3 DEF Enroll
<1>4. ASSUME NEW t \in Tokens, Expire(t)
      PROVE  tokens' \in [Tokens -> Token \cup {None}]
  <2>1. tokens[t] \in Token
    BY <1>4, <1>1 DEF Expire
  <2>2. [tokens[t] EXCEPT !.expired = TRUE] \in Token
    BY <2>1 DEF Token
  <2>3. tokens' = [tokens EXCEPT ![t] = [tokens[t] EXCEPT !.expired = TRUE]]
    BY <1>4 DEF Expire
  <2> QED  BY <2>2, <2>3, <1>1
<1> QED  BY <1>1, <1>2, <1>3, <1>4, TableWriters

LEMMA RowsTyped ==
  ASSUME Turns, DataOK, Step
  PROVE  rows' \subseteq Row /\ UniqueHosts(rows')
<1>1. rows \subseteq Row /\ UniqueHosts(rows)
  BY DEF DataOK
<1>2. ASSUME NEW c \in Calls, Drop(c)
      PROVE  rows' \subseteq rows
  BY <1>2 DEF Drop, RowsWithout
<1>3. ASSUME NEW c \in Calls, AddRows(c)
      PROVE  rows' \subseteq Row /\ UniqueHosts(rows')
  <2>1. Busy(c) /\ pc[c] = "drop"
    BY <1>3, HostsGoOn DEF GoesOn
  <2>2. req[c].node \in Nodes /\ req[c].apps \in SUBSET AppNames
    BY <2>1, KindAtStep, RequestFields
  <2> QED  BY <1>1, <1>3, <2>2, InsertedRows DEF AddRows
<1>4. ASSUME NEW c \in Calls, ProvisionApp(c)
      PROVE  rows' \subseteq Row /\ UniqueHosts(rows')
  <2>1. Begins(c, {"app"}, {"ingress"})
    BY <1>4, RequestsBegin
  <2>2. req[c].node \in Nodes /\ {req[c].app} \in SUBSET AppNames
    BY <2>1, RequestFields DEF Begins
  <2> QED  BY <1>1, <1>4, <2>2, InsertedRows DEF ProvisionApp
<1> QED  BY <1>1, <1>2, <1>3, <1>4, TableWriters DEF UniqueHosts

\* How tunnels change: they come into being empty, or are told what to serve.
IngressStep ==
  \/ ingress' = ingress
  \/ \E t \in Tunnels : CreateTunnel(t)
  \/ ConfigureIngress(Portal, {PortalHost})
  \/ \E c \in Calls : /\ Busy(c) /\ pc[c] = "terminal_ingress" /\ req[c].node \in Nodes
                      /\ ConfigureIngress(req[c].node, {Terminal(req[c].node)})
  \/ \E n \in Nodes : ConfigureIngress(n, Served(n))

LEMMA IngressSteps ==
  ASSUME Turns, Step
  PROVE  IngressStep
<1>1. ASSUME NEW c \in Calls, NodeTunnel(c) PROVE IngressStep
  <2>1. Busy(c) /\ pc[c] = "node_tunnel"
    BY <1>1, EnrollmentGoesOn DEF GoesOn
  <2>2. req[c].node \in Tunnels
    BY <2>1, KindAtStep, RequestFields, HostFacts DEF EnrollSteps
  <2> QED  BY <1>1, <2>2 DEF NodeTunnel, IngressStep
<1>2. ASSUME NEW c \in Calls, TerminalIngress(c) PROVE IngressStep
  <2>1. Busy(c) /\ pc[c] = "terminal_ingress"
    BY <1>2, EnrollmentGoesOn DEF GoesOn
  <2>2. req[c].node \in Nodes
    BY <2>1, KindAtStep, RequestFields DEF EnrollSteps
  <2> QED  BY <1>2, <2>1, <2>2 DEF TerminalIngress, IngressStep
<1>3. ASSUME NEW c \in Calls, NodeIngress(c) PROVE IngressStep
  <2>1. Busy(c) /\ pc[c] = "ingress"
    BY <1>3, HostsGoOn DEF GoesOn
  <2>2. req[c].node \in Nodes
    BY <2>1, KindAtStep, RequestFields
  <2> QED  BY <1>3, <2>2 DEF NodeIngress, IngressStep
<1>4. ASSUME NEW c \in Calls, SourceIngress(c) \/ DestinationIngress(c) PROVE IngressStep
  <2>1. Busy(c) /\ pc[c] \in TransferSteps
    BY <1>4, TransferGoesOn DEF GoesOn, TransferSteps
  <2>2. req[c].source \in Nodes /\ req[c].destination \in Nodes
    BY <2>1, KindAtStep, RequestFields
  <2> QED  BY <1>4, <2>2 DEF SourceIngress, DestinationIngress, IngressStep
<1>5. ASSUME NEW c \in Calls, AdoptDNS(c) PROVE IngressStep
  <2>1. Begins(c, {"adopt"}, {"adopt_record"})
    BY <1>5, RequestsBegin
  <2>2. req[c].tunnel \in Tunnels
    BY <2>1, RequestFields DEF Begins
  <2> QED  BY <1>5, <2>2 DEF AdoptDNS, IngressStep
<1>6. ASSUME NEW c \in Calls, PortalTunnel(c) \/ PortalIngress(c) PROVE IngressStep
  BY <1>6, HostFacts DEF PortalTunnel, PortalIngress, IngressStep
<1> QED  BY <1>1, <1>2, <1>3, <1>4, <1>5, <1>6, CloudflareWriters DEF IngressStep

\* How records change: one is made for a node where there is none, one of the
\* node is dropped, or an infrastructure host is adopted.
EnsuredFor(c, h, n) ==
  /\ h \in Hosts /\ n \in Tunnels
  /\ dns[h] \in {None, n} /\ dns' = [dns EXCEPT ![h] = n]
  /\ Busy(c)
  /\ \/ pc[c] = "terminal_record" /\ n = req[c].node /\ n \in Nodes /\ h = Terminal(n)
     \/ pc[c] = "portal_record" /\ n = Portal /\ h = PortalHost
     \/ pc[c] = "records" /\ n = req[c].node /\ n \in Nodes /\ h \in left[c]

DroppedFor(c, h) ==
  /\ Busy(c) /\ pc[c] = "drop" /\ req[c].node \in Nodes /\ h \in left[c]
  /\ dns' = [dns EXCEPT ![h] = IF @ = req[c].node THEN None ELSE @]

AdoptedFor(c, h, t) ==
  /\ Busy(c) /\ t \in Tunnels
  /\ \/ pc[c] = "auth_record" /\ h = AuthHost /\ t = req[c].destination
     \/ pc[c] = "adopt_record" /\ h = req[c].host /\ t = req[c].tunnel /\ h \in {AuthHost, PortalHost}
  /\ dns' = [dns EXCEPT ![h] = t]

RecordStep(c) ==
  \/ \E h \in Hosts, n \in Tunnels : EnsuredFor(c, h, n)
  \/ \E h \in Hosts : DroppedFor(c, h)
  \/ \E h \in Hosts, t \in Tunnels : AdoptedFor(c, h, t)

LEMMA RecordSteps ==
  ASSUME Turns, DataOK, Step
  PROVE  dns' = dns \/ \E c \in Calls : RecordStep(c)
<1>1. ASSUME NEW c \in Calls, TerminalRecord(c) PROVE dns' = dns \/ RecordStep(c)
  <2>1. Busy(c) /\ pc[c] = "terminal_record"
    BY <1>1, EnrollmentGoesOn DEF GoesOn
  <2>2. req[c].node \in Nodes
    BY <2>1, KindAtStep, RequestFields DEF EnrollSteps
  <2> QED  BY <1>1, <2>1, <2>2, HostFacts DEF TerminalRecord, EnsureDNS, EnsuredFor, RecordStep
<1>2. ASSUME NEW c \in Calls, PortalRecord(c) PROVE dns' = dns \/ RecordStep(c)
  <2>1. Busy(c) /\ pc[c] = "portal_record"
    BY <1>2, EnrollmentGoesOn DEF GoesOn
  <2> QED  BY <1>2, <2>1, HostFacts DEF PortalRecord, EnsureDNS, EnsuredFor, RecordStep
<1>3. ASSUME NEW c \in Calls, EnsureRecord(c) PROVE dns' = dns \/ RecordStep(c)
  <2>1. Busy(c) /\ pc[c] = "records" /\ left[c] \subseteq Hosts
    BY <1>3, HostsGoOn DEF GoesOn, DataOK
  <2>2. req[c].node \in Nodes
    BY <2>1, KindAtStep, RequestFields
  <2> QED  BY <1>3, <2>1, <2>2, HostFacts DEF EnsureRecord, EnsureDNS, EnsuredFor, RecordStep
<1>4. ASSUME NEW c \in Calls, Drop(c) PROVE dns' = dns \/ RecordStep(c)
  <2>1. Busy(c) /\ pc[c] = "drop" /\ left[c] \subseteq Hosts
    BY <1>4, HostsGoOn DEF GoesOn, DataOK
  <2>2. req[c].node \in Nodes
    BY <2>1, KindAtStep, RequestFields
  <2> QED  BY <1>4, <2>1, <2>2 DEF Drop, DroppedFor, RecordStep
<1>5. ASSUME NEW c \in Calls, AuthRecord(c) PROVE dns' = dns \/ RecordStep(c)
  <2>1. Busy(c) /\ pc[c] = "auth_record"
    BY <1>5, TransferGoesOn DEF GoesOn
  <2>2. req[c].destination \in Tunnels
    BY <2>1, KindAtStep, RequestFields, HostFacts DEF TransferSteps
  <2> QED  BY <1>5, <2>1, <2>2, HostFacts DEF AuthRecord, AdoptExactDNS, AdoptedFor, RecordStep
<1>6. ASSUME NEW c \in Calls, AdoptRecord(c) PROVE dns' = dns \/ RecordStep(c)
  <2>1. Busy(c) /\ pc[c] = "adopt_record"
    BY <1>6, TransferGoesOn DEF GoesOn
  <2>2. req[c].tunnel \in Tunnels /\ req[c].host \in {AuthHost, PortalHost}
    BY <2>1, KindAtStep, RequestFields
  <2> QED  BY <1>6, <2>1, <2>2, HostFacts DEF AdoptRecord, AdoptExactDNS, AdoptedFor, RecordStep
<1> QED  BY <1>1, <1>2, <1>3, <1>4, <1>5, <1>6, CloudflareWriters

LEMMA CloudflareTyped ==
  ASSUME Turns, DataOK, Step
  PROVE  /\ ingress' \in [Tunnels -> {None} \cup SUBSET Hosts]
         /\ dns' \in [Hosts -> Record]
<1>1. ingress \in [Tunnels -> {None} \cup SUBSET Hosts] /\ dns \in [Hosts -> Record] /\ rows \subseteq Row
  BY DEF DataOK
<1>2. ingress' \in [Tunnels -> {None} \cup SUBSET Hosts]
  <2>1. ASSUME NEW t \in Tunnels, CreateTunnel(t)
        PROVE  ingress' \in [Tunnels -> {None} \cup SUBSET Hosts]
    <3>1. (IF ingress[t] = None THEN {} ELSE ingress[t]) \in {None} \cup SUBSET Hosts
      BY <1>1
    <3> QED  BY <1>1, <2>1, <3>1 DEF CreateTunnel
  <2>2. ASSUME NEW t \in Tunnels, NEW hosts \in SUBSET Hosts, ConfigureIngress(t, hosts)
        PROVE  ingress' \in [Tunnels -> {None} \cup SUBSET Hosts]
    BY <1>1, <2>2 DEF ConfigureIngress
  <2>3. {PortalHost} \in SUBSET Hosts /\ \A n \in Nodes : {Terminal(n)} \in SUBSET Hosts
    BY HostFacts
  <2> QED  BY <1>1, <2>1, <2>2, <2>3, IngressSteps, ServedHosts, HostFacts DEF IngressStep
<1>3. dns' \in [Hosts -> Record]
  <2>1. ASSUME NEW c \in Calls, RecordStep(c) PROVE dns' \in [Hosts -> Record]
    <3>1. ASSUME NEW h \in Hosts, NEW x \in Record, dns' = [dns EXCEPT ![h] = x]
          PROVE  dns' \in [Hosts -> Record]
      BY <1>1, <3>1
    <3>2. ASSUME NEW h \in Hosts, DroppedFor(c, h)
          PROVE  dns' \in [Hosts -> Record]
      <4>1. (IF dns[h] = req[c].node THEN None ELSE dns[h]) \in Record
        BY <1>1, HostFacts
      <4>2. dns' = [dns EXCEPT ![h] = IF dns[h] = req[c].node THEN None ELSE dns[h]]
        BY <3>2 DEF DroppedFor
      <4> QED  BY <4>1, <4>2, <3>1
    <3> QED  BY <2>1, <3>1, <3>2, HostFacts DEF RecordStep, EnsuredFor, AdoptedFor
  <2> QED  BY <1>1, <2>1, RecordSteps
<1> QED  BY <1>2, <1>3

LEMMA DataStays ==
  ASSUME Turns, DataOK, Step
  PROVE  DataOK'
<1>1. nodes' \in [Nodes -> Ids \cup {None}]
  <2>1. ASSUME NEW c \in Calls, NodeRow(c) PROVE nodes' \in [Nodes -> Ids \cup {None}]
    <3>1. Busy(c) /\ pc[c] = "node_row"
      BY <2>1, EnrollmentGoesOn DEF GoesOn
    <3>2. req[c].id \in Ids
      BY <3>1, KindAtStep, RequestFields DEF EnrollSteps
    <3> QED  BY <2>1, <3>2 DEF NodeRow, DataOK
  <2> QED  BY <2>1, TableWriters DEF DataOK
<1>2. owner' \in Nodes \cup {None}
  <2>1. ASSUME NEW c \in Calls, ProvisionAuth(c) PROVE owner' \in Nodes \cup {None}
    <3>1. req[c].node \in Nodes
      BY <2>1, RequestsBegin, RequestFields DEF Begins
    <3> QED  BY <2>1, <3>1 DEF ProvisionAuth, DataOK
  <2>2. ASSUME NEW c \in Calls, TransferAuth(c) PROVE owner' \in Nodes \cup {None}
    <3>1. req[c].destination \in Nodes
      BY <2>2, RequestsBegin, RequestFields DEF Begins
    <3> QED  BY <2>2, <3>1 DEF TransferAuth, DataOK
  <2> QED  BY <2>1, <2>2, TableWriters DEF DataOK
<1>3. left' \in [Calls -> SUBSET Hosts]
  <2>1. left \in [Calls -> SUBSET Hosts] /\ rows \subseteq Row
    BY DEF DataOK
  <2>2. ASSUME NEW c \in Calls, NEW hosts \in SUBSET Hosts, left' = [left EXCEPT ![c] = hosts]
        PROVE  left' \in [Calls -> SUBSET Hosts]
    BY <2>1, <2>2
  <2>3. ASSUME NEW c \in Calls, SyncApps(c) PROVE left' \in [Calls -> SUBSET Hosts]
    <3> DEFINE hosts == {Hostname(r.app, r.node) :
                           r \in {r \in rows : r.node = req[c].node /\ r.app \notin req[c].apps}}
    <3>1. hosts \in SUBSET Hosts
      BY <2>1, HostFacts DEF Row
    <3> QED  BY <2>2, <2>3, <3>1 DEF SyncApps
  <2>4. ASSUME NEW c \in Calls, Drop(c) \/ EnsureRecord(c) PROVE left' \in [Calls -> SUBSET Hosts]
    <3>1. left' = left \/ \E h \in left[c] : left' = [left EXCEPT ![c] = left[c] \ {h}]
      BY <2>4 DEF Drop, EnsureRecord
    <3>2. \A h : left[c] \ {h} \in SUBSET Hosts
      BY <2>1
    <3> QED  BY <2>1, <2>2, <3>1, <3>2
  <2>5. ASSUME NEW c \in Calls, AddRows(c) PROVE left' \in [Calls -> SUBSET Hosts]
    <3>1. req[c].node \in Nodes /\ req[c].apps \in SUBSET AppNames
      BY <2>5, HostsGoOn, KindAtStep, RequestFields DEF GoesOn
    <3>2. {Hostname(a, req[c].node) : a \in req[c].apps} \in SUBSET Hosts
      BY <3>1, HostFacts
    <3> QED  BY <2>2, <2>5, <3>2 DEF AddRows
  <2>6. ASSUME NEW c \in Calls, ProvisionApp(c) PROVE left' \in [Calls -> SUBSET Hosts]
    <3>1. req[c].node \in Nodes /\ req[c].app \in AppNames
      BY <2>6, RequestsBegin, RequestFields DEF Begins
    <3>2. {Hostname(req[c].app, req[c].node)} \in SUBSET Hosts
      BY <3>1, HostFacts
    <3> QED  BY <2>2, <2>6, <3>2 DEF ProvisionApp
  <2>7. ASSUME NEW c \in Calls, ProvisionAuth(c) PROVE left' \in [Calls -> SUBSET Hosts]
    <3>1. {AuthHost} \in SUBSET Hosts
      BY HostFacts
    <3> QED  BY <2>1, <2>2, <2>7, <3>1 DEF ProvisionAuth
  <2> QED  BY <2>1, <2>3, <2>4, <2>5, <2>6, <2>7, OtherWriters
<1>4. faults' \in 0 .. MaxFaults
  <2>1. Counted
    BY HandleMoves, FailureMoves DEF Step, Send, Expire, Restart, Counted, vars, tables
  <2> QED  BY <2>1, FaultBound DEF Counted, Fault, DataOK
<1>5. interrupted' \in (Nodes \X Nodes) \cup {None}
  <2>1. ASSUME NEW c \in Calls, TransferAuth(c) PROVE interrupted' \in (Nodes \X Nodes) \cup {None}
    <3>1. req[c].source \in Nodes /\ req[c].destination \in Nodes
      BY <2>1, RequestsBegin, RequestFields DEF Begins
    <3> QED  BY <2>1, <3>1 DEF TransferAuth, DataOK
  <2>2. ASSUME NEW c \in Calls, AdoptRecord(c) \/ Answer(c)
        PROVE  interrupted' \in {interrupted, None}
    BY <2>2 DEF AdoptRecord, Answer
  <2> QED  BY <2>1, <2>2, OtherWriters DEF DataOK
<1>6. DataOK' <=> /\ nodes' \in [Nodes -> Ids \cup {None}]
                  /\ owner' \in Nodes \cup {None}
                  /\ tokens' \in [Tokens -> Token \cup {None}]
                  /\ rows' \subseteq Row /\ UniqueHosts(rows')
                  /\ ingress' \in [Tunnels -> {None} \cup SUBSET Hosts]
                  /\ dns' \in [Hosts -> Record]
                  /\ left' \in [Calls -> SUBSET Hosts]
                  /\ faults' \in 0 .. MaxFaults
                  /\ interrupted' \in (Nodes \X Nodes) \cup {None}
  BY DEF DataOK, UniqueHosts
<1> QED  BY <1>1, <1>2, <1>3, <1>4, <1>5, <1>6, TokensTyped, RowsTyped, CloudflareTyped

-----------------------------------------------------------------------------
(* Where a call has come from.                                             *)

LEMMA Arrivals ==
  ASSUME Turns, NEW c \in Calls, Handle(c)
  PROVE  /\ pc'[c] = "node_tunnel" => Enroll(c)
         /\ pc'[c] = "terminal_ingress" => NodeTunnel(c)
         /\ pc'[c] = "terminal_record" => TerminalIngress(c)
         /\ pc'[c] = "node_row" => TerminalRecord(c)
         /\ pc'[c] = "portal_tunnel" => Enroll(c) \/ NodeRow(c)
         /\ pc'[c] = "portal_ingress" => PortalTunnel(c)
         /\ pc'[c] = "portal_record" => PortalIngress(c)
         /\ pc'[c] = "drop" => SyncApps(c) \/ Drop(c)
         /\ pc'[c] = "ingress" => AddRows(c) \/ ProvisionApp(c) \/ ProvisionAuth(c)
         /\ pc'[c] = "records" => NodeIngress(c) \/ EnsureRecord(c)
         /\ pc'[c] = "source_ingress" => TransferAuth(c)
         /\ pc'[c] = "destination_ingress" => SourceIngress(c)
         /\ pc'[c] = "auth_record" => DestinationIngress(c)
         /\ pc'[c] = "answer" => \/ PortalRecord(c) \/ NodeIngress(c) \/ EnsureRecord(c)
                                \/ AuthRecord(c) \/ AdoptRecord(c)
         /\ pc'[c] = "done" /\ result'[c] = "ready" => IssueToken(c) \/ Answer(c)
<1> USE DEF GoesOn, Begins
<1>1. /\ NodeTunnel(c) => pc'[c] \in {"terminal_ingress", "done"} /\ (pc'[c] = "done" => result'[c] = "failed")
      /\ TerminalIngress(c) => pc'[c] \in {"terminal_record", "done"} /\ (pc'[c] = "done" => result'[c] = "failed")
      /\ TerminalRecord(c) => pc'[c] \in {"node_row", "done"} /\ (pc'[c] = "done" => result'[c] = "failed")
      /\ NodeRow(c) => pc'[c] = "portal_tunnel"
      /\ PortalTunnel(c) => pc'[c] \in {"portal_ingress", "done"} /\ (pc'[c] = "done" => result'[c] = "failed")
      /\ PortalIngress(c) => pc'[c] \in {"portal_record", "done"} /\ (pc'[c] = "done" => result'[c] = "failed")
      /\ PortalRecord(c) => pc'[c] \in {"answer", "done"} /\ (pc'[c] = "done" => result'[c] = "failed")
  BY EnrollmentGoesOn
<1>2. /\ Drop(c) => pc'[c] \in {"drop", "done"} /\ (pc'[c] = "done" => result'[c] = "failed")
      /\ AddRows(c) => pc'[c] = "ingress"
      /\ NodeIngress(c) => pc'[c] \in {"answer", "records", "done"} /\ (pc'[c] = "done" => result'[c] = "failed")
      /\ EnsureRecord(c) => pc'[c] \in {"answer", "records", "done"} /\ (pc'[c] = "done" => result'[c] = "failed")
  BY HostsGoOn
<1>3. /\ SourceIngress(c) => pc'[c] \in {"destination_ingress", "done"} /\ (pc'[c] = "done" => result'[c] = "failed")
      /\ DestinationIngress(c) => pc'[c] \in {"auth_record", "done"} /\ (pc'[c] = "done" => result'[c] = "failed")
      /\ AuthRecord(c) => pc'[c] \in {"answer", "done"} /\ (pc'[c] = "done" => result'[c] = "failed")
      /\ AdoptRecord(c) => pc'[c] \in {"answer", "done"} /\ (pc'[c] = "done" => result'[c] = "failed")
      /\ Answer(c) => pc'[c] = "done"
  BY TransferGoesOn
<1>4. /\ IssueToken(c) => pc'[c] = "done"
      /\ Unauthorized(c) => pc'[c] = "done" /\ result'[c] = "unauthorized"
      /\ SyncApps(c) => pc'[c] = "drop"
      /\ ProvisionApp(c) => pc'[c] = "ingress"
      /\ ProvisionAuth(c) => pc'[c] \in {"ingress", "done"} /\ (pc'[c] = "done" => result'[c] # "ready")
      /\ TransferAuth(c) => pc'[c] \in {"source_ingress", "done"} /\ (pc'[c] = "done" => result'[c] # "ready")
      /\ AdoptDNS(c) => pc'[c] \in {"adopt_record", "done"} /\ (pc'[c] = "done" => result'[c] # "ready")
  BY RequestsBegin
<1>5. Enroll(c) => /\ pc'[c] \in {"node_tunnel", "portal_tunnel", "done"}
                   /\ pc'[c] = "done" => result'[c] # "ready"
  BY EnrollMoves DEF EnrollRefusals
<1> QED  BY <1>1, <1>2, <1>3, <1>4, <1>5 DEF Handle

\* Steps that do not belong to a handler, or end one without a trace.
Aside ==
  /\ UNCHANGED <<nodes, owner, rows, ingress, dns, left, interrupted>>
  /\ \A d \in Calls :
       /\ Busy(d)' => Busy(d) /\ pc'[d] = pc[d]
       /\ Busy(d) => req'[d] = req[d]
       /\ result'[d] = "ready" => result[d] = "ready" /\ req'[d] = req[d] /\ pc'[d] = pc[d]

LEMMA StepIsHandledOrAside ==
  ASSUME Turns, Step
  PROVE  Aside \/ \E c \in Calls : Handle(c)
<1>1. ASSUME NEW c \in Calls, NEW r \in Request, Send(c, r) PROVE Aside
  <2>1. pc[c] = "idle" /\ result' = result /\ result[c] = None
    BY <1>1 DEF Send, Turns
  <2>2. \A d \in Calls : result[d] = "ready" => d # c
    BY <2>1, NoneFacts DEF Answers
  <2> QED  BY <1>1, <2>1, <2>2, SendKeepsTurns DEF Send, Aside, tables, cloudflare, Busy
<1>2. ASSUME NEW c \in Calls, CloudflareFails(c) PROVE Aside
  <2>1. /\ Moves(c) /\ pc'[c] = "done" /\ result'[c] = "failed"
        /\ UNCHANGED <<tables, cloudflare, left, interrupted>>
    BY <1>2, FailureMoves
  <2>2. req' = req
    BY <2>1 DEF Moves
  <2> QED  BY <2>1, <2>2, OthersWait DEF Aside, tables, cloudflare, Busy
<1>3. ASSUME NEW t \in Tokens, Expire(t) PROVE Aside
  BY <1>3 DEF Expire, Aside, cloudflare, object, Busy
<1>4. ASSUME Restart PROVE Aside
  <2>1. /\ \A d \in Calls : ~Busy(d)' /\ (pc'[d] = pc[d] \/ pc'[d] = "done")
        /\ \A d \in Calls : result'[d] = result[d] \/ result'[d] = "lost"
    BY <1>4, RestartKeepsTurns
  <2>2. UNCHANGED <<tables, cloudflare, req, left, interrupted>>
    BY <1>4 DEF Restart
  <2>3. ASSUME NEW d \in Calls, result'[d] = "ready"
        PROVE  result[d] = "ready" /\ pc'[d] = pc[d]
    <3>1. result[d] = "ready"
      BY <2>1, <2>3
    <3>2. pc[d] = "done"
      BY <3>1, NoneFacts DEF Turns, Answers
    <3> QED  BY <3>1, <3>2, <2>1
  <2> QED  BY <2>1, <2>2, <2>3 DEF Aside, tables, cloudflare
<1>5. UNCHANGED vars => Aside
  BY DEF vars, tables, cloudflare, object, Aside, Busy
<1> QED  BY <1>1, <1>2, <1>3, <1>4, <1>5 DEF Step

\* A request that was sent stays what it is.
LEMMA RequestStays ==
  ASSUME Turns, Step, NEW d \in Calls, pc[d] # "idle"
  PROVE  req'[d] = req[d]
<1>1. ASSUME NEW c \in Calls, NEW r \in Request, Send(c, r) PROVE req'[d] = req[d]
  BY <1>1 DEF Send, Turns
<1>2. ASSUME NEW c \in Calls, Handle(c) \/ CloudflareFails(c) PROVE req' = req
  BY <1>2, HandleMoves, FailureMoves DEF Moves
<1> QED  BY <1>1, <1>2 DEF Step, Expire, Restart, object, vars

LEMMA NeverIdleAgain ==
  ASSUME Turns, Step, NEW d \in Calls, pc[d] # "idle"
  PROVE  pc'[d] # "idle"
<1>1. ASSUME NEW c \in Calls, NEW r \in Request, Send(c, r) PROVE pc'[d] # "idle"
  BY <1>1 DEF Send, Turns
<1>2. ASSUME NEW c \in Calls, Moves(c) PROVE pc'[d] # "idle"
  <2>1. pc'[c] # "idle"
    BY <1>2, StepsAreSteps DEF Moves
  <2> QED  BY <1>2, <2>1, OthersWait
<1>3. ASSUME Restart PROVE pc'[d] # "idle"
  BY <1>3 DEF Restart
<1> QED  BY <1>1, <1>2, <1>3, HandleMoves, FailureMoves DEF Step, Expire, object, vars

-----------------------------------------------------------------------------
(* Enrollment.                                                             *)

\* The claim on a token is never taken back, and nobody else's is put there.
LEMMA TokenStays ==
  ASSUME Turns, DataOK, Step, NEW k \in Tokens, tokens[k] # None, tokens[k].claimed # None
  PROVE  /\ tokens'[k] # None /\ tokens'[k].node = tokens[k].node
         /\ tokens'[k].claimed = tokens[k].claimed
<1> DEFINE Stays == /\ tokens'[k] # None /\ tokens'[k].node = tokens[k].node
                    /\ tokens'[k].claimed = tokens[k].claimed
<1>1. tokens \in [Tokens -> Token \cup {None}] /\ tokens[k] \in Token
  BY DEF DataOK
<1>2. ASSUME tokens'[k] = tokens[k] PROVE Stays
  BY <1>2
<1>3. ASSUME NEW c \in Calls, IssueToken(c) PROVE Stays
  BY <1>1, <1>3 DEF IssueToken, Unissued, tables
<1>4. ASSUME NEW t, NEW new \in Token, tokens' = [tokens EXCEPT ![t] = new],
             t = k => new.node = tokens[k].node /\ new.claimed = tokens[k].claimed
      PROVE  Stays
  BY <1>1, <1>4, NoneFacts
<1>5. ASSUME NEW c \in Calls, Enroll(c) PROVE Stays
  <2> DEFINE t == req[c].token
             new == [tokens[t] EXCEPT !.claimed = IF @ = None THEN req[c].id ELSE @]
  <2>1. CASE tokens' = tokens
    BY <2>1, <1>2
  <2>2. CASE tokens' = [tokens EXCEPT ![t].claimed = IF @ = None THEN req[c].id ELSE @]
    <3>1. tokens' = [tokens EXCEPT ![t] = new]
      BY <2>2
    <3>2. t = k => new \in Token /\ new.node = tokens[k].node /\ new.claimed = tokens[k].claimed
      BY <1>1 DEF Token
    <3>3. t # k => tokens'[k] = tokens[k]
      BY <1>1, <3>1
    <3> HIDE DEF new
    <3> QED  BY <1>2, <1>4, <3>1, <3>2, <3>3
  <2> QED  BY <1>5, <2>1, <2>2 DEF Enroll
<1>6. ASSUME NEW t \in Tokens, Expire(t) PROVE Stays
  <2> DEFINE new == [tokens[t] EXCEPT !.expired = TRUE]
  <2>1. tokens' = [tokens EXCEPT ![t] = new]
    BY <1>6 DEF Expire
  <2>2. t = k => new \in Token /\ new.node = tokens[k].node /\ new.claimed = tokens[k].claimed
    BY <1>1 DEF Token
  <2>3. t # k => tokens'[k] = tokens[k]
    BY <1>1, <2>1
  <2> HIDE DEF new
  <2> QED  BY <1>2, <1>4, <2>1, <2>2, <2>3
<1> QED  BY <1>2, <1>3, <1>5, <1>6, TableWriters

LEMMA ClaimStays ==
  ASSUME Turns, DataOK, Step, NEW d \in Calls, req[d] \in Request, req[d].kind = "enroll",
         req'[d] = req[d], Claimed(d)
  PROVE  Claimed(d)'
<1>1. /\ req[d].token \in Tokens /\ req[d].id # None
      /\ tokens[req[d].token] # None /\ tokens[req[d].token].claimed # None
  BY RequestFields, NoneFacts DEF Claimed
<1> QED  BY <1>1, TokenStays DEF Claimed

\* What the verdict of an admission says.
LEMMA Accepted ==
  ASSUME NEW id, NEW n, NEW t
  PROVE  /\ Verdict(id, n, t) = "accepted" =>
              /\ tokens[t] # None /\ tokens[t].node = n /\ tokens[t].claimed \in {None, id}
              /\ nodes[n] = None /\ \A m \in Nodes : nodes[m] # id
         /\ Verdict(id, n, t) = "enrolled" =>
              /\ tokens[t] # None /\ tokens[t].node = n /\ tokens[t].claimed = id
              /\ nodes[n] = id
BY DEF Verdict

LEMMA EnrollClaims ==
  ASSUME Turns, DataOK, NEW c \in Calls, Enroll(c)
  PROVE  /\ pc'[c] = "node_tunnel" =>
              /\ Claimed(c)'
              /\ nodes[req[c].node] = None /\ \A m \in Nodes : nodes[m] # req[c].id
         /\ pc'[c] = "portal_tunnel" => Claimed(c)' /\ nodes[req[c].node] = req[c].id
<1> DEFINE k == req[c].token
           id == req[c].id
           n == req[c].node
<1>1. /\ Moves(c) /\ req[c] \in Request /\ req[c].kind = "enroll" /\ req' = req
      /\ k \in Tokens /\ id \in Ids
  BY EnrollMoves, RequestFields DEF Moves
<1>2. /\ pc'[c] = "node_tunnel" => Verdict(id, n, k) = "accepted"
      /\ pc'[c] = "portal_tunnel" => Verdict(id, n, k) = "enrolled"
  BY EnrollMoves
<1>3. ASSUME Verdict(id, n, k) = "accepted" PROVE Claimed(c)'
  <2> DEFINE new == [tokens[k] EXCEPT !.claimed = IF @ = None THEN id ELSE @]
  <2>1. tokens' = [tokens EXCEPT ![k] = new]
    BY <1>3 DEF Enroll
  <2>2. tokens[k] \in Token /\ tokens[k].node = n /\ tokens[k].claimed \in {None, id}
    BY <1>1, <1>3, Accepted DEF DataOK
  <2>3. new \in Token /\ new.node = n /\ new.claimed = id
    BY <1>1, <2>2 DEF Token
  <2>4. tokens'[k] = new /\ new # None
    BY <1>1, <2>1, <2>3, NoneFacts DEF DataOK
  <2> QED  BY <1>1, <2>3, <2>4 DEF Claimed
<1>4. ASSUME Verdict(id, n, k) = "enrolled" PROVE Claimed(c)'
  <2>1. tokens' = tokens
    BY <1>4 DEF Enroll
  <2>2. tokens[k] # None /\ tokens[k].node = n /\ tokens[k].claimed = id
    BY <1>4, Accepted
  <2> QED  BY <1>1, <2>1, <2>2 DEF Claimed
<1> QED  BY <1>2, <1>3, <1>4, Accepted

\* A row is only added, for a name and an id that had none.
LEMMA NodesGrow ==
  ASSUME Turns, DataOK, EnrollmentInv, Step
  PROVE  /\ \A n \in Nodes : nodes[n] # None => nodes'[n] = nodes[n]
         /\ UniqueIds(nodes')
<1>1. ASSUME NEW c \in Calls, NodeRow(c)
      PROVE  /\ \A n \in Nodes : nodes[n] # None => nodes'[n] = nodes[n]
             /\ UniqueIds(nodes')
  <2>1. pc[c] = "node_row" /\ Busy(c)
    BY <1>1, EnrollmentGoesOn DEF GoesOn
  <2>2. nodes[req[c].node] = None /\ \A m \in Nodes : nodes[m] # req[c].id
    BY <2>1 DEF EnrollmentInv, Enrolling
  <2>3. nodes' = [nodes EXCEPT ![req[c].node] = req[c].id]
    BY <1>1 DEF NodeRow
  <2> QED  BY <2>2, <2>3 DEF DataOK, UniqueIds, EnrollmentInv
<1>2. UniqueIds(nodes)
  BY DEF EnrollmentInv
<1> QED  BY <1>1, <1>2, TableWriters

LEMMA OwnerStaysEnrolled ==
  ASSUME Turns, DataOK, EnrollmentInv, Step
  PROVE  OwnerEnrolled'
<1>1. ASSUME NEW n \in Nodes, nodes[n] # None PROVE nodes'[n] # None
  BY <1>1, NodesGrow
<1>2. ASSUME NEW c \in Calls, ProvisionAuth(c) PROVE OwnerEnrolled'
  <2>1. req[c].node \in Nodes /\ nodes[req[c].node] # None
    BY <1>2, RequestsBegin, RequestFields DEF Begins, ProvisionAuth
  <2>2. owner' \in {owner, req[c].node}
    BY <1>2 DEF ProvisionAuth
  <2> QED  BY <2>1, <2>2, <1>1 DEF OwnerEnrolled, EnrollmentInv, DataOK
<1>3. ASSUME NEW c \in Calls, TransferAuth(c) PROVE OwnerEnrolled'
  <2>1. req[c].destination \in Nodes
    BY <1>3, RequestsBegin, RequestFields DEF Begins
  <2>2. \/ owner' = owner
        \/ owner' = req[c].destination /\ nodes[req[c].destination] # None
    <3> DEFINE verdict == TransferVerdict(req[c].source, req[c].destination)
    <3>1. verdict = "admitted" => nodes[req[c].destination] # None
      BY DEF TransferVerdict
    <3> HIDE DEF verdict
    <3>2. owner' = owner \/ (verdict = "admitted" /\ owner' = req[c].destination)
      BY <1>3 DEF TransferAuth, verdict
    <3> QED  BY <3>1, <3>2
  <2> QED  BY <2>1, <2>2, <1>1 DEF OwnerEnrolled, EnrollmentInv, DataOK
<1>4. owner' = owner => OwnerEnrolled'
  BY <1>1 DEF OwnerEnrolled, EnrollmentInv, DataOK
<1> QED  BY <1>2, <1>3, <1>4, TableWriters

LEMMA EnrollingStays ==
  ASSUME Turns, DataOK, EnrollmentInv, Step, NEW d \in Calls
  PROVE  Enrolling(d)'
<1> DEFINE preparing == {"node_tunnel", "terminal_ingress", "terminal_record", "node_row"}
<1> SUFFICES ASSUME pc'[d] \in preparing PROVE Enrolling(d)'
  BY DEF Enrolling
<1>1. Busy(d)'
  BY DEF Busy
<1>2. ASSUME Busy(d), pc[d] \in preparing
      PROVE  /\ req[d] \in Request /\ req[d].kind = "enroll" /\ req'[d] = req[d]
             /\ req[d].node \in Nodes /\ req[d].node \in Tunnels /\ Claimed(d)'
  <2>1. req[d] \in Request /\ req[d].kind = "enroll"
    BY <1>2, KindAtStep DEF EnrollSteps
  <2>2. req'[d] = req[d]
    BY <1>2, RequestStays DEF Busy
  <2> QED  BY <1>2, <2>1, <2>2, ClaimStays, RequestFields, HostFacts DEF EnrollmentInv, Enrolling
<1>3. CASE Aside
  <2>1. Busy(d) /\ pc'[d] = pc[d] /\ nodes' = nodes /\ ingress' = ingress /\ dns' = dns
    BY <1>1, <1>3 DEF Aside, cloudflare
  <2>2. Enrolling(d)
    BY DEF EnrollmentInv
  <2> QED  BY <2>1, <2>2, <1>2 DEF Enrolling
<1>4. ASSUME NEW c \in Calls, Handle(c), c # d PROVE FALSE
  BY <1>1, <1>4, HandleMoves, OthersWait
<1>5. CASE Handle(d)
  <2>1. CASE pc'[d] = "node_tunnel"
    <3>1. Enroll(d)
      BY <2>1, <1>5, Arrivals
    <3>2. nodes' = nodes /\ req' = req
      BY <3>1 DEF Enroll
    <3> QED  BY <3>1, <3>2, <2>1, EnrollClaims DEF Enrolling
  <2>2. CASE pc'[d] = "terminal_ingress"
    <3>1. NodeTunnel(d)
      BY <2>2, <1>5, Arrivals
    <3>2. nodes' = nodes /\ req' = req /\ Busy(d) /\ pc[d] = "node_tunnel"
      BY <3>1, EnrollmentGoesOn DEF NodeTunnel, tables, GoesOn
    <3> QED  BY <3>2, <2>2, <1>2 DEF Enrolling, EnrollmentInv
  <2>3. CASE pc'[d] = "terminal_record"
    <3>1. TerminalIngress(d)
      BY <2>3, <1>5, Arrivals
    <3>2. /\ nodes' = nodes /\ req' = req /\ Busy(d) /\ pc[d] = "terminal_ingress"
          /\ ingress' = [ingress EXCEPT ![req[d].node] = {Terminal(req[d].node)}]
      BY <3>1, EnrollmentGoesOn DEF TerminalIngress, ConfigureIngress, tables, GoesOn
    <3>3. ingress'[req[d].node] = {Terminal(req[d].node)}
      BY <3>2, <1>2 DEF DataOK
    <3> QED  BY <3>2, <3>3, <2>3, <1>2 DEF Enrolling, EnrollmentInv
  <2>4. CASE pc'[d] = "node_row"
    <3>1. TerminalRecord(d)
      BY <2>4, <1>5, Arrivals
    <3>2. /\ nodes' = nodes /\ req' = req /\ ingress' = ingress /\ Busy(d) /\ pc[d] = "terminal_record"
      BY <3>1, EnrollmentGoesOn DEF TerminalRecord, tables, GoesOn
    <3>3. dns' = [dns EXCEPT ![Terminal(req[d].node)] = req[d].node]
      <4>1. "node_row" \in StepsOf(req[d].kind) /\ Serving(d)
        BY <3>2, <1>2, <3>1 DEF StepsOf, TerminalRecord, At
      <4> QED  BY <4>1, <3>1, <3>2, <2>4, EnsureMoves DEF TerminalRecord
    <3>4. dns'[Terminal(req[d].node)] = req[d].node
      BY <3>2, <3>3, <1>2, HostFacts DEF DataOK
    <3> QED  BY <3>2, <3>4, <2>4, <1>2 DEF Enrolling, EnrollmentInv
  <2> QED  BY <2>1, <2>2, <2>3, <2>4
<1> QED  BY <1>3, <1>4, <1>5, StepIsHandledOrAside

LEMMA AdmittedStays ==
  ASSUME Turns, DataOK, EnrollmentInv, Step, NEW d \in Calls
  PROVE  Admitted(d)'
<1> SUFFICES ASSUME Credited(d)' PROVE Claimed(d)' /\ nodes'[req'[d].node] = req'[d].id
  BY DEF Admitted
<1>1. ASSUME Credited(d)
      PROVE  /\ req'[d] = req[d] /\ Claimed(d)' /\ nodes'[req'[d].node] = req'[d].id
             /\ nodes'[req[d].node] = req[d].id
  <2>1. pc[d] # "idle" /\ req[d] \in Request /\ req[d].kind = "enroll"
    BY <1>1, KindAtStep DEF Credited, Turns, Busy, EnrollSteps
  <2>2. req'[d] = req[d]
    BY <2>1, RequestStays
  <2>3. Claimed(d) /\ nodes[req[d].node] = req[d].id
    BY <1>1 DEF EnrollmentInv, Admitted
  <2>4. nodes'[req[d].node] = req[d].id
    BY <2>1, <2>3, NodesGrow, RequestFields, NoneFacts
  <2> QED  BY <2>1, <2>2, <2>3, <2>4, ClaimStays
<1>2. CASE Aside
  <2>1. ASSUME Busy(d)' PROVE Credited(d)
    BY <1>2, <2>1 DEF Aside, Credited, Busy
  <2>2. ASSUME result'[d] = "ready", pc'[d] = "done" PROVE Credited(d)
    BY <1>2, <2>2 DEF Aside, Credited
  <2>3. Credited(d)
    BY <2>1, <2>2 DEF Credited, Busy
  <2> QED  BY <2>3, <1>1
<1>3. ASSUME NEW c \in Calls, Handle(c), c # d PROVE Credited(d)
  BY <1>3, HandleMoves, OthersWait DEF Credited, Busy
<1>4. CASE Handle(d)
  <2>1. ASSUME Enroll(d), pc'[d] = "portal_tunnel"
        PROVE  Claimed(d)' /\ nodes'[req'[d].node] = req'[d].id
    <3>1. nodes' = nodes /\ req' = req
      BY <2>1 DEF Enroll
    <3> QED  BY <2>1, <3>1, EnrollClaims
  <2>2. ASSUME NodeRow(d)
        PROVE  Claimed(d)' /\ nodes'[req'[d].node] = req'[d].id
    <3>1. Busy(d) /\ pc[d] = "node_row" /\ req' = req
      BY <2>2, EnrollmentGoesOn DEF GoesOn, Moves
    <3>2. req[d] \in Request /\ req[d].kind = "enroll" /\ req[d].node \in Nodes
      BY <3>1, KindAtStep, RequestFields DEF EnrollSteps
    <3>3. Claimed(d)
      BY <3>1 DEF EnrollmentInv, Enrolling
    <3>4. nodes'[req[d].node] = req[d].id
      BY <2>2, <3>2 DEF NodeRow, DataOK
    <3> QED  BY <3>1, <3>2, <3>3, <3>4, ClaimStays
  <2>3. ASSUME PortalTunnel(d) \/ PortalIngress(d) \/ PortalRecord(d)
        PROVE  Credited(d)
    BY <2>3, EnrollmentGoesOn DEF GoesOn, Credited
  <2>4. ASSUME pc'[d] = "answer", req'[d].kind = "enroll" PROVE PortalRecord(d)
    <3>1. req' = req
      BY <1>4, HandleMoves DEF Moves
    <3>2. NodeIngress(d) \/ EnsureRecord(d) => req[d].kind # "enroll"
      BY HostsGoOn, KindAtStep DEF GoesOn
    <3>3. AuthRecord(d) \/ AdoptRecord(d) => req[d].kind # "enroll"
      BY TransferGoesOn, KindAtStep DEF GoesOn, TransferSteps
    <3> QED  BY <1>4, <2>4, <3>1, <3>2, <3>3, Arrivals
  <2>5. ASSUME pc'[d] = "done", req'[d].kind = "enroll", result'[d] = "ready" PROVE Credited(d)
    <3>1. req' = req
      BY <1>4, HandleMoves DEF Moves
    <3>2. IssueToken(d) => req[d].kind # "enroll"
      BY RequestsBegin DEF Begins
    <3>3. Answer(d)
      BY <1>4, <2>5, <3>1, <3>2, Arrivals
    <3> QED  BY <2>5, <3>1, <3>3, TransferGoesOn DEF Credited
  <2>6. CASE pc'[d] = "portal_tunnel"
    BY <2>6, <1>4, <2>1, <2>2, Arrivals
  <2>7. CASE pc'[d] \in {"portal_ingress", "portal_record"}
    BY <2>7, <1>4, <2>3, <1>1, Arrivals
  <2>8. CASE pc'[d] = "answer" /\ req'[d].kind = "enroll"
    BY <2>8, <2>3, <2>4, <1>1
  <2>9. CASE pc'[d] = "done" /\ req'[d].kind = "enroll" /\ result'[d] = "ready"
    BY <2>9, <2>5, <1>1
  <2> QED  BY <2>6, <2>7, <2>8, <2>9 DEF Credited
<1> QED  BY <1>1, <1>2, <1>3, <1>4, StepIsHandledOrAside

LEMMA EnrollmentStays ==
  ASSUME Turns, DataOK, EnrollmentInv, Step
  PROVE  EnrollmentInv'
<1>1. UniqueIds(nodes') <=> UniqueIds(nodes)'
  BY DEF UniqueIds
<1> QED  BY <1>1, NodesGrow, OwnerStaysEnrolled, EnrollingStays, AdmittedStays DEF EnrollmentInv

\* A terminal is served before its node has a row, and stays so.
LEMMA TerminalsStay ==
  ASSUME Turns, DataOK, EnrollmentInv, AppsInv, EnrolledNodesAreServed, Step
  PROVE  EnrolledNodesAreServed'
<1> SUFFICES ASSUME NEW n \in Nodes, nodes'[n] # None
             PROVE  /\ dns'[Terminal(n)] = n
                    /\ ingress'[n] # None /\ Terminal(n) \in ingress'[n]
  BY DEF EnrolledNodesAreServed, TerminalsServed
<1> DEFINE h == Terminal(n)
<1>1. /\ h \in Hosts /\ n \in Tunnels /\ n # Portal /\ n # None /\ Portal # None
      /\ dns \in [Hosts -> Record] /\ ingress \in [Tunnels -> {None} \cup SUBSET Hosts]
  BY HostFacts, NoneFacts, NamesDiffer DEF DataOK
<1>2. CASE nodes[n] # None
  <2>1. dns[h] = n /\ ingress[n] # None /\ h \in ingress[n]
    BY <1>2 DEF EnrolledNodesAreServed, TerminalsServed
  <2>2. ingress'[n] # None /\ h \in ingress'[n]
    <3>1. ASSUME NEW t \in Tunnels, CreateTunnel(t) PROVE ingress'[n] = ingress[n]
      BY <1>1, <2>1, <3>1 DEF CreateTunnel
    <3>2. ASSUME ConfigureIngress(Portal, {PortalHost}) PROVE ingress'[n] = ingress[n]
      BY <1>1, <3>2 DEF ConfigureIngress
    <3>3. ASSUME NEW c \in Calls, Busy(c), pc[c] = "terminal_ingress",
                 ConfigureIngress(req[c].node, {Terminal(req[c].node)})
          PROVE  ingress'[n] = ingress[n]
      <4>1. req[c].node # n
        BY <1>2, <3>3 DEF EnrollmentInv, Enrolling
      <4> QED  BY <1>1, <3>3, <4>1 DEF ConfigureIngress
    <3>4. ASSUME NEW m \in Nodes, ConfigureIngress(m, Served(m))
          PROVE  ingress'[n] # None /\ h \in ingress'[n]
      <4>1. Served(m) \in SUBSET Hosts /\ Served(m) # None /\ Terminal(m) \in Served(m)
        BY ServedHosts, NoneFacts DEF Served, DataOK
      <4>2. ingress'[n] = IF m = n THEN Served(m) ELSE ingress[n]
        BY <1>1, <3>4 DEF ConfigureIngress
      <4> QED  BY <2>1, <4>1, <4>2
    <3> QED  BY <2>1, <3>1, <3>2, <3>3, <3>4, IngressSteps DEF IngressStep
  <2>3. dns'[h] = n
    <3>1. ASSUME NEW c \in Calls, NEW g \in Hosts, NEW m \in Tunnels, EnsuredFor(c, g, m)
          PROVE  dns'[h] = n
      BY <1>1, <2>1, <3>1 DEF EnsuredFor
    <3>2. ASSUME NEW c \in Calls, NEW g \in Hosts, DroppedFor(c, g)
          PROVE  dns'[h] = n
      <4>1. g \in AppHosts(req[c].node)
        BY <3>2 DEF DroppedFor, AppsInv, Dropping
      <4>2. g = h => req[c].node # n
        BY <4>1, HostsDiffer DEF AppHosts
      <4> QED  BY <1>1, <2>1, <3>2, <4>2 DEF DroppedFor
    <3>3. ASSUME NEW c \in Calls, NEW g \in Hosts, NEW t \in Tunnels, AdoptedFor(c, g, t)
          PROVE  dns'[h] = n
      <4>1. g # h
        BY <3>3, HostsDiffer DEF AdoptedFor
      <4> QED  BY <1>1, <2>1, <3>3, <4>1 DEF AdoptedFor
    <3> QED  BY <2>1, <3>1, <3>2, <3>3, RecordSteps DEF RecordStep
  <2> QED  BY <2>2, <2>3
<1>3. CASE nodes[n] = None
  <2>1. PICK c \in Calls : NodeRow(c)
    BY <1>3, TableWriters
  <2>2. /\ Busy(c) /\ pc[c] = "node_row" /\ ingress' = ingress /\ dns' = dns
        /\ nodes' = [nodes EXCEPT ![req[c].node] = req[c].id]
    BY <2>1, EnrollmentGoesOn DEF GoesOn, NodeRow, cloudflare
  <2>3. req[c].node = n
    BY <1>3, <2>2 DEF DataOK
  <2>4. ingress[n] = {h} /\ dns[h] = n
    BY <2>2, <2>3 DEF EnrollmentInv, Enrolling
  <2> QED  BY <1>1, <2>2, <2>4, NoneFacts
<1> QED  BY <1>2, <1>3

-----------------------------------------------------------------------------
(* Hostnames.                                                              *)

LEMMA WantedHosts ==
  ASSUME NEW r \in Request
  PROVE  /\ r.kind = "sync" => Wanted(r) = {Hostname(a, r.node) : a \in r.apps}
         /\ r.kind = "app" => Wanted(r) = {Hostname(r.app, r.node)}
         /\ r.kind = "auth" => Wanted(r) = {AuthHost}
BY DEF Wanted

\* Every host that is asked for has a row, this node's if no other can have it.
LEMMA InsertedAll ==
  ASSUME NEW n \in Nodes, NEW apps \in SUBSET AppNames, NEW a \in apps, Unambiguous(a, n),
         rows \subseteq Row
  PROVE  [node |-> n, app |-> a] \in Inserted(n, apps)
<1>1. CASE \E r \in rows : Hostname(r.app, r.node) = Hostname(a, n)
  <2>1. PICK r \in rows : Hostname(r.app, r.node) = Hostname(a, n)
    BY <1>1
  <2>2. r \in Row /\ r.app = a /\ r.node = n
    BY <2>1 DEF Unambiguous, Row
  <2>3. r = [node |-> n, app |-> a]
    BY <2>2 DEF Row
  <2> QED  BY <2>1, <2>3 DEF Inserted
<1>2. CASE \A r \in rows : Hostname(r.app, r.node) # Hostname(a, n)
  BY <1>2 DEF Inserted
<1> QED  BY <1>1, <1>2

LEMMA DroppingStays ==
  ASSUME Turns, DataOK, AppsInv, Step, NEW d \in Calls
  PROVE  Dropping(d)'
<1> DEFINE n == req[d].node
<1> SUFFICES ASSUME pc'[d] = "drop" PROVE Dropping(d)'
  BY DEF Dropping
<1>1. Busy(d)'
  BY DEF Busy
<1>2. CASE Aside
  <2>1. pc[d] = "drop" /\ req'[d] = req[d] /\ left' = left /\ rows' = rows
    BY <1>1, <1>2 DEF Aside
  <2> QED  BY <2>1 DEF AppsInv, Dropping
<1>3. ASSUME NEW c \in Calls, Handle(c), c # d PROVE FALSE
  BY <1>1, <1>3, HandleMoves, OthersWait
<1>4. CASE Handle(d)
  <2>1. ASSUME SyncApps(d) PROVE Dropping(d)'
    <3> DEFINE gone == {r \in rows : r.node = n /\ r.app \notin req[d].apps}
    <3>1. rows' = rows /\ req' = req /\ rows \subseteq Row /\ left \in [Calls -> SUBSET Hosts]
      BY <2>1 DEF SyncApps, tables, DataOK
    <3>2. left'[d] = {Hostname(r.app, r.node) : r \in gone}
      BY <2>1, <3>1 DEF SyncApps
    <3>3. left'[d] \subseteq AppHosts(n)
      BY <3>1, <3>2 DEF AppHosts, Row
    <3> QED  BY <3>1, <3>2, <3>3 DEF Dropping
  <2>2. ASSUME Drop(d) PROVE Dropping(d)'
    <3>1. pc[d] = "drop" /\ req' = req /\ left \in [Calls -> SUBSET Hosts]
      BY <2>2 DEF Drop, At, DataOK
    <3>2. Dropping(d)
      BY DEF AppsInv
    <3>3. ~Finish(d, "failed")
      BY DEF Finish, Turns
    <3>4. PICK h \in left[d] : /\ rows' = RowsWithout(n, h)
                              /\ left' = [left EXCEPT ![d] = @ \ {h}]
      BY <2>2, <3>3 DEF Drop
    <3>5. left'[d] = left[d] \ {h}
      BY <3>1, <3>4
    <3>6. \A r \in rows' : r \in rows /\ (r.node # n \/ Hostname(r.app, n) # h)
      BY <3>4 DEF RowsWithout
    <3> QED  BY <3>1, <3>2, <3>5, <3>6 DEF Dropping
  <2> QED  BY <1>4, <2>1, <2>2, Arrivals
<1> QED  BY <1>2, <1>3, <1>4, StepIsHandledOrAside

LEMMA AddRowsProvides ==
  ASSUME Turns, DataOK, AppsInv, NEW d \in Calls, AddRows(d)
  PROVE  Providing(d)'
<1> DEFINE n == req[d].node
           apps == req[d].apps
<1>1. Busy(d) /\ pc[d] = "drop" /\ pc'[d] = "ingress" /\ req' = req
  BY HostsGoOn DEF GoesOn, Moves
<1>2. req[d] \in Request /\ req[d].kind = "sync" /\ n \in Nodes /\ apps \in SUBSET AppNames
  BY <1>1, KindAtStep, RequestFields
<1>3. /\ left[d] = {} /\ rows' = Inserted(n, apps)
      /\ left'[d] = {Hostname(a, n) : a \in apps} /\ rows \subseteq Row
  BY DEF AddRows, DataOK
<1>4. Wanted(req[d]) = {Hostname(a, n) : a \in apps}
  BY <1>2, WantedHosts
<1>5. ASSUME NEW r \in rows', r.node = n PROVE r.app \in apps
  <2>1. CASE r \in rows
    BY <1>1, <1>3, <1>5, <2>1 DEF AppsInv, Dropping
  <2>2. CASE r \notin rows
    BY <1>3, <2>2 DEF Inserted
  <2> QED  BY <2>1, <2>2
<1>6. ASSUME NEW a \in AppNames, Hostname(a, n) \in Wanted(req[d]), Unambiguous(a, n)
      PROVE  [node |-> n, app |-> a] \in rows'
  <2>1. a \in apps
    BY <1>2, <1>4, <1>6, HostsDiffer
  <2> QED  BY <1>2, <1>3, <1>6, <2>1, InsertedAll
<1> QED  BY <1>1, <1>2, <1>3, <1>4, <1>5, <1>6 DEF Providing, Unambiguous

LEMMA ProvisionAppProvides ==
  ASSUME Turns, DataOK, NEW d \in Calls, ProvisionApp(d)
  PROVE  Providing(d)'
<1> DEFINE n == req[d].node
           app == req[d].app
<1>1. /\ req[d] \in Request /\ req[d].kind = "app" /\ req' = req /\ pc'[d] = "ingress"
      /\ n \in Nodes /\ app \in AppNames
  BY RequestsBegin, RequestFields DEF Begins, Moves
<1>2. rows' = Inserted(n, {app}) /\ left'[d] = {Hostname(app, n)} /\ rows \subseteq Row
  BY DEF ProvisionApp, DataOK
<1>3. Wanted(req[d]) = {Hostname(app, n)}
  BY <1>1, WantedHosts
<1>4. ASSUME NEW a \in AppNames, Hostname(a, n) \in Wanted(req[d]), Unambiguous(a, n)
      PROVE  [node |-> n, app |-> a] \in rows'
  <2>1. a = app
    BY <1>1, <1>3, <1>4, HostsDiffer
  <2> QED  BY <1>1, <1>2, <1>4, <2>1, InsertedAll
<1> QED  BY <1>1, <1>2, <1>3, <1>4 DEF Providing, Unambiguous

LEMMA ProvisionAuthProvides ==
  ASSUME Turns, DataOK, NEW d \in Calls, ProvisionAuth(d)
  PROVE  Providing(d)'
<1>1. /\ req[d] \in Request /\ req[d].kind = "auth" /\ req' = req /\ pc'[d] \in {"ingress", "done"}
  BY RequestsBegin DEF Begins, Moves
<1>2. pc'[d] = "ingress" => owner' = req[d].node /\ left'[d] = {AuthHost}
  BY DEF ProvisionAuth, Finish, Turns, DataOK
<1>3. Wanted(req[d]) = {AuthHost}
  BY <1>1, WantedHosts
<1> QED  BY <1>1, <1>2, <1>3 DEF Providing

LEMMA NodeIngressProvides ==
  ASSUME Turns, DataOK, AppsInv, NEW d \in Calls, NodeIngress(d)
  PROVE  Providing(d)'
<1> DEFINE n == req[d].node
<1>1. /\ Busy(d) /\ pc[d] = "ingress" /\ req' = req
      /\ pc'[d] = "done" \/ pc'[d] = IF left[d] = {} THEN "answer" ELSE "records"
  BY HostsGoOn DEF GoesOn, Moves
<1>2. req[d].kind \in {"sync", "app", "auth"} /\ n \in Nodes /\ n \in Tunnels
  BY <1>1, KindAtStep, RequestFields, HostFacts
<1>3. /\ owner' = owner /\ rows' = rows /\ dns' = dns /\ left' = left
      /\ ingress' = [ingress EXCEPT ![n] = Served(n)]
  BY DEF NodeIngress, ConfigureIngress, tables
<1>4. Served(n)' = Served(n) /\ ingress'[n] = Served(n)
  BY <1>1, <1>2, <1>3 DEF Served, DataOK
<1>5. Providing(d)
  BY DEF AppsInv
<1> QED  BY <1>1, <1>2, <1>3, <1>4, <1>5 DEF Providing, Unambiguous

LEMMA EnsureRecordProvides ==
  ASSUME Turns, DataOK, AppsInv, NEW d \in Calls, EnsureRecord(d)
  PROVE  Providing(d)'
<1> DEFINE n == req[d].node
<1>1. /\ Busy(d) /\ Serving(d) /\ pc[d] = "records" /\ req' = req
      /\ pc'[d] \in {"records", "answer", "done"}
  BY HostsGoOn DEF GoesOn, Moves
<1>2. req[d].kind \in {"sync", "app", "auth"} /\ n \in Nodes
  BY <1>1, KindAtStep, RequestFields
<1>3. owner' = owner /\ rows' = rows /\ ingress' = ingress /\ Served(n)' = Served(n)
  BY <1>1 DEF EnsureRecord, tables, Served
<1>4. PICK h \in left[d] : /\ EnsureDNS(d, h, n, IF left[d] = {h} THEN "answer" ELSE "records")
                          /\ left' = [left EXCEPT ![d] = @ \ {h}]
  BY DEF EnsureRecord
<1>5. left'[d] = left[d] \ {h} /\ h \in Hosts
  BY <1>4 DEF DataOK
<1> DEFINE to == IF left[d] = {h} THEN "answer" ELSE "records"
<1>6. to \in StepsOf(req[d].kind)
  BY <1>2 DEF StepsOf
<1>7. /\ pc'[d] \in {to, "done"}
      /\ pc'[d] = "done" \/ (dns[h] \in {None, n} /\ dns' = [dns EXCEPT ![h] = n])
  <2> HIDE DEF to
  <2>1. EnsureDNS(d, h, n, to)
    BY <1>4 DEF to
  <2>2. Serving(d) /\ req' = req
    BY <1>1
  <2> HIDE DEF n
  <2>3. /\ pc'[d] \in {to, "done"}
        /\ \/ dns[h] \in {None, n} /\ dns' = [dns EXCEPT ![h] = n]
           \/ dns' = dns /\ pc'[d] = "done"
    BY <1>6, <2>1, <2>2, EnsureMoves
  <2> QED  BY <2>3
<1>8. Providing(d)
  BY DEF AppsInv
<1>9. CASE pc'[d] = "done"
  BY <1>9 DEF Providing
<1>10. CASE pc'[d] = to
  <2>1. dns' = [dns EXCEPT ![h] = n]
    BY <1>7, <1>10
  <2>2. \A g \in Hosts : dns'[g] = IF g = h THEN n ELSE dns[g]
    BY <2>1 DEF DataOK
  <2>3. req[d] \in Request /\ Wanted(req[d]) \subseteq Hosts
    <3>1. req[d] \in Request
      BY <1>1, KindAtStep
    <3> QED  BY <3>1, <1>2, WantedHosts, RequestFields, HostFacts
  <2>4. \A g \in Wanted(req[d]) \ left'[d] : dns'[g] = n
    BY <1>1, <1>2, <1>5, <1>8, <2>2, <2>3 DEF Providing
  <2>5. pc'[d] = "answer" => left'[d] = {}
    BY <1>5, <1>10
  <2> QED  BY <1>1, <1>2, <1>3, <1>5, <1>8, <1>10, <2>4, <2>5 DEF Providing, Unambiguous
<1> QED  BY <1>7, <1>9, <1>10

LEMMA ProvidingStays ==
  ASSUME Turns, DataOK, AppsInv, Step, NEW d \in Calls
  PROVE  Providing(d)'
<1> SUFFICES ASSUME pc'[d] \in {"ingress", "records", "answer"},
                    req'[d].kind \in {"sync", "app", "auth"}
             PROVE  Providing(d)'
  BY DEF Providing
<1>1. Busy(d)'
  BY DEF Busy
<1>2. CASE Aside
  <2>1. /\ pc'[d] = pc[d] /\ req'[d] = req[d] /\ left' = left /\ rows' = rows /\ owner' = owner
        /\ ingress' = ingress /\ dns' = dns /\ Providing(d)
    BY <1>1, <1>2 DEF Aside, AppsInv
  <2>2. Served(req[d].node)' = Served(req[d].node)
    BY <2>1 DEF Served
  <2> QED  BY <2>1, <2>2 DEF Providing, Unambiguous
<1>3. ASSUME NEW c \in Calls, Handle(c), c # d PROVE FALSE
  BY <1>1, <1>3, HandleMoves, OthersWait
<1>4. CASE Handle(d)
  <2>1. req' = req
    BY <1>4, HandleMoves DEF Moves
  <2>2. ~PortalRecord(d) /\ ~AuthRecord(d) /\ ~AdoptRecord(d)
    <3>1. PortalRecord(d) => req[d].kind = "enroll"
      BY EnrollmentGoesOn, KindAtStep DEF GoesOn, EnrollSteps
    <3>2. AuthRecord(d) => req[d].kind = "transfer"
      BY TransferGoesOn, KindAtStep DEF GoesOn, TransferSteps
    <3>3. AdoptRecord(d) => req[d].kind = "adopt"
      BY TransferGoesOn, KindAtStep DEF GoesOn
    <3> QED  BY <2>1, <3>1, <3>2, <3>3
  <2> QED  BY <1>4, <2>2, Arrivals, AddRowsProvides, ProvisionAppProvides,
              ProvisionAuthProvides, NodeIngressProvides, EnsureRecordProvides
<1> QED  BY <1>2, <1>3, <1>4, StepIsHandledOrAside

LEMMA RecordsKeepRows ==
  ASSUME Turns, DataOK, AppsInv, Step
  PROVE  RecordsHaveRows'
<1> SUFFICES ASSUME NEW n \in Nodes, NEW a \in AppNames, Unambiguous(a, n),
                    dns'[Hostname(a, n)] = n
             PROVE  [node |-> n, app |-> a] \in rows'
  BY DEF RecordsHaveRows, RowsFor, Unambiguous
<1> DEFINE h == Hostname(a, n)
           row == [node |-> n, app |-> a]
<1>1. /\ h \in Hosts /\ n \in Tunnels /\ n # Portal /\ n # None
      /\ dns \in [Hosts -> Record] /\ rows \subseteq Row
      /\ h \notin {AuthHost, PortalHost} /\ \A m \in Nodes : h # Terminal(m)
  BY HostFacts, HostsDiffer, NoneFacts, NamesDiffer DEF DataOK, Unambiguous
<1>2. dns[h] = n => row \in rows
  BY DEF AppsInv, RecordsHaveRows, RowsFor
<1>3. ASSUME NEW c \in Calls, Drop(c) PROVE row \in rows'
  <2> DEFINE m == req[c].node
  <2>1. PICK g \in left[c] : /\ dns' = [dns EXCEPT ![g] = IF @ = m THEN None ELSE @]
                             /\ rows' = rows \/ rows' = RowsWithout(m, g)
    BY <1>3 DEF Drop
  <2>2. dns[h] = n /\ (g = h => m # n)
    BY <1>1, <2>1
  <2>3. row \in rows /\ row.node = n /\ row.app = a
    BY <1>2, <2>2
  <2> QED  BY <2>1, <2>2, <2>3 DEF RowsWithout
<1>4. ASSUME NEW c \in Calls, AddRows(c) \/ ProvisionApp(c) PROVE row \in rows'
  <2>1. dns' = dns /\ rows \subseteq rows'
    BY <1>4 DEF AddRows, ProvisionApp, cloudflare, Inserted
  <2> QED  BY <1>2, <2>1
<1>5. ASSUME rows' = rows, NEW c \in Calls, RecordStep(c) PROVE row \in rows'
  <2>1. ASSUME NEW g \in Hosts, NEW m \in Tunnels, EnsuredFor(c, g, m), dns[h] # n
        PROVE  row \in rows
    <3>1. g = h /\ m = n
      BY <1>1, <2>1 DEF EnsuredFor
    <3>2. pc[c] = "records" /\ Busy(c) /\ n = req[c].node /\ h \in left[c]
      BY <1>1, <2>1, <3>1 DEF EnsuredFor
    <3>3. req[c] \in Request /\ req[c].kind \in {"sync", "app", "auth"}
      BY <3>2, KindAtStep
    <3>4. Providing(c)
      BY DEF AppsInv
    <3>5. h \in Wanted(req[c])
      BY <3>2, <3>3, <3>4 DEF Providing
    <3>6. req[c].kind # "auth"
      BY <1>1, <3>3, <3>5, WantedHosts
    <3> QED  BY <3>2, <3>3, <3>4, <3>5, <3>6 DEF Providing
  <2>2. ASSUME NEW g \in Hosts, DroppedFor(c, g) PROVE dns[h] = n
    BY <1>1, <2>2 DEF DroppedFor
  <2>3. ASSUME NEW g \in Hosts, NEW t \in Tunnels, AdoptedFor(c, g, t) PROVE dns[h] = n
    <3>1. g # h
      <4>1. pc[c] = "adopt_record" \/ g = AuthHost
        BY <2>3 DEF AdoptedFor
      <4> QED  BY <1>1, <2>3, <4>1 DEF AdoptedFor
    <3> QED  BY <1>1, <2>3, <3>1 DEF AdoptedFor
  <2> QED  BY <1>2, <1>5, <2>1, <2>2, <2>3 DEF RecordStep
<1>6. CASE rows' = rows /\ dns' = dns
  BY <1>2, <1>6
<1> QED  BY <1>3, <1>4, <1>5, <1>6, TableWriters, RecordSteps

LEMMA AppsStay ==
  ASSUME Turns, DataOK, AppsInv, Step
  PROVE  AppsInv'
BY RecordsKeepRows, DroppingStays, ProvidingStays DEF AppsInv

-----------------------------------------------------------------------------
(* The auth hostname.                                                      *)

\* The record of the auth host.
LEMMA AuthRecords ==
  ASSUME Turns, DataOK, EnrollmentInv, AppsInv, Step
  PROVE  \/ dns'[AuthHost] = dns[AuthHost]
         \/ \E c \in Calls :
              /\ EnsureRecord(c) /\ Busy(c) /\ pc[c] = "records" /\ dns[AuthHost] = None
              /\ req[c].kind = "auth" /\ owner = req[c].node /\ dns'[AuthHost] = req[c].node
         \/ \E c \in Calls : AuthRecord(c) /\ dns'[AuthHost] = req[c].destination
         \/ \E c \in Calls :
              AdoptRecord(c) /\ req[c].kind = "adopt" /\ req[c].host = AuthHost
<1>1. dns \in [Hosts -> Record] /\ AuthHost \in Hosts /\ AuthHost # PortalHost
  BY HostFacts, HostsDiffer DEF DataOK
<1> SUFFICES ASSUME dns'[AuthHost] # dns[AuthHost]
             PROVE  \/ \E c \in Calls :
                         /\ EnsureRecord(c) /\ Busy(c) /\ pc[c] = "records" /\ dns[AuthHost] = None
                         /\ req[c].kind = "auth" /\ owner = req[c].node
                         /\ dns'[AuthHost] = req[c].node
                    \/ \E c \in Calls : AuthRecord(c) /\ dns'[AuthHost] = req[c].destination
                    \/ \E c \in Calls :
                         AdoptRecord(c) /\ req[c].kind = "adopt" /\ req[c].host = AuthHost
  OBVIOUS
<1>2. ASSUME NEW c \in Calls, Drop(c) PROVE FALSE
  <2>1. /\ pc[c] = "drop" /\ Busy(c)
        /\ \E h \in left[c] : dns' = [dns EXCEPT ![h] = IF @ = req[c].node THEN None ELSE @]
    BY <1>2, HostsGoOn DEF Drop, GoesOn
  <2>2. left[c] \subseteq AppHosts(req[c].node) /\ req[c].node \in Nodes
    BY <2>1, KindAtStep, RequestFields DEF AppsInv, Dropping
  <2>3. AuthHost \notin AppHosts(req[c].node)
    BY <2>2, HostsDiffer DEF AppHosts
  <2> QED  BY <1>1, <2>1, <2>2, <2>3
<1>3. ASSUME NEW c \in Calls, TerminalRecord(c) PROVE FALSE
  <2>1. dns' = dns \/ dns' = [dns EXCEPT ![Terminal(req[c].node)] = req[c].node]
    BY <1>3 DEF TerminalRecord, EnsureDNS
  <2>2. req[c].node \in Nodes
    BY <1>3, EnrollmentGoesOn, KindAtStep, RequestFields DEF GoesOn, EnrollSteps
  <2> QED  BY <1>1, <2>1, <2>2, HostsDiffer
<1>4. ASSUME NEW c \in Calls, PortalRecord(c) PROVE FALSE
  BY <1>1, <1>4 DEF PortalRecord, EnsureDNS
<1>5. ASSUME NEW c \in Calls, EnsureRecord(c)
      PROVE  /\ Busy(c) /\ pc[c] = "records" /\ dns[AuthHost] = None /\ req[c].kind = "auth"
             /\ owner = req[c].node /\ dns'[AuthHost] = req[c].node
  <2>1. Busy(c) /\ pc[c] = "records"
    BY <1>5, HostsGoOn DEF GoesOn
  <2>2. req[c] \in Request /\ req[c].kind \in {"sync", "app", "auth"} /\ req[c].node \in Nodes
    BY <2>1, KindAtStep, RequestFields
  <2>3. PICK h \in left[c] : dns' = dns \/ (dns[h] \in {None, req[c].node} /\ dns' = [dns EXCEPT ![h] = req[c].node])
    BY <1>5 DEF EnsureRecord, EnsureDNS
  <2>4. h = AuthHost /\ dns[AuthHost] = None /\ dns'[AuthHost] = req[c].node
    BY <1>1, <2>3
  <2>5. Providing(c)
    BY DEF AppsInv
  <2>6. AuthHost \in Wanted(req[c])
    BY <2>1, <2>2, <2>3, <2>4, <2>5 DEF Providing
  <2>7. req[c].kind = "auth"
    BY <2>2, <2>6, WantedHosts, RequestFields, HostsDiffer
  <2> QED  BY <2>1, <2>4, <2>5, <2>7 DEF Providing
<1>6. ASSUME NEW c \in Calls, AuthRecord(c) PROVE dns'[AuthHost] = req[c].destination
  BY <1>1, <1>6 DEF AuthRecord, AdoptExactDNS
<1>7. ASSUME NEW c \in Calls, AdoptRecord(c)
      PROVE  req[c].kind = "adopt" /\ req[c].host = AuthHost
  <2>1. req[c].kind = "adopt"
    BY <1>7, TransferGoesOn, KindAtStep DEF GoesOn
  <2> QED  BY <1>1, <1>7, <2>1 DEF AdoptRecord, AdoptExactDNS
<1> QED  BY <1>1, <1>2, <1>3, <1>4, <1>5, <1>6, <1>7, CloudflareWriters

\* What an admitted transfer says.
LEMMA Admission ==
  ASSUME NEW s, NEW d
  PROVE  TransferVerdict(s, d) = "admitted" <=>
           /\ nodes[s] # None /\ nodes[d] # None /\ owner # None
           /\ owner \in {s, d} /\ dns[AuthHost] \in {s, d}
BY DEF TransferVerdict

LEMMA TransferringStays ==
  ASSUME Turns, DataOK, AuthInv, Step, NEW d \in Calls
  PROVE  Transferring(d)'
<1> DEFINE s == req[d].source
           t == req[d].destination
<1> SUFFICES ASSUME Busy(d)', req'[d].kind = "transfer" PROVE Transferring(d)'
  BY DEF Transferring
<1>1. CASE Aside
  <2>1. /\ pc'[d] = pc[d] /\ req'[d] = req[d] /\ Busy(d) /\ rows' = rows /\ owner' = owner
        /\ ingress' = ingress /\ dns' = dns /\ interrupted' = interrupted /\ Transferring(d)
    BY <1>1 DEF Aside, AuthInv
  <2>2. \A n : Served(n)' = Served(n)
    BY <2>1 DEF Served
  <2> QED  BY <2>1, <2>2 DEF Transferring
<1>2. ASSUME NEW c \in Calls, Handle(c), c # d PROVE FALSE
  BY <1>2, HandleMoves, OthersWait
<1>3. CASE Handle(d)
  <2>1. req' = req /\ req[d].kind = "transfer" /\ pc'[d] \in StepsOf(req[d].kind)
    BY <1>3, HandleMoves DEF Moves, Busy
  <2>2. pc'[d] \in {"source_ingress", "destination_ingress", "auth_record", "answer"}
    BY <2>1 DEF StepsOf
  <2>3. CASE pc'[d] = "source_ingress"
    <3>1. TransferAuth(d)
      BY <1>3, <2>3, Arrivals
    <3>2. owner' = t /\ interrupted' = <<s, t>>
      BY <2>3, <3>1 DEF TransferAuth, Finish, Turns
    <3> QED  BY <2>1, <2>3, <3>2 DEF Transferring
  <2>4. CASE pc'[d] = "destination_ingress"
    <3>1. SourceIngress(d)
      BY <1>3, <2>4, Arrivals
    <3>2. /\ Busy(d) /\ pc[d] = "source_ingress" /\ owner' = owner /\ rows' = rows
          /\ interrupted' = interrupted /\ ingress' = [ingress EXCEPT ![s] = Served(s)]
      BY <3>1, TransferGoesOn DEF SourceIngress, ConfigureIngress, tables, GoesOn
    <3>3. s \in Tunnels
      BY <2>1, <3>2, KindAtStep, RequestFields, HostFacts
    <3>4. ingress'[s] = Served(s) /\ \A n : Served(n)' = Served(n)
      BY <3>2, <3>3 DEF DataOK, Served
    <3>5. owner = t /\ interrupted = <<s, t>>
      BY <2>1, <3>2 DEF AuthInv, Transferring
    <3> QED  BY <2>1, <2>4, <3>2, <3>4, <3>5 DEF Transferring
  <2>5. CASE pc'[d] = "auth_record"
    <3>1. DestinationIngress(d)
      BY <1>3, <2>5, Arrivals
    <3>2. /\ Busy(d) /\ pc[d] = "destination_ingress" /\ owner' = owner /\ rows' = rows
          /\ interrupted' = interrupted /\ ingress' = [ingress EXCEPT ![t] = Served(t)]
      BY <3>1, TransferGoesOn DEF DestinationIngress, ConfigureIngress, tables, GoesOn
    <3>3. s \in Tunnels /\ t \in Tunnels
      BY <2>1, <3>2, KindAtStep, RequestFields, HostFacts
    <3>4. \A n : Served(n)' = Served(n)
      BY <3>2 DEF Served
    <3>5. ingress[s] = Served(s)
      BY <2>1, <3>2 DEF AuthInv, Transferring
    <3>6. ingress'[s] = Served(s) /\ ingress'[t] = Served(t)
      BY <3>2, <3>3, <3>5 DEF DataOK
    <3> QED  BY <2>1, <2>5, <3>2, <3>4, <3>6 DEF AuthInv, Transferring
  <2>6. CASE pc'[d] = "answer"
    <3>1. ~PortalRecord(d) /\ ~NodeIngress(d) /\ ~EnsureRecord(d) /\ ~AdoptRecord(d)
      <4>1. PortalRecord(d) => req[d].kind = "enroll"
        BY EnrollmentGoesOn, KindAtStep DEF GoesOn, EnrollSteps
      <4>2. NodeIngress(d) \/ EnsureRecord(d) => req[d].kind \in {"sync", "app", "auth"}
        BY HostsGoOn, KindAtStep DEF GoesOn
      <4>3. AdoptRecord(d) => req[d].kind = "adopt"
        BY TransferGoesOn, KindAtStep DEF GoesOn
      <4> QED  BY <2>1, <4>1, <4>2, <4>3
    <3>2. AuthRecord(d)
      BY <1>3, <2>6, <3>1, Arrivals
    <3>3. /\ Busy(d) /\ Serving(d) /\ pc[d] = "auth_record" /\ owner' = owner /\ rows' = rows
          /\ ingress' = ingress /\ interrupted' = interrupted
      BY <3>2, TransferGoesOn DEF AuthRecord, tables, GoesOn, Moves
    <3>4. \A n : Served(n)' = Served(n)
      BY <3>3 DEF Served
    <3>5. "answer" \in StepsOf(req[d].kind)
      BY <2>1 DEF StepsOf
    <3>6. dns' = [dns EXCEPT ![AuthHost] = t]
      BY <2>1, <2>6, <3>2, <3>3, <3>5, AdoptMoves DEF AuthRecord
    <3>7. dns'[AuthHost] = t
      BY <3>6, HostFacts DEF DataOK
    <3> QED  BY <2>1, <2>6, <3>3, <3>4, <3>7 DEF AuthInv, Transferring
  <2> QED  BY <2>2, <2>3, <2>4, <2>5, <2>6
<1> QED  BY <1>1, <1>2, <1>3, StepIsHandledOrAside

LEMMA UnsentStays ==
  ASSUME Turns, Unsent, Step
  PROVE  Unsent'
<1>1. ASSUME NEW c \in Calls, NEW r \in Request, Send(c, r) PROVE Unsent'
  BY <1>1 DEF Send, Turns, Unsent
<1>2. ASSUME NEW c \in Calls, Moves(c) PROVE Unsent'
  <2>1. pc'[c] # "idle" /\ req' = req
    BY <1>2, StepsAreSteps DEF Moves
  <2> QED  BY <1>2, <2>1, OthersWait DEF Unsent
<1>3. ASSUME Restart PROVE Unsent'
  BY <1>3 DEF Restart, Unsent
<1> QED  BY <1>1, <1>2, <1>3, HandleMoves, FailureMoves DEF Step, Expire, object, vars, Unsent

\* Who has auth changes by a transfer, or where nobody had it.
LEMMA OwnerSteps ==
  ASSUME Turns, DataOK, Step
  PROVE  \/ owner' = owner
         \/ /\ owner = None
            /\ \E c \in Calls : ProvisionAuth(c)
         \/ \E c \in Calls :
              /\ TransferAuth(c)
              /\ TransferVerdict(req[c].source, req[c].destination) = "admitted"
              /\ owner' = req[c].destination
              /\ interrupted' = <<req[c].source, req[c].destination>>
<1>1. ASSUME NEW c \in Calls, ProvisionAuth(c) PROVE owner' = owner \/ owner = None
  BY <1>1 DEF ProvisionAuth
<1>2. ASSUME NEW c \in Calls, TransferAuth(c)
      PROVE  \/ owner' = owner
             \/ /\ TransferVerdict(req[c].source, req[c].destination) = "admitted"
                /\ owner' = req[c].destination
                /\ interrupted' = <<req[c].source, req[c].destination>>
  BY <1>2 DEF TransferAuth
<1> QED  BY <1>1, <1>2, TableWriters

\* A transfer under way is forgotten when it is completed, or when the operator
\* takes the record in hand.
LEMMA InterruptedSteps ==
  ASSUME Turns, DataOK, Step
  PROVE  \/ interrupted' = interrupted
         \/ \E c \in Calls :
              /\ TransferAuth(c)
              /\ TransferVerdict(req[c].source, req[c].destination) = "admitted"
              /\ owner' = req[c].destination
              /\ interrupted' = <<req[c].source, req[c].destination>>
         \/ \E c \in Calls : AdoptRecord(c) /\ req[c].kind = "adopt" /\ req[c].host = AuthHost
         \/ \E c \in Calls : Answer(c) /\ req[c].kind = "transfer" /\ interrupted' = None
<1>1. ASSUME NEW c \in Calls, TransferAuth(c), interrupted' # interrupted
      PROVE  /\ TransferVerdict(req[c].source, req[c].destination) = "admitted"
             /\ owner' = req[c].destination
             /\ interrupted' = <<req[c].source, req[c].destination>>
  BY <1>1 DEF TransferAuth
<1>2. ASSUME NEW c \in Calls, AdoptRecord(c), interrupted' # interrupted
      PROVE  req[c].kind = "adopt" /\ req[c].host = AuthHost
  <2>1. req[c].kind = "adopt"
    BY <1>2, TransferGoesOn, KindAtStep DEF GoesOn
  <2> QED  BY <1>2, <2>1 DEF AdoptRecord
<1>3. ASSUME NEW c \in Calls, Answer(c), interrupted' # interrupted
      PROVE  req[c].kind = "transfer" /\ interrupted' = None
  BY <1>3 DEF Answer
<1> QED  BY <1>1, <1>2, <1>3, OtherWriters

LEMMA RecoverableStays ==
  ASSUME Turns, DataOK, EnrollmentInv, AppsInv, AuthInv, Step
  PROVE  Recoverable'
<1> SUFFICES ASSUME NEW s \in Nodes, NEW t \in Nodes, interrupted' = <<s, t>>
             PROVE  /\ nodes'[s] # None /\ nodes'[t] # None
                    /\ owner' \in {s, t} /\ dns'[AuthHost] \in {s, t}
  <2>1. interrupted' \in (Nodes \X Nodes) \cup {None}
    BY DataStays DEF DataOK
  <2>2. ASSUME NEW a, NEW b
        PROVE  TransferVerdict(a, b)' = "admitted" <=>
                 /\ nodes'[a] # None /\ nodes'[b] # None /\ owner' # None
                 /\ owner' \in {a, b} /\ dns'[AuthHost] \in {a, b}
    BY DEF TransferVerdict
  <2>3. ASSUME interrupted' # None
        PROVE  \E s, t \in Nodes : interrupted' = <<s, t>>
    BY <2>1, <2>3
  <2> QED  BY <2>2, <2>3, NoneFacts DEF Recoverable
<1>1. CASE interrupted = <<s, t>>
  <2>1. /\ nodes[s] # None /\ nodes[t] # None /\ owner # None
        /\ owner \in {s, t} /\ dns[AuthHost] \in {s, t}
    BY <1>1, NoneFacts, Admission DEF AuthInv, Recoverable
  <2>2. nodes'[s] # None /\ nodes'[t] # None
    BY <2>1, NodesGrow
  <2>3. owner' \in {s, t}
    BY <2>1, OwnerSteps
  <2>4. dns'[AuthHost] \in {s, t}
    <3>1. ASSUME NEW c \in Calls, AuthRecord(c) PROVE req[c].destination = t
      <4>1. Busy(c) /\ pc[c] = "auth_record"
        BY <3>1, TransferGoesOn DEF GoesOn
      <4>2. req[c].kind = "transfer"
        BY <4>1, KindAtStep DEF TransferSteps
      <4>3. interrupted = <<req[c].source, req[c].destination>>
        BY <4>1, <4>2 DEF AuthInv, Transferring
      <4> QED  BY <1>1, <4>3
    <3>2. ASSUME NEW c \in Calls, AdoptRecord(c), req[c].host = AuthHost PROVE FALSE
      BY <3>2, NoneFacts DEF AdoptRecord
    <3> QED  BY <2>1, <3>1, <3>2, NoneFacts, AuthRecords
  <2> QED  BY <2>2, <2>3, <2>4
<1>2. CASE interrupted # <<s, t>>
  <2>1. PICK c \in Calls :
          /\ TransferAuth(c)
          /\ TransferVerdict(req[c].source, req[c].destination) = "admitted"
          /\ owner' = req[c].destination
          /\ interrupted' = <<req[c].source, req[c].destination>>
    <3>1. ASSUME NEW c \in Calls, AdoptRecord(c), req[c].host = AuthHost PROVE FALSE
      BY <3>1, NoneFacts DEF AdoptRecord
    <3> QED  BY <1>2, <3>1, NoneFacts, InterruptedSteps
  <2>2. s = req[c].source /\ t = req[c].destination
    BY <2>1
  <2>3. nodes' = nodes /\ dns' = dns
    BY <2>1 DEF TransferAuth, cloudflare
  <2> QED  BY <2>1, <2>2, <2>3, Admission
<1> QED  BY <1>1, <1>2

\* No request for a record of the operator's choice was for the auth host.
NobodyAdoptsAuth ==
  \A c \in Calls : req[c] # None /\ req[c].kind = "adopt" => req[c].host # AuthHost

LEMMA NobodyAdoptedAuth ==
  ASSUME Turns, Unsent, Step, NobodyAdoptsAuth'
  PROVE  NobodyAdoptsAuth /\ \A c \in Calls : AdoptRecord(c) => req[c].host # AuthHost
<1>1. ASSUME NEW c \in Calls, pc[c] # "idle"
      PROVE  req[c] # None /\ (req[c].kind = "adopt" => req[c].host # AuthHost)
  <2>1. req[c] \in Request /\ req'[c] = req[c]
    BY <1>1, RequestStays DEF Turns
  <2> QED  BY <2>1, NoneFacts DEF NobodyAdoptsAuth
<1>2. ASSUME NEW c \in Calls, AdoptRecord(c) PROVE req[c].host # AuthHost
  <2>1. Busy(c) /\ pc[c] = "adopt_record"
    BY <1>2, TransferGoesOn DEF GoesOn
  <2> QED  BY <1>1, <2>1, KindAtStep
<1> QED  BY <1>1, <1>2 DEF NobodyAdoptsAuth, Unsent

\* The owner's tunnel goes on serving auth.
LEMMA AuthStaysServed ==
  ASSUME Turns, DataOK, EnrollmentInv, Step, NEW n \in Nodes, owner = n,
         ingress[n] # None, AuthHost \in ingress[n]
  PROVE  ingress'[n] # None /\ AuthHost \in ingress'[n]
<1>1. /\ n \in Tunnels /\ n # Portal /\ n # None
      /\ ingress \in [Tunnels -> {None} \cup SUBSET Hosts]
  BY HostFacts, NoneFacts, NamesDiffer DEF DataOK
<1>2. ASSUME NEW t \in Tunnels, CreateTunnel(t) PROVE ingress'[n] = ingress[n]
  BY <1>1, <1>2 DEF CreateTunnel
<1>3. ASSUME ConfigureIngress(Portal, {PortalHost}) PROVE ingress'[n] = ingress[n]
  BY <1>1, <1>3 DEF ConfigureIngress
<1>4. ASSUME NEW c \in Calls, Busy(c), pc[c] = "terminal_ingress",
             ConfigureIngress(req[c].node, {Terminal(req[c].node)})
      PROVE  ingress'[n] = ingress[n]
  <2>1. req[c].node # n
    BY <1>1, <1>4 DEF EnrollmentInv, Enrolling, OwnerEnrolled
  <2> QED  BY <1>1, <1>4, <2>1 DEF ConfigureIngress
<1>5. ASSUME NEW m \in Nodes, ConfigureIngress(m, Served(m))
      PROVE  ingress'[n] # None /\ AuthHost \in ingress'[n]
  <2>1. Served(m) \in SUBSET Hosts /\ Served(m) # None /\ (m = n => AuthHost \in Served(m))
    BY ServedHosts, NoneFacts DEF Served, DataOK
  <2>2. ingress'[n] = IF m = n THEN Served(m) ELSE ingress[n]
    BY <1>1, <1>5 DEF ConfigureIngress
  <2> QED  BY <2>1, <2>2
<1>6. CASE ingress' = ingress
  BY <1>6
<1>7. IngressStep
  BY IngressSteps
<1> QED  BY <1>2, <1>3, <1>4, <1>5, <1>6, <1>7 DEF IngressStep

LEMMA AuthLedStays ==
  ASSUME Turns, DataOK, EnrollmentInv, AppsInv, AuthInv, Step
  PROVE  AuthLed'
<1> SUFFICES ASSUME NEW n \in Nodes, dns'[AuthHost] = n, interrupted' = None, NobodyAdoptsAuth'
             PROVE  owner' = n /\ AuthHost \in ingress'[n] /\ ingress'[n] # None
  BY DEF AuthLed, AuthRouted, NobodyAdoptsAuth
<1>1. NobodyAdoptsAuth /\ \A c \in Calls : AdoptRecord(c) => req[c].host # AuthHost
  BY NobodyAdoptedAuth DEF AuthInv
<1>2. n \in Tunnels /\ n # None /\ \A m \in Nodes : Served(m) \in SUBSET Hosts /\ Served(m) # None
  BY HostFacts, NoneFacts, ServedHosts DEF DataOK
<1>3. ASSUME owner = n, ingress[n] # None, AuthHost \in ingress[n]
      PROVE  owner' = n /\ AuthHost \in ingress'[n] /\ ingress'[n] # None
  <2>1. owner' = owner
    <3>1. ASSUME NEW c \in Calls, TransferAuth(c), interrupted' = <<req[c].source, req[c].destination>>
          PROVE  FALSE
      <4>1. req[c].source \in Nodes /\ req[c].destination \in Nodes
        BY <3>1, RequestsBegin, RequestFields DEF Begins
      <4> QED  BY <3>1, <4>1, NoneFacts
    <3> QED  BY <1>2, <1>3, <3>1, OwnerSteps
  <2> QED  BY <1>3, <2>1, AuthStaysServed
<1>4. CASE interrupted = None /\ dns'[AuthHost] = dns[AuthHost]
  <2>1. owner = n /\ ingress[n] # None /\ AuthHost \in ingress[n]
    BY <1>1, <1>4 DEF AuthInv, AuthLed, AuthRouted, NobodyAdoptsAuth
  <2> QED  BY <2>1, <1>3
<1>5. CASE interrupted = None /\ dns'[AuthHost] # dns[AuthHost]
  <2>1. ASSUME NEW c \in Calls, AuthRecord(c) PROVE FALSE
    <3>1. Busy(c) /\ pc[c] = "auth_record"
      BY <2>1, TransferGoesOn DEF GoesOn
    <3>2. req[c].kind = "transfer" /\ req[c].source \in Nodes /\ req[c].destination \in Nodes
      BY <3>1, KindAtStep, RequestFields DEF TransferSteps
    <3> QED  BY <1>5, <3>1, <3>2, NoneFacts DEF AuthInv, Transferring
  <2>2. PICK c \in Calls :
          /\ EnsureRecord(c) /\ Busy(c) /\ pc[c] = "records" /\ req[c].kind = "auth"
          /\ owner = req[c].node /\ dns'[AuthHost] = req[c].node
    BY <1>1, <1>5, <2>1, AuthRecords
  <2>3. Providing(c)
    BY DEF AppsInv
  <2>4. owner = n /\ ingress[n] = Served(n)
    BY <2>2, <2>3 DEF Providing
  <2>5. AuthHost \in Served(n)
    BY <2>4 DEF Served
  <2> QED  BY <1>2, <1>3, <2>4, <2>5
<1>6. CASE interrupted # None
  <2>1. ASSUME NEW c \in Calls, TransferAuth(c), interrupted' = <<req[c].source, req[c].destination>>
        PROVE  FALSE
    <3>1. req[c].source \in Nodes /\ req[c].destination \in Nodes
      BY <2>1, RequestsBegin, RequestFields DEF Begins
    <3> QED  BY <2>1, <3>1, NoneFacts
  <2>2. PICK c \in Calls : Answer(c) /\ req[c].kind = "transfer"
    BY <1>1, <1>6, <2>1, InterruptedSteps
  <2>3. pc[c] = "answer" /\ Busy(c) /\ dns' = dns
    BY <2>2, TransferGoesOn DEF Busy, Answer, cloudflare
  <2>4. Transferring(c)
    BY DEF AuthInv
  <2>5. owner = n /\ ingress[n] = Served(n)
    BY <2>2, <2>3, <2>4 DEF Transferring
  <2>6. AuthHost \in Served(n)
    BY <2>5 DEF Served
  <2> QED  BY <1>2, <1>3, <2>5, <2>6
<1> QED  BY <1>4, <1>5, <1>6

LEMMA AuthStays ==
  ASSUME Turns, DataOK, EnrollmentInv, AppsInv, AuthInv, Step
  PROVE  AuthInv'
<1>1. \A c \in Calls : Transferring(c)'
  BY TransferringStays
<1>2. Unsent'
  BY UnsentStays DEF AuthInv
<1> QED  BY <1>1, <1>2, RecoverableStays, AuthLedStays DEF AuthInv

-----------------------------------------------------------------------------
(* The invariant.                                                          *)

Inv ==
  /\ Turns /\ DataOK
  /\ EnrollmentInv /\ AppsInv /\ AuthInv
  /\ EnrolledNodesAreServed

LEMMA InvAtFirst == Init => Inv
<1> SUFFICES ASSUME Init PROVE Inv
  OBVIOUS
<1>1. PICK w \in Starts : /\ nodes = w.nodes /\ owner = w.owner /\ tokens = w.tokens
                          /\ rows = w.rows /\ ingress = w.ingress /\ dns = w.dns
  BY DEF Init
<1>2. /\ w \in World /\ UniqueIds(nodes) /\ UniqueHosts(rows) /\ OwnerEnrolled
      /\ RecordsHaveRows /\ EnrolledNodesAreServed
      /\ dns[AuthHost] \in Nodes => owner = dns[AuthHost] /\ AuthHost \in ingress[owner]
  BY <1>1, KnownStarts, SoundStarts DEF OwnerEnrolled, RecordsHaveRows, EnrolledNodesAreServed
<1>3. /\ interrupted = None /\ faults = 0 /\ left = [c \in Calls |-> {}]
      /\ \A c \in Calls : pc[c] = "idle" /\ req[c] = None
  BY DEF Init
<1>4. DataOK
  BY <1>1, <1>2, <1>3, FaultBound DEF World, DataOK
<1>5. EnrollmentInv /\ AppsInv
  BY <1>2, <1>3 DEF EnrollmentInv, Enrolling, Admitted, Credited, AppsInv, Dropping, Providing
<1>6. AuthInv
  <2>1. dns[AuthHost] \in Nodes => ingress[dns[AuthHost]] # None
    BY <1>2, NoneFacts DEF OwnerEnrolled, EnrolledNodesAreServed, TerminalsServed
  <2>2. AuthLed
    BY <1>2, <2>1 DEF AuthLed, AuthRouted
  <2>3. Unsent /\ Recoverable /\ \A c \in Calls : Transferring(c)
    BY <1>3 DEF Unsent, Recoverable, Transferring, Busy
  <2> QED  BY <2>2, <2>3 DEF AuthInv
<1> QED  BY <1>2, <1>4, <1>5, <1>6, TurnsAtFirst DEF Inv

LEMMA InvStays == Inv /\ Step => Inv'
BY TurnsStay, DataStays, EnrollmentStays, AppsStay, AuthStays, TerminalsStay DEF Inv

\* Whatever requests come, and whatever fails or restarts on the way, the
\* broker keeps its tables, tunnels and records in order.
THEOREM BrokerInvariant == Spec => []Inv
<1>1. Inv /\ [Next]_vars => Inv'
  BY NextIsStep, InvStays
<1> QED  BY <1>1, InvAtFirst, PTL DEF Spec

-----------------------------------------------------------------------------
(* What operators and nodes are promised.                                  *)

\* Tables, tunnels, records and queue are what they should be; the unique
\* indexes of the tables are never violated.
THEOREM BrokerType == Spec => []TypeOK
<1>1. Inv => TypeOK
  BY DEF Inv, Turns, QueueOK, DataOK, EnrollmentInv, TypeOK
<1> QED  BY <1>1, BrokerInvariant, PTL

\* A record made for an app has its row, whatever failed and whenever the object
\* stopped: row first, then record; record gone first, then row.
THEOREM RecordsAlwaysHaveRows == Spec => []RecordsHaveRows
<1>1. Inv => RecordsHaveRows
  BY DEF Inv, AppsInv
<1> QED  BY <1>1, BrokerInvariant, PTL

\* A node's terminal is served from the moment its row is there.
THEOREM TerminalsAlwaysServed == Spec => []EnrolledNodesAreServed
<1>1. Inv => EnrolledNodesAreServed
  BY DEF Inv
<1> QED  BY <1>1, BrokerInvariant, PTL

\* Nobody is given a name's credentials but the id that has it, against a token
\* of that name which only that id used.
THEOREM SingleUse == Spec => []TokensAreSingleUse
<1>1. Inv => TokensAreSingleUse
  <2> SUFFICES ASSUME Inv, NEW c \in Calls, req[c] # None, EnrolledBy(c)
               PROVE  Claimed(c) /\ nodes[req[c].node] = req[c].id
    BY DEF TokensAreSingleUse, Claimed
  <2>1. pc[c] = "done"
    BY NoneFacts DEF Inv, Turns, EnrolledBy, Answers
  <2>2. Credited(c)
    BY <2>1 DEF EnrolledBy, Credited
  <2> QED  BY <2>2 DEF Inv, EnrollmentInv, Admitted
<1> QED  BY <1>1, BrokerInvariant, PTL

\* Wherever a transfer stopped, it can be finished and it can be taken back.
THEOREM AlwaysRecoverable == Spec => []TransferRecoverable
<1>1. Inv => TransferRecoverable
  BY DEF Inv, AuthInv, Recoverable, TransferRecoverable
<1> QED  BY <1>1, BrokerInvariant, PTL

\* The auth record leads to a tunnel that serves auth.
THEOREM AuthAlwaysServed == Spec => []AuthServedByOwner
<1>1. Inv => AuthServedByOwner
  BY DEF Inv, AuthInv, AuthLed, AuthServedByOwner
<1> QED  BY <1>1, BrokerInvariant, PTL

\* A record that is there is changed only for the node it points to or for the
\* operator.
THEOREM OnlyOwnRecordsChange == Spec => OnlyOwnRecords
<1>1. ASSUME Inv, [Next]_vars, NEW h \in Hosts, dns[h] # None, dns'[h] # dns[h]
      PROVE  LET r == req[Head(queue)] IN
               \/ r.kind = "sync" /\ dns[h] = r.node /\ dns'[h] = None
               \/ r.kind \in {"transfer", "adopt"} /\ h \in {AuthHost, PortalHost}
  <2>1. Step /\ Turns /\ DataOK /\ dns \in [Hosts -> Record]
    BY <1>1, NextIsStep DEF Inv, DataOK
  <2>2. PICK c \in Calls : RecordStep(c)
    BY <1>1, <2>1, RecordSteps
  <2>3. ASSUME Busy(c) PROVE c = Head(queue)
    BY <2>1, <2>3 DEF Turns, Serving
  <2>4. ASSUME NEW g \in Hosts, NEW n \in Tunnels, EnsuredFor(c, g, n) PROVE FALSE
    BY <1>1, <2>1, <2>4 DEF EnsuredFor
  <2>5. ASSUME NEW g \in Hosts, DroppedFor(c, g)
        PROVE  c = Head(queue) /\ req[c].kind = "sync" /\ dns[h] = req[c].node /\ dns'[h] = None
    <3>1. g = h /\ dns[h] = req[c].node /\ dns'[h] = None
      BY <1>1, <2>1, <2>5 DEF DroppedFor
    <3> QED  BY <2>1, <2>3, <2>5, <3>1, KindAtStep DEF DroppedFor
  <2>6. ASSUME NEW g \in Hosts, NEW t \in Tunnels, AdoptedFor(c, g, t)
        PROVE  c = Head(queue) /\ req[c].kind \in {"transfer", "adopt"} /\ h \in {AuthHost, PortalHost}
    <3>1. g = h
      BY <1>1, <2>1, <2>6 DEF AdoptedFor
    <3>2. /\ Busy(c)
          /\ \/ pc[c] = "auth_record" /\ h = AuthHost
             \/ pc[c] = "adopt_record" /\ h \in {AuthHost, PortalHost}
      BY <2>6, <3>1 DEF AdoptedFor
    <3> QED  BY <2>1, <2>3, <3>2, KindAtStep DEF TransferSteps
  <2> QED  BY <2>2, <2>4, <2>5, <2>6 DEF RecordStep
<1>2. Inv /\ [Next]_vars => \A h \in Hosts : dns[h] # None /\ dns'[h] # dns[h] =>
        LET r == req[Head(queue)] IN
          \/ r.kind = "sync" /\ dns[h] = r.node /\ dns'[h] = None
          \/ r.kind \in {"transfer", "adopt"} /\ h \in {AuthHost, PortalHost}
  BY <1>1
<1> QED  BY <1>2, BrokerInvariant, PTL DEF Spec, OnlyOwnRecords

\* What a request is answered changes once, by the handler of that request.
LEMMA AnsweredBy ==
  ASSUME Turns, Step, NEW c \in Calls, result[c] = None
  PROVE  /\ result'[c] = "ready" => IssueToken(c) \/ Answer(c)
         /\ result'[c] \in EnrollRefusals => Enroll(c)
<1>1. {"failed", "lost", "ready"} \cap EnrollRefusals = {} /\ None \notin EnrollRefusals \cup {"ready"}
  BY NoneFacts DEF EnrollRefusals, Answers
<1>2. ASSUME NEW d \in Calls, Moves(d), result'[c] # None
      PROVE  d = c /\ pc'[c] = "done"
  <2>1. d = c
    BY <1>2, OthersWait
  <2>2. result' = result \/ pc'[c] = "done"
    BY <1>2, <2>1 DEF Moves
  <2> QED  BY <1>2, <2>1, <2>2
<1>3. ASSUME NEW d \in Calls, Handle(d)
      PROVE  /\ result'[c] = "ready" => IssueToken(c) \/ Answer(c)
             /\ result'[c] \in EnrollRefusals => Enroll(c)
  <2>1. Moves(d)
    BY <1>3, HandleMoves
  <2> QED  BY <1>1, <1>2, <1>3, <2>1, HandleMoves, Arrivals
<1>4. ASSUME NEW d \in Calls, CloudflareFails(d)
      PROVE  result'[c] \notin EnrollRefusals \cup {"ready"}
  <2>1. Moves(d) /\ result'[d] = "failed"
    BY <1>4, FailureMoves
  <2>2. d = c \/ result'[c] = None
    BY <1>2, <2>1
  <2> QED  BY <1>1, <2>1, <2>2
<1>5. ASSUME Restart PROVE result'[c] \in {result[c], "lost"}
  BY <1>5, RestartKeepsTurns
<1>6. ASSUME \/ \E d \in Calls, r \in Request : Send(d, r)
             \/ \E t \in Tokens : Expire(t)
             \/ UNCHANGED vars
      PROVE  result' = result
  BY <1>6 DEF Send, Expire, object, vars
<1>7. ASSUME result'[c] \in {None, "lost"} PROVE result'[c] \notin EnrollRefusals \cup {"ready"}
  BY <1>1, <1>7
<1> QED  BY <1>3, <1>4, <1>5, <1>6, <1>7 DEF Step

\* A node's tunnel serves the node's apps and no other host an app of it has.
LEMMA ServedOfNode ==
  ASSUME rows \subseteq Row, NEW n \in Nodes, NEW a \in AppNames
  PROVE  /\ Hostname(a, n) \in Served(n) <=> [node |-> n, app |-> a] \in rows
         /\ AuthHost \in Served(n) <=> owner = n
<1> DEFINE h == Hostname(a, n)
<1>1. h \notin {Terminal(n), AuthHost, PortalHost} /\ Terminal(n) # AuthHost
  BY HostsDiffer
<1>2. [node |-> n, app |-> a] \in rows => h \in Served(n)
  BY DEF Served
<1>3. ASSUME h \in Served(n) PROVE [node |-> n, app |-> a] \in rows
  <2>1. PICK r \in rows : r.node = n /\ h = Hostname(r.app, r.node)
    BY <1>1, <1>3 DEF Served
  <2>2. r \in Row /\ r.app = a
    BY <2>1, HostsDiffer DEF Row
  <2>3. r = [node |-> n, app |-> a]
    BY <2>1, <2>2 DEF Row
  <2> QED  BY <2>1, <2>3
<1>4. AuthHost \in Served(n) <=> owner = n
  <2>1. \A r \in rows : r.node = n => Hostname(r.app, r.node) # AuthHost
    BY HostsDiffer DEF Row
  <2> QED  BY <1>1, <2>1 DEF Served
<1> QED  BY <1>2, <1>3, <1>4

\* "ready" is said when tables, tunnels and records agree with the request.
THEOREM ReadyAlwaysRouted == Spec => ReadyMeansRouted
<1>1. ASSUME Inv, [Next]_vars, NEW c \in Calls, result'[c] = "ready", result[c] = None
      PROVE  LET r == req[c] IN
               /\ r.kind = "sync" => AppsRouted(r.node, r.apps)
               /\ r.kind = "app" => AppRouted(r.node, r.app)
               /\ r.kind = "auth" => AuthRouted(r.node)
               /\ r.kind = "transfer" =>
                    /\ AuthRouted(r.destination)
                    /\ r.source # r.destination => AuthHost \notin ingress[r.source]
  <2> DEFINE r == req[c]
             n == r.node
  <2>1. Turns /\ DataOK /\ rows \subseteq Row /\ RecordsHaveRows /\ Providing(c) /\ Transferring(c)
    BY <1>1 DEF Inv, DataOK, AppsInv, AuthInv
  <2>2. IssueToken(c) \/ Answer(c)
    BY <1>1, <2>1, NextIsStep, AnsweredBy
  <2>3. CASE IssueToken(c)
    <3>1. r.kind = "issue"
      BY <2>1, <2>3, RequestsBegin DEF Begins
    <3> QED  BY <3>1
  <2>4. CASE Answer(c)
    <3>1. pc[c] = "answer" /\ Busy(c) /\ r \in Request
      BY <2>1, <2>4, TransferGoesOn, KindAtStep DEF Busy
    <3>2. ASSUME r.kind \in {"sync", "app", "auth"}
          PROVE  n \in Nodes /\ left[c] = {} /\ ingress[n] = Served(n) /\ \A h \in Wanted(r) : dns[h] = n
      BY <2>1, <3>1, <3>2, RequestFields DEF Providing
    <3>3. ASSUME r.kind \in {"sync", "app"}, NEW a \in AppNames, Hostname(a, n) \in Wanted(r)
          PROVE  AppRouted(n, a)
      <4>1. Unambiguous(a, n) => [node |-> n, app |-> a] \in rows
        BY <2>1, <3>1, <3>3 DEF Providing
      <4> QED  BY <2>1, <3>2, <3>3, <4>1, ServedOfNode DEF AppRouted
    <3>4. ASSUME r.kind = "sync" PROVE AppsRouted(n, r.apps)
      <4>1. n \in Nodes /\ r.apps \in SUBSET AppNames
        BY <3>1, <3>4, RequestFields
      <4>2. ASSUME NEW a \in r.apps PROVE AppRouted(n, a)
        BY <3>1, <3>3, <3>4, <4>1, WantedHosts
      <4>3. ASSUME NEW a \in AppNames \ r.apps PROVE AppGone(n, a)
        <5>1. [node |-> n, app |-> a] \notin rows
          BY <2>1, <3>1, <3>4 DEF Providing
        <5>2. Unambiguous(a, n) => dns[Hostname(a, n)] # n
          BY <2>1, <4>1, <5>1 DEF RecordsHaveRows, RowsFor
        <5> QED  BY <2>1, <3>2, <3>4, <4>1, <5>1, <5>2, ServedOfNode DEF AppGone
      <4> QED  BY <4>2, <4>3 DEF AppsRouted
    <3>5. ASSUME r.kind = "app" PROVE AppRouted(n, r.app)
      BY <3>1, <3>3, <3>5, WantedHosts, RequestFields
    <3>6. ASSUME r.kind = "auth" PROVE AuthRouted(n)
      <4>1. owner = n /\ dns[AuthHost] = n /\ ingress[n] = Served(n)
        BY <2>1, <3>1, <3>2, <3>6, WantedHosts DEF Providing
      <4> QED  BY <4>1 DEF AuthRouted, Served
    <3>7. ASSUME r.kind = "transfer"
          PROVE  /\ AuthRouted(r.destination)
                 /\ r.source # r.destination => AuthHost \notin ingress[r.source]
      <4>1. /\ owner = r.destination /\ dns[AuthHost] = r.destination
            /\ ingress[r.source] = Served(r.source) /\ ingress[r.destination] = Served(r.destination)
            /\ r.source \in Nodes
        BY <2>1, <3>1, <3>7, RequestFields DEF Transferring
      <4>2. \A o \in rows : Hostname(o.app, o.node) # AuthHost
        BY <2>1, HostsDiffer DEF Row
      <4>3. Terminal(r.source) # AuthHost
        BY <4>1, HostsDiffer
      <4> QED  BY <4>1, <4>2, <4>3 DEF AuthRouted, Served
    <3> QED  BY <3>4, <3>5, <3>6, <3>7
  <2> QED  BY <2>2, <2>3, <2>4
<1>2. Inv /\ [Next]_vars =>
        \A c \in Calls : result'[c] = "ready" /\ result[c] = None =>
          LET r == req[c] IN
            /\ r.kind = "sync" => AppsRouted(r.node, r.apps)
            /\ r.kind = "app" => AppRouted(r.node, r.app)
            /\ r.kind = "auth" => AuthRouted(r.node)
            /\ r.kind = "transfer" =>
                 /\ AuthRouted(r.destination)
                 /\ r.source # r.destination => AuthHost \notin ingress[r.source]
  BY <1>1
<1> QED  BY <1>2, BrokerInvariant, PTL DEF Spec, ReadyMeansRouted

\* A claim is good until somebody else has the name, or the id another one.
THEOREM ClaimsSurvive == Spec => ClaimSurvives
<1>1. ASSUME Inv, [Next]_vars, NEW c \in Calls,
             result'[c] \in EnrollRefusals, result[c] = None,
             tokens[req[c].token] # None,
             tokens[req[c].token].claimed = req[c].id,
             tokens[req[c].token].node = req[c].node
      PROVE  \/ nodes[req[c].node] \notin {None, req[c].id}
             \/ \E m \in Nodes \ {req[c].node} : nodes[m] = req[c].id
  <2>1. Turns /\ Enroll(c)
    BY <1>1, NextIsStep, AnsweredBy DEF Inv
  <2>2. req[c].id # None /\ Verdict(req[c].id, req[c].node, req[c].token) \in EnrollRefusals
    <3>1. req[c] \in Request /\ req[c].kind = "enroll"
      BY <2>1, EnrollMoves
    <3>2. "node_tunnel" # "done" /\ "portal_tunnel" # "done" /\ result'[c] # None
      BY <1>1, NoneFacts DEF EnrollRefusals, Answers
    <3>3. pc'[c] = "done"
      BY <1>1, <2>1, <3>2, EnrollMoves, StepsAreSteps DEF Moves
    <3> QED  BY <2>1, <3>1, <3>2, <3>3, EnrollMoves, RequestFields, NoneFacts
  <2> QED  BY <1>1, <2>2 DEF Verdict, EnrollRefusals
<1>2. Inv /\ [Next]_vars =>
        \A c \in Calls :
          /\ result'[c] \in EnrollRefusals
          /\ result[c] = None
          /\ tokens[req[c].token] # None
          /\ tokens[req[c].token].claimed = req[c].id
          /\ tokens[req[c].token].node = req[c].node
          => \/ nodes[req[c].node] \notin {None, req[c].id}
             \/ \E m \in Nodes \ {req[c].node} : nodes[m] = req[c].id
  BY <1>1
<1> QED  BY <1>2, BrokerInvariant, PTL DEF Spec, ClaimSurvives

=============================================================================
