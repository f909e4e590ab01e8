---------------------------- MODULE HalLinkProofs ----------------------------
(***************************************************************************)
(* Proofs about HalLink for every value of its constants: any number of    *)
(* callers, calls, connections, failures, engine deaths and stops of the   *)
(* plugin.  The link implements BlockDevice.                               *)
(***************************************************************************)
EXTENDS HalLink, TLAPS

Vals   == UNION {[1 .. n -> 0 .. MaxCalls + 1] : n \in 0 .. 2}
Frames == [kind : {"ERROR", "ACK", "DATA"}, len : 0 .. 2, body : Vals]

\* A connection carries at most one response that nobody has received.
Boxes == {<<>>} \cup {<<f>> : f \in Frames}

\* The requests in the scheduler's queue, and all that the plugin still has
\* to deal with.
Queued == {tasks[i] : i \in 1 .. Len(tasks)}
Open   == net \cup loading \cup Queued

\* What TypeOK leaves out.
TypeInv ==
  /\ TypeOK
  /\ resp \in [Conns -> Boxes]
  /\ tasks \in Seq(Requests)
  /\ op \in [Calls -> Ops \cup {"NONE"}]
  /\ stage \in [Calls -> {"new", "invoked", "applied"}]
  /\ ncalls \in 0 .. MaxCalls

\* The calls made so far, and the one each caller is executing.
CallInv ==
  /\ \A k \in Calls : k > ncalls => stage[k] = "new" /\ result[k] = NoAnswer
  /\ \A k \in Calls : k <= ncalls => stage[k] # "new" /\ op[k] \in Ops
  /\ \A c \in Callers : pc[c] # "idle" =>
       call[c] \in Calls /\ call[c] <= ncalls /\ result[call[c]] = NoAnswer
  /\ \A c, d \in Callers :
       pc[c] # "idle" /\ pc[d] # "idle" /\ call[c] = call[d] => c = d
  /\ \A c \in Callers : pc[c] \in {"dial", "send", "recv"} => mu = c

\* No request is queued twice.
Unrepeated == \A i, j \in 1 .. Len(tasks) : tasks[i] = tasks[j] => i = j

\* Each request is in one place, once, and its effect is still to come; a
\* FORCE_LOAD in the queue has had its effect and is only to be acknowledged.
OnceInv ==
  /\ \A m, n \in Open : m.call = n.call => m = n
  /\ net \cap loading = {} /\ net \cap Queued = {} /\ loading \cap Queued = {}
  /\ Unrepeated
  /\ \A m \in net \cup loading : stage[m.call] = "invoked"
  /\ \A m \in loading : op[m.call] = "FORCE_LOAD"
  /\ \A m \in Queued :
       \/ op[m.call] # "FORCE_LOAD" /\ stage[m.call] = "invoked"
       \/ /\ op[m.call] = "FORCE_LOAD" /\ stage[m.call] = "applied"
          /\ answer[m.call] = [kind |-> "ACK", vals |-> <<>>]

\* A call that has not been sent is open nowhere and has had no effect.
UnsentInv ==
  \A c \in Callers : pc[c] \in {"lock", "dial", "send"} =>
    stage[call[c]] = "invoked" /\ \A m \in Open : m.call # call[c]

\* What is open on the client's connection, or has come back on it, belongs to
\* the caller that is waiting there.
TurnInv ==
  /\ conn <= nconns
  /\ \A m \in Open : m.conn <= nconns
  /\ \A g \in Conns : g > nconns => resp[g] = <<>>
  /\ \A m \in Open : m.conn = conn =>
       \E c \in Callers : pc[c] = "recv" /\ call[c] = m.call
  /\ conn # 0 /\ resp[conn] # <<>> =>
       \E c \in Callers :
         /\ pc[c] = "recv" /\ stage[call[c]] = "applied"
         /\ \A m \in Open : m.call # call[c]
         /\ "IS_CHUNK_LOADED" \notin Ops =>
              Decode(op[call[c]], Head(resp[conn])) = answer[call[c]]

IInv == TypeInv /\ CallInv /\ OnceInv /\ UnsentInv /\ TurnInv


-----------------------------------------------------------------------------
(* Values, frames, boxes and the queue.                                    *)

\* The bounds that the proofs need.
LEMMA Bounds == MaxCalls \in Nat /\ MaxConns \in Nat /\ MaxConns >= 1
BY LinkAssumption

\* The sequences that requests and answers carry.
LEMMA ValsType ==
  /\ <<>> \in Vals
  /\ \A x \in 0 .. MaxCalls + 1 : <<x>> \in Vals
  /\ \A x, y \in 0 .. MaxCalls + 1 : <<x, y>> \in Vals
<1>1. <<>> \in [1 .. 0 -> 0 .. MaxCalls + 1]
  OBVIOUS
<1>2. \A x \in 0 .. MaxCalls + 1 : <<x>> \in [1 .. 1 -> 0 .. MaxCalls + 1]
  OBVIOUS
<1>3. \A x, y \in 0 .. MaxCalls + 1 : <<x, y>> \in [1 .. 2 -> 0 .. MaxCalls + 1]
  OBVIOUS
<1> QED
  BY <1>1, <1>2, <1>3 DEF Vals

\* The responses without data, and what a caller may be told.
LEMMA PlainType ==
  /\ Ack \in Frames /\ ErrorFrame \in Frames
  /\ NoAnswer \in Answers /\ Error \in Answers
  /\ [kind |-> "ACK", vals |-> <<>>] \in Answers
BY ValsType DEF Ack, ErrorFrame, Frames, NoAnswer, Error, Answers, Vals

\* A task's response is a frame.
LEMMA HandleType ==
  ASSUME TypeInv, NEW k \in Calls
  PROVE  /\ Handle(k) \in Frames
         /\ [kind |-> Handle(k).kind, vals |-> Handle(k).body] \in Answers
<1>1. block[1] \in 0 .. MaxCalls + 1 /\ block[2] \in 0 .. MaxCalls + 1
  BY LinkAssumption, SMTT(30) DEF TypeInv, TypeOK
<1>2. (IF ticket THEN 1 ELSE 0) \in 0 .. MaxCalls + 1
  BY LinkAssumption
<1>3. ASSUME NEW x \in 0 .. MaxCalls + 1
      PROVE  Frame(<<x>>) \in Frames
  BY ValsType DEF Frame, Frames
<1>4. Frame(<<block[1], block[2]>>) \in Frames
  BY <1>1, ValsType DEF Frame, Frames
<1>5. Handle(k) \in Frames
  BY <1>1, <1>2, <1>3, <1>4, PlainType DEF Handle
<1> QED
  BY <1>5 DEF Frames, Answers, Vals

\* What the client makes of a frame is an answer.
LEMMA DecodeType ==
  ASSUME NEW o, NEW f \in Frames
  PROVE  Decode(o, f) \in Answers
<1>1. <<IF FirstByte(f.len) = 1 THEN 1 ELSE 0>> \in Vals
  BY ValsType, LinkAssumption
<1>2. f.body \in Vals
  BY DEF Frames
<1> QED
  BY <1>1, <1>2, PlainType DEF Decode, Answers, Vals

\* A box is filled by a response and emptied by its receipt.
LEMMA BoxFilled ==
  ASSUME NEW f \in Frames
  PROVE  Append(<<>>, f) \in Boxes /\ Append(<<>>, f) # <<>> /\ Head(Append(<<>>, f)) = f
<1>1. Append(<<>>, f) = <<f>>
  OBVIOUS
<1>2. <<f>> # <<>> /\ Head(<<f>>) = f
  OBVIOUS
<1> QED
  BY <1>1, <1>2 DEF Boxes

\* Receipt empties a box.
LEMMA BoxEmptied ==
  ASSUME NEW b \in Boxes, b # <<>>
  PROVE  Head(b) \in Frames /\ Tail(b) = <<>>
<1>1. PICK f \in Frames : b = <<f>>
  BY DEF Boxes
<1>2. Head(<<f>>) = f /\ Tail(<<f>>) = <<>>
  OBVIOUS
<1> QED
  BY <1>1, <1>2

\* The scheduler's queue gets a request at its end.
LEMMA QueueGrows ==
  ASSUME tasks \in Seq(Requests), NEW m \in Requests, tasks' = Append(tasks, m)
  PROVE  /\ tasks' \in Seq(Requests) /\ Queued' = Queued \cup {m}
         /\ Unrepeated /\ m \notin Queued => Unrepeated'
<1>1. /\ tasks' \in Seq(Requests) /\ Len(tasks) \in Nat /\ Len(tasks') = Len(tasks) + 1
      /\ \A i \in 1 .. Len(tasks) : tasks'[i] = tasks[i]
      /\ tasks'[Len(tasks) + 1] = m
  OBVIOUS
<1>2. 1 .. Len(tasks') = 1 .. Len(tasks) \cup {Len(tasks) + 1}
  BY <1>1
<1>3. Queued' = Queued \cup {m}
  BY <1>1, <1>2 DEF Queued
<1>4. ASSUME Unrepeated, m \notin Queued, NEW i \in 1 .. Len(tasks'),
             NEW j \in 1 .. Len(tasks'), tasks'[i] = tasks'[j]
      PROVE  i = j
  <2>1. \A l \in 1 .. Len(tasks) : tasks[l] # m
    BY <1>4 DEF Queued
  <2> QED
    BY <1>1, <1>2, <1>4, <2>1 DEF Unrepeated
<1> QED
  BY <1>1, <1>3, <1>4 DEF Unrepeated

\* The server thread takes the first request from it.
LEMMA QueueShrinks ==
  ASSUME tasks \in Seq(Requests), tasks # <<>>, tasks' = Tail(tasks)
  PROVE  /\ tasks' \in Seq(Requests) /\ Head(tasks) \in Requests /\ Head(tasks) \in Queued
         /\ Unrepeated => Unrepeated' /\ Queued' = Queued \ {Head(tasks)}
<1>1. /\ tasks' \in Seq(Requests) /\ Head(tasks) = tasks[1] /\ Head(tasks) \in Requests
      /\ Len(tasks) \in Nat /\ Len(tasks) >= 1 /\ Len(tasks') = Len(tasks) - 1
      /\ \A i \in 1 .. Len(tasks') : tasks'[i] = tasks[i + 1]
  OBVIOUS
<1>2. Head(tasks) \in Queued
  BY <1>1 DEF Queued
<1>3. ASSUME Unrepeated PROVE Unrepeated'
  BY <1>1, <1>3 DEF Unrepeated
<1>4. ASSUME Unrepeated PROVE Queued' = Queued \ {Head(tasks)}
  <2>1. ASSUME NEW m \in Queued' PROVE m \in Queued \ {Head(tasks)}
    <3>1. PICK i \in 1 .. Len(tasks') : m = tasks'[i]
      BY <2>1 DEF Queued
    <3>2. i + 1 \in 1 .. Len(tasks) /\ i + 1 # 1 /\ 1 \in 1 .. Len(tasks)
      BY <1>1
    <3>3. m = tasks[i + 1] /\ tasks[i + 1] # tasks[1]
      BY <1>1, <1>4, <3>1, <3>2 DEF Unrepeated
    <3> QED
      BY <1>1, <3>2, <3>3 DEF Queued
  <2>2. ASSUME NEW m \in Queued, m # Head(tasks) PROVE m \in Queued'
    <3>1. PICK i \in 1 .. Len(tasks) : m = tasks[i]
      BY <2>2 DEF Queued
    <3>2. i # 1
      BY <1>1, <2>2, <3>1
    <3>3. i - 1 \in 1 .. Len(tasks') /\ (i - 1) + 1 = i
      BY <1>1, <3>2
    <3>4. tasks'[i - 1] = m
      BY <1>1, <3>1, <3>3
    <3> QED
      BY <3>3, <3>4 DEF Queued
  <2> QED
    BY <2>1, <2>2
<1> QED
  BY <1>1, <1>2, <1>3, <1>4


-----------------------------------------------------------------------------
(* Type correctness.                                                       *)

\* What is open is a request.
LEMMA OpenType ==
  ASSUME TypeInv, NEW m \in Open
  PROVE  m \in Requests /\ m.call \in Calls /\ m.conn \in Conns
<1>1. Queued \subseteq Requests
  BY DEF TypeInv, Queued
<1>2. m \in Requests
  BY <1>1 DEF Open, TypeInv, TypeOK
<1> QED
  BY <1>2 DEF Requests

\* A response fills the box of the client's connection, which was empty, or is
\* dropped.
LEMMA RespondEffect ==
  ASSUME IInv, NEW m \in Queued, NEW f \in Frames, Respond(m, f)
  PROVE  /\ resp' \in [Conns -> Boxes]
         /\ \A g \in Conns : g # m.conn => resp'[g] = resp[g]
         /\ \/ resp' = resp
            \/ /\ m.conn = conn /\ conn # 0 /\ resp[conn] = <<>>
               /\ resp'[conn] # <<>> /\ Head(resp'[conn]) = f
<1>1. m \in Open
  BY DEF Open
<1>2. m.conn \in Conns /\ m.conn # 0 /\ resp \in [Conns -> Boxes]
  BY <1>1, OpenType, LinkAssumption DEF IInv, TypeInv, Conns
<1>3. CASE resp' = resp
  BY <1>2, <1>3
<1>4. CASE m.conn = conn /\ resp' = [resp EXCEPT ![m.conn] = Append(@, f)]
  <2>1. PICK c \in Callers : pc[c] = "recv" /\ call[c] = m.call
    BY <1>1, <1>4 DEF IInv, TurnInv
  <2>2. resp[conn] = <<>>
    <3> SUFFICES ASSUME resp[conn] # <<>> PROVE FALSE
      OBVIOUS
    <3>1. PICK d \in Callers : pc[d] = "recv" /\ \A n \in Open : n.call # call[d]
      BY <1>2, <1>4 DEF IInv, TurnInv
    <3>2. c = d
      BY <2>1, <3>1 DEF IInv, CallInv
    <3> QED
      BY <1>1, <2>1, <3>1, <3>2
  <2>3. resp'[conn] = Append(<<>>, f) /\ \A g \in Conns : g # m.conn => resp'[g] = resp[g]
    BY <1>2, <1>4, <2>2
  <2>4. Append(<<>>, f) \in Boxes /\ Append(<<>>, f) # <<>> /\ Head(Append(<<>>, f)) = f
    BY BoxFilled
  <2>5. resp' \in [Conns -> Boxes]
    BY <1>2, <1>4, <2>2, <2>4
  <2> QED
    BY <1>2, <1>4, <2>2, <2>3, <2>4, <2>5
<1> QED
  BY <1>3, <1>4 DEF Respond

\* A sequence of requests has requests as its elements.
LEMMA TasksType ==
  ASSUME NEW s \in Seq(Requests)
  PROVE  \A i \in 1 .. Len(s) : s[i] \in Requests
OBVIOUS

\* The invariant holds initially.
LEMMA InitInv == Init => IInv
<1> SUFFICES ASSUME Init PROVE IInv
  OBVIOUS
<1>1. Queued = {} /\ Open = {} /\ tasks \in Seq(Requests)
  BY DEF Init, Queued, Open
<1>2. TypeInv
  <2>1. TypeOK
    <3>1. conn \in 0 .. MaxConns /\ nconns \in 0 .. MaxConns /\ 0 \in 0 .. MaxCalls
      BY Bounds DEF Init
    <3>2. \A i \in 1 .. Len(tasks) : tasks[i] \in Requests
      BY <1>1, TasksType
    <3>3. answer \in [Calls -> Answers] /\ result \in [Calls -> Answers]
      BY PlainType DEF Init
    <3> QED
      BY <3>1, <3>2, <3>3 DEF Init, TypeOK
  <2>2. resp \in [Conns -> Boxes] /\ ncalls \in 0 .. MaxCalls
    BY Bounds DEF Init, Boxes
  <2> QED
    BY <1>1, <2>1, <2>2 DEF Init, TypeInv
<1>3. CallInv
  BY DEF Init, CallInv, Calls
<1>4. OnceInv
  BY <1>1 DEF Init, OnceInv, Unrepeated
<1>5. UnsentInv /\ TurnInv
  BY <1>1, LinkAssumption DEF Init, UnsentInv, TurnInv, Conns
<1> QED
  BY <1>2, <1>3, <1>4, <1>5 DEF IInv

\* Blocks hold numbers of calls.
LEMMA PlaceType ==
  ASSUME TypeInv, NEW k \in Calls, NEW j \in 0 .. 2
  PROVE  Place(k, j) \in [1 .. 2 -> 0 .. MaxCalls]
BY DEF Place, TypeInv, TypeOK, Calls

\* A request writes at most two blocks.
LEMMA CountType == \A o : Count(o) \in 0 .. 2
BY DEF Count

\* A finished call keeps the types.
LEMMA FinishType ==
  ASSUME IInv, NEW c \in Callers, pc[c] # "idle", NEW r \in Answers, Finish(c, r)
  PROVE  /\ mu' \in Callers \cup {NoCaller}
         /\ pc' \in [Callers -> {"idle", "lock", "dial", "send", "recv"}]
         /\ call' \in [Callers -> 0 .. MaxCalls]
         /\ answer' \in [Calls -> Answers] /\ result' \in [Calls -> Answers]
         /\ op' = op /\ stage' = stage /\ answer' = answer
         /\ \A d \in Callers : pc'[d] # "idle" => pc'[d] = pc[d]
<1>1. call[c] \in Calls
  BY DEF IInv, CallInv
<1>2. 0 \in 0 .. MaxCalls
  BY LinkAssumption
<1> QED
  BY <1>1, <1>2 DEF Finish, IInv, TypeInv, TypeOK

\* The request at the head of the queue.
LEMMA HeadOpen ==
  ASSUME TypeInv, tasks # <<>>
  PROVE  /\ Head(tasks) \in Queued /\ Head(tasks) \in Open
         /\ Head(tasks).call \in Calls /\ Head(tasks).conn \in Conns
<1>1. Head(tasks) \in Queued
  BY DEF TypeInv, Queued
<1> QED
  BY <1>1, OpenType DEF Open

\* Every step keeps the types.
LEMMA TypeStep == IInv /\ [Next]_vars => TypeInv'
<1> SUFFICES ASSUME IInv, [Next]_vars PROVE TypeInv'
  OBVIOUS
<1>0. TypeInv
  BY DEF IInv
<1>1. ASSUME NEW c \in Callers, NEW o \in Ops, Invoke(c, o) PROVE TypeInv'
  <2>1. ncalls + 1 \in Calls /\ ncalls + 1 \in 0 .. MaxCalls
    BY <1>0, <1>1, LinkAssumption DEF Invoke, TypeInv, Calls
  <2> QED
    BY <1>0, <1>1, <2>1 DEF Invoke, TypeInv, TypeOK, network, plugin, work
<1>2. ASSUME NEW c \in Callers, Lock(c) PROVE TypeInv'
  BY <1>0, <1>2 DEF Lock, TypeInv, TypeOK, network, plugin, work, record, bounds
<1>3. ASSUME NEW c \in Callers, Dial(c) PROVE TypeInv'
  <2>1. nconns + 1 \in 0 .. MaxConns /\ nconns + 1 # 0
    BY <1>0, <1>3, Bounds DEF Dial, TypeInv, TypeOK
  <2> QED
    BY <1>0, <1>3, <2>1 DEF Dial, TypeInv, TypeOK, network, plugin, work, record
<1>4. ASSUME NEW c \in Callers, DialCancelled(c) PROVE TypeInv'
  BY <1>0, <1>4, FinishType, PlainType
  DEF DialCancelled, TypeInv, TypeOK, network, plugin, work, bounds
<1>5. ASSUME NEW c \in Callers, Send(c) PROVE TypeInv'
  <2>1. conn \in Conns /\ call[c] \in Calls
    BY <1>0, <1>5, LinkAssumption, SMTT(30) DEF Send, IInv, CallInv, TypeInv, TypeOK, Conns
  <2>2. [conn |-> conn, call |-> call[c]] \in Requests
    BY <2>1 DEF Requests
  <2> QED
    BY <1>0, <1>5, <2>2 DEF Send, TypeInv, TypeOK, plugin, work, record, bounds
<1>6. ASSUME NEW c \in Callers, LinkFails(c) PROVE TypeInv'
  <2>1. 0 \in 0 .. MaxConns
    BY LinkAssumption
  <2>2. \A d \in Callers : pc'[d] \notin {"send", "recv"}
    BY <1>0, <1>6, FinishType, PlainType, LinkAssumption, SMTT(30)
    DEF LinkFails, Finish, IInv, CallInv, TypeInv, TypeOK
  <2> QED
    BY <1>0, <1>6, <2>1, <2>2, FinishType, PlainType
    DEF LinkFails, TypeInv, TypeOK, network, plugin, work, bounds
<1>7. ASSUME NEW c \in Callers, Recv(c) PROVE TypeInv'
  <2>1. conn \in Conns /\ resp \in [Conns -> Boxes]
    BY <1>0, <1>7, LinkAssumption DEF Recv, TypeInv, TypeOK, Conns
  <2>2. Head(resp[conn]) \in Frames /\ Tail(resp[conn]) = <<>>
    BY <1>7, <2>1, BoxEmptied DEF Recv
  <2>3. resp' \in [Conns -> Boxes]
    BY <1>7, <2>1, <2>2 DEF Recv, Boxes
  <2>4. Decode(op[call[c]], Head(resp[conn])) \in Answers
    BY <2>2, DecodeType
  <2> QED
    BY <1>0, <1>7, <2>3, <2>4, FinishType
    DEF Recv, TypeInv, TypeOK, plugin, work, bounds
<1>8. ASSUME NEW m \in net, Route(m) PROVE TypeInv'
  <2>1. m \in Requests
    BY <1>0 DEF TypeInv, TypeOK
  <2>2. tasks' \in Seq(Requests)
    BY <1>0, <1>8, <2>1, QueueGrows DEF Route, TypeInv
  <2>3. \A i \in 1 .. Len(tasks') : tasks'[i] \in Requests
    BY <2>2, TasksType
  <2> QED
    BY <1>0, <1>8, <2>1, <2>2, <2>3, SMTT(30)
    DEF Route, TypeInv, TypeOK, client, record, bounds
<1>9. ASSUME NEW m \in net, Lose(m) PROVE TypeInv'
  BY <1>0, <1>9 DEF Lose, TypeInv, TypeOK, client, plugin, work, record, bounds
<1>10. ASSUME NEW m \in loading, ChunkLoaded(m) PROVE TypeInv'
  <2>1. m \in Requests /\ m.call \in Calls
    BY <1>0 DEF TypeInv, TypeOK, Requests
  <2>2. tasks' \in Seq(Requests)
    BY <1>0, <1>10, <2>1, QueueGrows DEF ChunkLoaded, TypeInv
  <2>3. \A i \in 1 .. Len(tasks') : tasks'[i] \in Requests
    BY <2>2, TasksType
  <2>4. answer' \in [Calls -> Answers] /\ stage' \in [Calls -> {"new", "invoked", "applied"}]
    BY <1>0, <1>10, PlainType DEF ChunkLoaded, TypeInv, TypeOK
  <2> QED
    BY <1>0, <1>10, <2>2, <2>3, <2>4
    DEF ChunkLoaded, TypeInv, TypeOK, client, network, bounds
<1>11. ASSUME NEW m \in loading, ChunkLost(m) PROVE TypeInv'
  BY <1>0, <1>11 DEF ChunkLost, TypeInv, TypeOK, client, network, record
<1>12. ASSUME RunTask PROVE TypeInv'
  <2> DEFINE m == Head(tasks)
  <2>1. m \in Queued /\ m.call \in Calls
    BY <1>0, <1>12, HeadOpen DEF RunTask
  <2>2. Handle(m.call) \in Frames
        /\ [kind |-> Handle(m.call).kind, vals |-> Handle(m.call).body] \in Answers
    BY <1>0, <2>1, HandleType
  <2>3. resp' \in [Conns -> Boxes]
    BY <1>12, <2>1, <2>2, RespondEffect DEF RunTask
  <2>4. tasks' \in Seq(Requests) /\ \A i \in 1 .. Len(tasks') : tasks'[i] \in Requests
    BY <1>0, <1>12, QueueShrinks, TasksType DEF RunTask, TypeInv
  <2>5. block' \in [1 .. 2 -> 0 .. MaxCalls]
    BY <1>0, <1>12, <2>1, PlaceType, CountType DEF RunTask
  <2>6. answer' \in [Calls -> Answers] /\ stage' \in [Calls -> {"new", "invoked", "applied"}]
    BY <1>0, <1>12, <2>1, <2>2 DEF RunTask, TypeInv, TypeOK
  <2> QED
    BY <1>0, <1>12, <2>3, <2>4, <2>5, <2>6
    DEF RunTask, TypeInv, TypeOK, client, bounds
<1>13. ASSUME TaskThrows, resp' \in [Conns -> Boxes] PROVE TypeInv'
  <2> DEFINE m == Head(tasks)
  <2>1. m.call \in Calls
    BY <1>0, <1>13, HeadOpen DEF TaskThrows
  <2>2. tasks' \in Seq(Requests) /\ \A i \in 1 .. Len(tasks') : tasks'[i] \in Requests
    BY <1>0, <1>13, QueueShrinks, TasksType DEF TaskThrows, TypeInv
  <2>3. block' \in [1 .. 2 -> 0 .. MaxCalls]
    BY <1>0, <1>13, <2>1, PlaceType DEF TaskThrows
  <2>4. answer' \in [Calls -> Answers] /\ stage' \in [Calls -> {"new", "invoked", "applied"}]
    BY <1>0, <1>13, <2>1, PlainType DEF TaskThrows, TypeInv, TypeOK
  <2> QED
    BY <1>0, <1>13, <2>2, <2>3, <2>4 DEF TaskThrows, TypeInv, TypeOK, client
<1>14. ASSUME TaskFails PROVE TypeInv'
  BY <1>0, <1>13, <1>14, HeadOpen, PlainType, RespondEffect DEF TaskFails, TaskThrows
<1>15. ASSUME TaskSilent PROVE TypeInv'
  BY <1>0, <1>13, <1>15 DEF TaskSilent, TypeInv
<1>16. ASSUME Break PROVE TypeInv'
  <2>1. conn \in Conns
    BY <1>0, <1>16, LinkAssumption DEF Break, TypeInv, TypeOK, Conns
  <2> QED
    BY <1>0, <1>16, <2>1 DEF Break, TypeInv, TypeOK, client, plugin, work, record
<1>17. ASSUME EngineCrash PROVE TypeInv'
  BY <1>0, <1>17, LinkAssumption, SMTT(30)
  DEF EngineCrash, TypeInv, TypeOK, network, plugin, work, record
<1>18. ASSUME Disable PROVE TypeInv'
  <2>1. {conn} \ {0} \subseteq Conns
    BY <1>0, LinkAssumption DEF TypeInv, TypeOK, Conns
  <2>2. tasks' \in Seq(Requests) /\ \A i \in 1 .. Len(tasks') : tasks'[i] \in Requests
    BY <1>18 DEF Disable
  <2> QED
    BY <1>0, <1>18, <2>1, <2>2 DEF Disable, TypeInv, TypeOK, client, record
<1>19. ASSUME Enable \/ Shutdown PROVE TypeInv'
  BY <1>0, <1>19
  DEF Enable, Shutdown, TypeInv, TypeOK, client, network, plugin, work, record, bounds
<1>20. ASSUME UNCHANGED vars PROVE TypeInv'
  BY <1>0, <1>20
  DEF TypeInv, TypeOK, vars, client, network, plugin, work, record, bounds
<1> QED
  BY <1>1, <1>2, <1>3, <1>4, <1>5, <1>6, <1>7, <1>8, <1>9, <1>10, <1>11, <1>12,
     <1>14, <1>15, <1>16, <1>17, <1>18, <1>19, <1>20
  DEF Next, Caller, Plugin, DialRetry, Quiet


-----------------------------------------------------------------------------
(* What the invariants depend on, and what the steps do to it.             *)

\* Steps that leave alone what an invariant speaks of.
LEMMA Frames1 ==
  /\ CallInv /\ UNCHANGED <<stage, op, ncalls, pc, call, result, mu>> => CallInv'
  /\ OnceInv /\ UNCHANGED <<net, loading, tasks, stage, op, answer>> => OnceInv'
  /\ UnsentInv /\ UNCHANGED <<pc, call, stage, net, loading, tasks>> => UnsentInv'
  /\ TurnInv /\ UNCHANGED <<conn, nconns, net, loading, tasks, resp, pc, call,
                            stage, op, answer>> => TurnInv'
<1>1. CallInv /\ UNCHANGED <<stage, op, ncalls, pc, call, result, mu>> => CallInv'
  BY DEF CallInv
<1>2. UNCHANGED <<net, loading, tasks>> =>
        Open' = Open /\ Queued' = Queued /\ Unrepeated' = Unrepeated
  BY DEF Open, Queued, Unrepeated
<1>3. OnceInv /\ UNCHANGED <<net, loading, tasks, stage, op, answer>> => OnceInv'
  BY <1>2 DEF OnceInv
<1>4. UnsentInv /\ UNCHANGED <<pc, call, stage, net, loading, tasks>> => UnsentInv'
  BY <1>2 DEF UnsentInv
<1>5. TurnInv /\ UNCHANGED <<conn, nconns, net, loading, tasks, resp, pc, call,
                            stage, op, answer>> => TurnInv'
  BY <1>2 DEF TurnInv
<1> QED
  BY <1>1, <1>3, <1>4, <1>5

\* The number of a new call is nobody's.
LEMMA NewCall ==
  ASSUME IInv, ncalls < MaxCalls
  PROVE  /\ ncalls \in Nat /\ ncalls + 1 \in Calls
         /\ stage[ncalls + 1] = "new" /\ result[ncalls + 1] = NoAnswer
         /\ \A m \in Open : m.call # ncalls + 1
         /\ \A c \in Callers : pc[c] # "idle" => call[c] # ncalls + 1
<1>1. ncalls \in Nat /\ ncalls + 1 \in Calls /\ ncalls + 1 > ncalls
  BY Bounds DEF IInv, TypeInv, Calls
<1>2. stage[ncalls + 1] = "new" /\ result[ncalls + 1] = NoAnswer
  BY <1>1 DEF IInv, CallInv
<1>3. \A m \in Open : stage[m.call] # "new"
  BY DEF IInv, OnceInv, Open
<1>4. \A c \in Callers : pc[c] # "idle" => call[c] # ncalls + 1
  <2> SUFFICES ASSUME NEW c \in Callers, pc[c] # "idle", call[c] = ncalls + 1 PROVE FALSE
    OBVIOUS
  <2>1. stage[call[c]] # "new"
    BY DEF IInv, CallInv
  <2> QED
    BY <1>2, <2>1
<1> QED
  BY <1>1, <1>2, <1>3, <1>4

\* The steps that touch what is open, and how they move it.
LEMMA OpenMoves ==
  ASSUME IInv
  PROVE  /\ \A c \in Callers : Send(c) =>
              /\ Open' = Open \cup {[conn |-> conn, call |-> call[c]]}
              /\ Queued' = Queued /\ (Unrepeated' = Unrepeated)
         /\ \A m \in net : Route(m) => Open' = Open /\ Unrepeated'
         /\ \A m \in net : Lose(m) =>
              Open' \subseteq Open /\ Queued' = Queued /\ (Unrepeated' = Unrepeated)
         /\ \A m \in loading : ChunkLoaded(m) =>
              Open' = Open /\ Queued' = Queued \cup {m} /\ Unrepeated'
         /\ \A m \in loading : ChunkLost(m) =>
              Open' \subseteq Open /\ Queued' = Queued /\ (Unrepeated' = Unrepeated)
         /\ RunTask \/ TaskThrows =>
              /\ Open' = Open \ {Head(tasks)} /\ Queued' = Queued \ {Head(tasks)}
              /\ Unrepeated'
         /\ Disable => Open' = {} /\ Queued' = {} /\ Unrepeated'
         /\ UNCHANGED <<net, loading, tasks>> => Open' = Open
<1>0. TypeInv /\ OnceInv
  BY DEF IInv
<1>1. UNCHANGED tasks => Queued' = Queued /\ (Unrepeated' = Unrepeated)
  BY DEF Queued, Unrepeated
<1>2. \A c \in Callers : Send(c) => Open' = Open \cup {[conn |-> conn, call |-> call[c]]}
  BY <1>1 DEF Send, Open, plugin, work
<1>3. ASSUME NEW m \in net, Route(m) PROVE Open' = Open /\ Unrepeated'
  <2>1. m \in Requests /\ m \notin Queued
    BY <1>0 DEF TypeInv, TypeOK, OnceInv
  <2>2. CASE tasks' = Append(tasks, m) /\ loading' = loading
    BY <1>0, <1>3, <2>1, <2>2, QueueGrows DEF Route, Open, TypeInv, OnceInv
  <2>3. CASE tasks' = tasks /\ loading' = loading \cup {m}
    BY <1>0, <1>1, <1>3, <2>3 DEF Route, Open, OnceInv
  <2> QED
    BY <1>3, <2>2, <2>3 DEF Route
<1>4. \A m \in net : Lose(m) => Open' \subseteq Open
  BY <1>1 DEF Lose, Open, plugin, work
<1>5. ASSUME NEW m \in loading, ChunkLoaded(m)
      PROVE  Open' = Open /\ Queued' = Queued \cup {m} /\ Unrepeated'
  <2>1. m \in Requests /\ m \notin Queued
    BY <1>0 DEF TypeInv, TypeOK, OnceInv
  <2> QED
    BY <1>0, <1>5, <2>1, QueueGrows DEF ChunkLoaded, Open, TypeInv, OnceInv, network
<1>6. \A m \in loading : ChunkLost(m) => Open' \subseteq Open
  BY <1>1 DEF ChunkLost, Open, network
<1>7. ASSUME RunTask \/ TaskThrows
      PROVE  /\ Open' = Open \ {Head(tasks)} /\ Queued' = Queued \ {Head(tasks)}
             /\ Unrepeated'
  <2>1. tasks # <<>> /\ tasks' = Tail(tasks) /\ net' = net /\ loading' = loading
    BY <1>7 DEF RunTask, TaskThrows
  <2>2. Queued' = Queued \ {Head(tasks)} /\ Unrepeated' /\ Head(tasks) \in Queued
    BY <1>0, <2>1, QueueShrinks DEF TypeInv, OnceInv
  <2> QED
    BY <1>0, <2>1, <2>2 DEF Open, OnceInv
<1>8. Disable => Open' = {} /\ Queued' = {} /\ Unrepeated'
  BY DEF Disable, Open, Queued, Unrepeated
<1>9. UNCHANGED <<net, loading, tasks>> => Open' = Open
  BY DEF Open, Queued
<1>10. /\ \A c \in Callers : Send(c) => UNCHANGED tasks
       /\ \A m \in net : Lose(m) => UNCHANGED tasks
       /\ \A m \in loading : ChunkLost(m) => UNCHANGED tasks
  BY DEF Send, Lose, ChunkLost, plugin, work
<1> QED
  BY <1>1, <1>2, <1>3, <1>4, <1>5, <1>6, <1>7, <1>8, <1>9, <1>10


-----------------------------------------------------------------------------
(* The invariant is kept, one part after the other.                        *)

\* The effect of call k happens.
LEMMA AppliedCall ==
  ASSUME TypeInv, CallInv, NEW k \in Calls, stage[k] # "new",
         stage' = [stage EXCEPT ![k] = "applied"],
         UNCHANGED <<op, ncalls, pc, call, result, mu>>
  PROVE  CallInv'
<1>1. \A l \in Calls : (stage'[l] = "new") <=> (stage[l] = "new")
  BY DEF TypeInv
<1> QED
  BY <1>1 DEF CallInv

\* A caller that holds the mutex is the only one beyond "lock".
LEMMA Alone ==
  ASSUME CallInv, NEW c \in Callers, pc[c] \in {"dial", "send", "recv"},
         NEW d \in Callers, pc[d] \in {"dial", "send", "recv"}
  PROVE  c = d
BY DEF CallInv

\* A caller's call returns.
LEMMA FinishedCall ==
  ASSUME TypeInv, CallInv, NEW c \in Callers, pc[c] \in {"dial", "send", "recv"},
         NEW r, Finish(c, r), UNCHANGED ncalls
  PROVE  CallInv'
<1>1. /\ pc' = [pc EXCEPT ![c] = "idle"] /\ call' = [call EXCEPT ![c] = 0]
      /\ result' = [result EXCEPT ![call[c]] = r] /\ UNCHANGED <<op, stage, answer>>
  BY DEF Finish
<1>2. call[c] \in Calls /\ call[c] <= ncalls
  BY DEF CallInv
<1>3. ASSUME NEW d \in Callers, pc'[d] # "idle"
      PROVE  /\ d # c /\ pc'[d] = pc[d] /\ call'[d] = call[d] /\ call[d] # call[c]
             /\ pc[d] \notin {"dial", "send", "recv"}
  BY <1>1, <1>3, Alone DEF TypeInv, TypeOK, CallInv
<1>4. \A k \in Calls : k > ncalls' => stage'[k] = "new" /\ result'[k] = NoAnswer
  <2> SUFFICES ASSUME NEW k \in Calls, k > ncalls
               PROVE  stage[k] = "new" /\ result'[k] = NoAnswer
    BY <1>1
  <2>1. k # call[c]
    BY <1>2, Bounds DEF TypeInv, Calls
  <2> QED
    BY <1>1, <2>1 DEF CallInv, TypeInv, TypeOK
<1>5. \A k \in Calls : k <= ncalls' => stage'[k] # "new" /\ op'[k] \in Ops
  BY <1>1 DEF CallInv
<1>6. \A d \in Callers : pc'[d] # "idle" =>
        call'[d] \in Calls /\ call'[d] <= ncalls' /\ result'[call'[d]] = NoAnswer
  BY <1>1, <1>2, <1>3 DEF CallInv, TypeInv, TypeOK
<1> QED
  BY <1>3, <1>4, <1>5, <1>6 DEF CallInv

\* Calls are numbered, and each belongs to one caller.
LEMMA CallStep == IInv /\ [Next]_vars => CallInv'
<1> SUFFICES ASSUME IInv, [Next]_vars PROVE CallInv'
  OBVIOUS
<1>0. TypeInv /\ CallInv
  BY DEF IInv
<1>1. ASSUME NEW c \in Callers, NEW o \in Ops, Invoke(c, o) PROVE CallInv'
  <2>1. /\ ncalls \in Nat /\ ncalls + 1 \in Calls /\ result[ncalls + 1] = NoAnswer
        /\ \A d \in Callers : pc[d] # "idle" => call[d] # ncalls + 1
    BY <1>1, NewCall DEF Invoke
  <2>2. /\ pc' = [pc EXCEPT ![c] = "lock"] /\ call' = [call EXCEPT ![c] = ncalls + 1]
        /\ op' = [op EXCEPT ![ncalls + 1] = o] /\ mu' = mu /\ result' = result
        /\ stage' = [stage EXCEPT ![ncalls + 1] = "invoked"] /\ ncalls' = ncalls + 1
        /\ pc[c] = "idle"
    BY <1>1 DEF Invoke
  <2>3. \A k \in Calls : k \in Nat
    BY Bounds DEF Calls
  <2>4. \A k \in Calls : k > ncalls' => stage'[k] = "new" /\ result'[k] = NoAnswer
    BY <1>0, <2>1, <2>2, <2>3 DEF CallInv, TypeInv
  <2>5. ASSUME NEW k \in Calls, k <= ncalls' PROVE stage'[k] # "new" /\ op'[k] \in Ops
    <3>1. CASE k = ncalls + 1
      BY <1>0, <2>2, <3>1 DEF TypeInv
    <3>2. CASE k # ncalls + 1
      <4>1. k <= ncalls
        BY <2>1, <2>2, <2>3, <2>5, <3>2
      <4> QED
        BY <1>0, <2>2, <3>2, <4>1 DEF CallInv, TypeInv
    <3> QED
      BY <3>1, <3>2
  <2>6. ASSUME NEW d \in Callers, pc'[d] # "idle"
        PROVE  call'[d] \in Calls /\ call'[d] <= ncalls' /\ result'[call'[d]] = NoAnswer
    <3>1. CASE d = c
      BY <1>0, <2>1, <2>2, <3>1 DEF TypeInv, TypeOK
    <3>2. CASE d # c
      <4>1. call'[d] = call[d] /\ pc'[d] = pc[d]
        BY <1>0, <2>2, <3>2 DEF TypeInv, TypeOK
      <4>2. call[d] \in Calls /\ call[d] <= ncalls /\ result[call[d]] = NoAnswer
        BY <1>0, <2>6, <4>1 DEF CallInv
      <4> QED
        BY <2>1, <2>2, <2>3, <4>1, <4>2
    <3> QED
      BY <3>1, <3>2
  <2>7. \A d, e \in Callers :
          pc'[d] # "idle" /\ pc'[e] # "idle" /\ call'[d] = call'[e] => d = e
    BY <1>0, <2>1, <2>2 DEF CallInv, TypeInv, TypeOK
  <2>8. \A d \in Callers : pc'[d] \in {"dial", "send", "recv"} => mu' = d
    BY <1>0, <2>2 DEF CallInv, TypeInv, TypeOK
  <2> QED
    BY <2>4, <2>5, <2>6, <2>7, <2>8 DEF CallInv
<1>2. ASSUME NEW c \in Callers, Lock(c) PROVE CallInv'
  <2>1. \A d \in Callers : pc[d] \notin {"dial", "send", "recv"}
    BY <1>0, <1>2, LinkAssumption DEF Lock, MuFree, CallInv
  <2> QED
    BY <1>0, <1>2, <2>1 DEF Lock, CallInv, TypeInv, TypeOK, record, bounds
<1>3. ASSUME NEW c \in Callers, Dial(c) PROVE CallInv'
  BY <1>0, <1>3 DEF Dial, CallInv, TypeInv, TypeOK, record
<1>4. ASSUME NEW c \in Callers, DialCancelled(c) \/ LinkFails(c) \/ Recv(c) PROVE CallInv'
  BY <1>0, <1>4, FinishedCall DEF DialCancelled, LinkFails, Recv, bounds
<1>5. ASSUME NEW c \in Callers, Send(c) PROVE CallInv'
  BY <1>0, <1>5 DEF Send, CallInv, TypeInv, TypeOK, record, bounds
<1>6. ASSUME NEW m \in loading, ChunkLoaded(m) PROVE CallInv'
  <2>1. m \in Open /\ stage[m.call] # "new"
    BY DEF IInv, OnceInv, Open
  <2> QED
    BY <1>0, <1>6, <2>1, OpenType, AppliedCall DEF ChunkLoaded, client, bounds
<1>7. ASSUME RunTask \/ TaskThrows PROVE CallInv'
  <2>1. Head(tasks) \in Queued /\ Head(tasks).call \in Calls
    BY <1>0, <1>7, HeadOpen DEF RunTask, TaskThrows
  <2>2. stage[Head(tasks).call] # "new"
    BY <2>1 DEF IInv, OnceInv
  <2> QED
    BY <1>0, <1>7, <2>1, <2>2, AppliedCall DEF RunTask, TaskThrows, client, bounds
<1>8. ASSUME EngineCrash PROVE CallInv'
  BY <1>0, <1>8 DEF EngineCrash, CallInv, record
<1>9. CASE UNCHANGED <<stage, op, ncalls, pc, call, result, mu>>
  BY <1>0, <1>9, Frames1
<1> QED
  BY <1>1, <1>2, <1>3, <1>4, <1>5, <1>6, <1>7, <1>8, <1>9
  DEF Next, Caller, Plugin, DialRetry, Quiet, Route, Lose, ChunkLost, TaskFails,
      TaskSilent, Break, Disable, Enable, Shutdown, vars, client, record, bounds

\* No request is ever handled in two places, or twice.
LEMMA OnceStep == IInv /\ [Next]_vars => OnceInv'
<1> SUFFICES ASSUME IInv, [Next]_vars PROVE OnceInv'
  OBVIOUS
<1>0. TypeInv /\ OnceInv
  BY DEF IInv
<1>1. ASSUME NEW c \in Callers, NEW o \in Ops, Invoke(c, o) PROVE OnceInv'
  <2>1. \A m \in Open : m.call # ncalls + 1 /\ m.call \in Calls
    BY <1>0, <1>1, NewCall, OpenType DEF Invoke
  <2>2. \A m \in Open : stage'[m.call] = stage[m.call] /\ op'[m.call] = op[m.call]
    BY <1>0, <1>1, <2>1 DEF Invoke, TypeInv
  <2>3. /\ Open' = Open /\ Queued' = Queued /\ (Unrepeated' = Unrepeated)
        /\ net' = net /\ loading' = loading /\ answer' = answer
    BY <1>1 DEF Invoke, Open, Queued, Unrepeated, network, plugin, work
  <2> QED
    BY <1>0, <2>2, <2>3 DEF OnceInv, Open
<1>2. ASSUME NEW c \in Callers, Send(c) PROVE OnceInv'
  <2> DEFINE r == [conn |-> conn, call |-> call[c]]
  <2>1. \A m \in Open : m.call # r.call
    BY <1>2 DEF Send, IInv, UnsentInv
  <2>2. /\ Open' = Open \cup {r} /\ Queued' = Queued /\ (Unrepeated' = Unrepeated)
        /\ net' = net \cup {r} /\ loading' = loading
        /\ stage' = stage /\ op' = op /\ answer' = answer
    BY <1>2, OpenMoves DEF Send, plugin, work, record
  <2>3. stage[r.call] = "invoked" /\ r \notin Open
    BY <1>2, <2>1 DEF Send, IInv, UnsentInv
  <2>4. \A m, n \in Open' : m.call = n.call => m = n
    BY <1>0, <2>1, <2>2 DEF OnceInv
  <2> QED
    BY <1>0, <2>2, <2>3, <2>4 DEF OnceInv, Open
<1>3. ASSUME NEW m \in net, Route(m) PROVE OnceInv'
  <2>1. Open' = Open /\ Unrepeated' /\ net' = net \ {m} /\ UNCHANGED <<stage, op, answer>>
    BY <1>3, OpenMoves DEF Route, record
  <2>2. m \notin loading /\ m \notin Queued /\ stage[m.call] = "invoked" /\ m \in Requests
    BY <1>0 DEF OnceInv, TypeInv, TypeOK
  <2>3. CASE op[m.call] = "FORCE_LOAD"
    <3>1. loading' = loading \cup {m} /\ Queued' = Queued
      BY <1>3, <2>3 DEF Route, Queued
    <3> QED
      BY <1>0, <2>1, <2>2, <2>3, <3>1 DEF OnceInv
  <2>4. CASE op[m.call] # "FORCE_LOAD"
    <3>1. loading' = loading /\ Queued' = Queued \cup {m}
      BY <1>0, <1>3, <2>2, <2>4, QueueGrows DEF Route, TypeInv
    <3> QED
      BY <1>0, <2>1, <2>2, <2>4, <3>1 DEF OnceInv
  <2> QED
    BY <2>3, <2>4
<1>4. ASSUME NEW m \in net, Lose(m) PROVE OnceInv'
  <2>1. /\ Open' \subseteq Open /\ Queued' = Queued /\ (Unrepeated' = Unrepeated)
        /\ net' = net \ {m} /\ loading' = loading /\ UNCHANGED <<stage, op, answer>>
    BY <1>4, OpenMoves DEF Lose, plugin, work, record
  <2> QED
    BY <1>0, <2>1 DEF OnceInv
<1>5. ASSUME NEW m \in loading, ChunkLoaded(m) PROVE OnceInv'
  <2>1. /\ Open' = Open /\ Queued' = Queued \cup {m} /\ Unrepeated'
        /\ net' = net /\ loading' = loading \ {m} /\ op' = op
        /\ stage' = [stage EXCEPT ![m.call] = "applied"]
        /\ answer' = [answer EXCEPT ![m.call] = [kind |-> "ACK", vals |-> <<>>]]
    BY <1>5, OpenMoves DEF ChunkLoaded, network
  <2>2. m \in Open /\ m \notin net /\ m \notin Queued /\ op[m.call] = "FORCE_LOAD"
        /\ m.call \in Calls
    BY <1>0, OpenType DEF OnceInv, Open
  <2>3. \A n \in Open : n # m => n.call # m.call /\ n.call \in Calls
    BY <1>0, <2>2, OpenType DEF OnceInv
  <2>4. \A n \in Open : n # m => stage'[n.call] = stage[n.call]
                                 /\ answer'[n.call] = answer[n.call]
    BY <1>0, <2>1, <2>2, <2>3 DEF TypeInv, TypeOK
  <2>5. stage'[m.call] = "applied" /\ answer'[m.call] = [kind |-> "ACK", vals |-> <<>>]
    BY <1>0, <2>1, <2>2 DEF TypeInv, TypeOK
  <2> QED
    BY <1>0, <2>1, <2>2, <2>4, <2>5 DEF OnceInv, Open
<1>6. ASSUME NEW m \in loading, ChunkLost(m) PROVE OnceInv'
  <2>1. /\ Open' \subseteq Open /\ Queued' = Queued /\ (Unrepeated' = Unrepeated)
        /\ net' = net /\ loading' = loading \ {m} /\ UNCHANGED <<stage, op, answer>>
    BY <1>6, OpenMoves DEF ChunkLost, network, record
  <2> QED
    BY <1>0, <2>1 DEF OnceInv
<1>7. ASSUME RunTask \/ TaskThrows PROVE OnceInv'
  <2> DEFINE m == Head(tasks)
  <2>1. /\ Open' = Open \ {m} /\ Queued' = Queued \ {m} /\ Unrepeated'
        /\ net' = net /\ loading' = loading /\ op' = op
        /\ stage' = [stage EXCEPT ![m.call] = "applied"]
        /\ \E a : answer' = [answer EXCEPT ![m.call] = a]
    BY <1>7, OpenMoves DEF RunTask, TaskThrows
  <2>2. m \in Queued /\ m \in Open /\ m.call \in Calls
    BY <1>0, <1>7, HeadOpen DEF RunTask, TaskThrows
  <2>3. \A n \in Open : n # m => n.call # m.call /\ n.call \in Calls
    BY <1>0, <2>2, OpenType DEF OnceInv
  <2>4. \A n \in Open : n # m => stage'[n.call] = stage[n.call]
                                 /\ answer'[n.call] = answer[n.call]
    BY <1>0, <2>1, <2>2, <2>3 DEF TypeInv, TypeOK
  <2> QED
    BY <1>0, <2>1, <2>2, <2>4 DEF OnceInv, Open
<1>8. ASSUME Disable PROVE OnceInv'
  BY <1>8, OpenMoves DEF Disable, OnceInv
<1>9. CASE UNCHANGED <<net, loading, tasks, stage, op, answer>>
  BY <1>0, <1>9, Frames1
<1> QED
  BY <1>1, <1>2, <1>3, <1>4, <1>5, <1>6, <1>7, <1>8, <1>9
  DEF Next, Caller, Plugin, DialRetry, Quiet, Lock, Dial, DialCancelled, LinkFails,
      Recv, Finish, TaskFails, TaskSilent, Break, EngineCrash, Enable, Shutdown, vars,
      network, plugin, work, record

\* Nothing is open for a call that its caller has yet to send.
LEMMA UnsentStep == IInv /\ [Next]_vars => UnsentInv'
<1> SUFFICES ASSUME IInv, [Next]_vars PROVE UnsentInv'
  OBVIOUS
<1>0. TypeInv /\ CallInv /\ UnsentInv
  BY DEF IInv
<1>1. ASSUME NEW c \in Callers, NEW o \in Ops, Invoke(c, o) PROVE UnsentInv'
  <2>1. /\ ncalls + 1 \in Calls /\ \A m \in Open : m.call # ncalls + 1
        /\ \A d \in Callers : pc[d] # "idle" => call[d] # ncalls + 1 /\ call[d] \in Calls
    BY <1>0, <1>1, NewCall DEF Invoke, CallInv
  <2>2. /\ Open' = Open /\ pc' = [pc EXCEPT ![c] = "lock"]
        /\ call' = [call EXCEPT ![c] = ncalls + 1]
        /\ stage' = [stage EXCEPT ![ncalls + 1] = "invoked"]
    BY <1>1, OpenMoves DEF Invoke, network, plugin, work
  <2> QED
    BY <1>0, <2>1, <2>2 DEF UnsentInv, TypeInv, TypeOK
<1>2. ASSUME NEW c \in Callers, Lock(c) \/ Dial(c) PROVE UnsentInv'
  <2>1. /\ Open' = Open /\ call' = call /\ stage' = stage
        /\ pc[c] \in {"lock", "dial"} /\ \A d \in Callers : d # c => pc'[d] = pc[d]
    BY <1>0, <1>2, OpenMoves
    DEF Lock, Dial, network, plugin, work, record, TypeInv, TypeOK
  <2> QED
    BY <1>0, <2>1 DEF UnsentInv
<1>3. ASSUME NEW c \in Callers, Send(c) PROVE UnsentInv'
  <2>1. /\ Open' = Open \cup {[conn |-> conn, call |-> call[c]]}
        /\ call' = call /\ stage' = stage /\ pc' = [pc EXCEPT ![c] = "recv"]
        /\ pc[c] = "send"
    BY <1>3, OpenMoves DEF Send, record
  <2>2. ASSUME NEW d \in Callers, pc'[d] \in {"lock", "dial", "send"}
        PROVE  d # c /\ pc[d] = pc'[d] /\ call[d] # call[c]
    BY <1>0, <2>1, <2>2 DEF CallInv, TypeInv, TypeOK
  <2> QED
    BY <1>0, <2>1, <2>2 DEF UnsentInv
<1>4. ASSUME NEW c \in Callers, DialCancelled(c) \/ LinkFails(c) \/ Recv(c)
      PROVE  UnsentInv'
  <2>1. /\ Open' = Open /\ stage' = stage /\ pc' = [pc EXCEPT ![c] = "idle"]
        /\ call' = [call EXCEPT ![c] = 0]
    BY <1>4, OpenMoves DEF DialCancelled, LinkFails, Recv, Finish, network, plugin, work
  <2> QED
    BY <1>0, <2>1 DEF UnsentInv, TypeInv, TypeOK
<1>5. ASSUME NEW m \in Open, m.call \in Calls, Open' \subseteq Open,
             UNCHANGED <<pc, call>>,
             stage' = [stage EXCEPT ![m.call] = "applied"] \/ stage' = stage
      PROVE  UnsentInv'
  <2>1. \A d \in Callers : pc[d] \in {"lock", "dial", "send"} =>
          m.call # call[d] /\ call[d] \in Calls
    BY <1>0 DEF UnsentInv, CallInv
  <2> QED
    BY <1>0, <1>5, <2>1 DEF UnsentInv, TypeInv
<1>6. ASSUME NEW m \in net, Route(m) \/ Lose(m) PROVE UnsentInv'
  <2>1. m \in Open /\ Open' \subseteq Open /\ UNCHANGED <<pc, call, stage>>
    BY <1>6, OpenMoves DEF Route, Lose, client, record, Open
  <2> QED
    BY <1>0, <1>5, <2>1, OpenType
<1>7. ASSUME NEW m \in loading, ChunkLoaded(m) \/ ChunkLost(m) PROVE UnsentInv'
  <2>1. m \in Open /\ Open' \subseteq Open /\ UNCHANGED <<pc, call>>
        /\ (stage' = [stage EXCEPT ![m.call] = "applied"] \/ stage' = stage)
    BY <1>7, OpenMoves DEF ChunkLoaded, ChunkLost, client, record, Open
  <2> QED
    BY <1>0, <1>5, <2>1, OpenType
<1>8. ASSUME RunTask \/ TaskThrows PROVE UnsentInv'
  <2>1. Head(tasks) \in Open /\ Open' \subseteq Open /\ UNCHANGED <<pc, call>>
        /\ stage' = [stage EXCEPT ![Head(tasks).call] = "applied"]
    BY <1>0, <1>8, OpenMoves, HeadOpen DEF RunTask, TaskThrows, client
  <2> QED
    BY <1>0, <1>5, <2>1, OpenType
<1>9. ASSUME EngineCrash PROVE UnsentInv'
  BY <1>9 DEF EngineCrash, UnsentInv
<1>10. ASSUME Disable PROVE UnsentInv'
  BY <1>0, <1>10, OpenMoves DEF Disable, UnsentInv, client, record
<1>11. CASE UNCHANGED <<pc, call, stage, net, loading, tasks>>
  BY <1>0, <1>11, Frames1
<1> QED
  BY <1>1, <1>2, <1>3, <1>4, <1>6, <1>7, <1>8, <1>9, <1>10, <1>11
  DEF Next, Caller, Plugin, DialRetry, Quiet, TaskFails, TaskSilent, Break, Enable,
      Shutdown, vars, client, network, plugin, work, record

\* A task that has run answers the caller whose request it was, if that caller
\* is still waiting on the connection; the frame decodes to the answer.
LEMMA TurnAnswered ==
  ASSUME IInv, tasks # <<>>, NEW f \in Frames, NEW a,
         Respond(Head(tasks), f) \/ resp' = resp,
         Open' = Open \ {Head(tasks)},
         stage' = [stage EXCEPT ![Head(tasks).call] = "applied"],
         answer' = [answer EXCEPT ![Head(tasks).call] = a],
         UNCHANGED <<conn, nconns, pc, call, op>>,
         "IS_CHUNK_LOADED" \notin Ops => Decode(op[Head(tasks).call], f) = a
  PROVE  TurnInv'
<1> DEFINE m == Head(tasks)
<1>1. m \in Queued /\ m \in Open /\ m.call \in Calls /\ m.conn \in Conns
  BY HeadOpen DEF IInv
<1>2. TypeInv /\ CallInv /\ TurnInv /\ stage \in [Calls -> {"new", "invoked", "applied"}]
      /\ answer \in [Calls -> Answers] /\ resp \in [Conns -> Boxes]
  BY DEF IInv, TypeInv, TypeOK
<1>3. /\ \A g \in Conns : g # m.conn => resp'[g] = resp[g]
      /\ \/ resp' = resp
         \/ /\ m.conn = conn /\ conn # 0 /\ resp[conn] = <<>>
            /\ resp'[conn] # <<>> /\ Head(resp'[conn]) = f
  BY <1>1, RespondEffect
<1>4. \A g \in Conns : g > nconns' => resp'[g] = <<>>
  <2>1. m.conn <= nconns
    BY <1>1, <1>2 DEF TurnInv
  <2>2. \A g \in Conns : g > nconns => g # m.conn
    BY <1>1, <1>2, <2>1, Bounds DEF Conns, TypeInv, TypeOK
  <2> QED
    BY <1>2, <1>3, <2>2 DEF TurnInv
<1>5. ASSUME NEW c \in Callers, call[c] \in Calls, call[c] # m.call
      PROVE  stage'[call[c]] = stage[call[c]] /\ answer'[call[c]] = answer[call[c]]
  BY <1>1, <1>2, <1>5
<1>6. ASSUME conn # 0, resp'[conn] # <<>>
      PROVE  \E c \in Callers :
               /\ pc[c] = "recv" /\ stage'[call[c]] = "applied"
               /\ \A n \in Open' : n.call # call[c]
               /\ "IS_CHUNK_LOADED" \notin Ops =>
                    Decode(op[call[c]], Head(resp'[conn])) = answer'[call[c]]
  <2>1. CASE resp' = resp
    <3>1. PICK c \in Callers :
            /\ pc[c] = "recv" /\ stage[call[c]] = "applied"
            /\ \A n \in Open : n.call # call[c]
            /\ "IS_CHUNK_LOADED" \notin Ops =>
                 Decode(op[call[c]], Head(resp[conn])) = answer[call[c]]
      BY <1>2, <1>6, <2>1 DEF TurnInv
    <3>2. call[c] \in Calls /\ call[c] # m.call
      BY <1>1, <1>2, <3>1 DEF CallInv
    <3> QED
      BY <1>5, <2>1, <3>1, <3>2
  <2>2. CASE m.conn = conn /\ Head(resp'[conn]) = f
    <3>1. PICK c \in Callers : pc[c] = "recv" /\ call[c] = m.call
      BY <1>1, <1>2, <2>2 DEF TurnInv
    <3>2. \A n \in Open' : n.call # m.call
      BY <1>1 DEF IInv, OnceInv
    <3>3. stage'[m.call] = "applied" /\ answer'[m.call] = a
      BY <1>1, <1>2
    <3> QED
      BY <2>2, <3>1, <3>2, <3>3
  <2> QED
    BY <1>3, <2>1, <2>2
<1> QED
  BY <1>2, <1>4, <1>6 DEF TurnInv

\* The client decodes the frame of a task to the answer of its effect.
LEMMA DecodeHandle ==
  ASSUME NEW k, op[k] # "IS_CHUNK_LOADED"
  PROVE  Decode(op[k], Handle(k)) = [kind |-> Handle(k).kind, vals |-> Handle(k).body]
<1>1. Handle(k) = Ack \/ \E vs : Handle(k) = Frame(vs)
  BY DEF Handle
<1> QED
  BY <1>1 DEF Decode, Ack, Frame

\* What comes back on the client's connection is for the caller waiting there.
LEMMA TurnStep == IInv /\ [Next]_vars => TurnInv'
<1> SUFFICES ASSUME IInv, [Next]_vars PROVE TurnInv'
  OBVIOUS
<1>0. TypeInv /\ CallInv /\ OnceInv /\ TurnInv
  BY DEF IInv
\* Steps that keep the connection, its box and the callers that wait.
<1>a. ASSUME UNCHANGED <<conn, nconns, resp>>, Open' \subseteq Open,
             \A c \in Callers : pc[c] = "recv" =>
               pc'[c] = "recv" /\ call'[c] = call[c] /\ op'[call[c]] = op[call[c]],
             \A c \in Callers : pc[c] = "recv" /\ (\A m \in Open : m.call # call[c]) =>
               stage'[call[c]] = stage[call[c]] /\ answer'[call[c]] = answer[call[c]]
      PROVE  TurnInv'
  <2>1. \A m \in Open' : m.conn = conn' =>
          \E c \in Callers : pc'[c] = "recv" /\ call'[c] = m.call
    BY <1>0, <1>a DEF TurnInv
  <2>2. ASSUME conn' # 0, resp'[conn'] # <<>>
        PROVE  \E c \in Callers :
                 /\ pc'[c] = "recv" /\ stage'[call'[c]] = "applied"
                 /\ \A m \in Open' : m.call # call'[c]
                 /\ "IS_CHUNK_LOADED" \notin Ops =>
                      Decode(op'[call'[c]], Head(resp'[conn'])) = answer'[call'[c]]
    <3>1. PICK c \in Callers :
            /\ pc[c] = "recv" /\ stage[call[c]] = "applied"
            /\ \A m \in Open : m.call # call[c]
            /\ "IS_CHUNK_LOADED" \notin Ops =>
                 Decode(op[call[c]], Head(resp[conn])) = answer[call[c]]
      BY <1>0, <1>a, <2>2 DEF TurnInv
    <3> QED
      BY <1>a, <3>1
  <2> QED
    BY <1>0, <1>a, <2>1, <2>2 DEF TurnInv
<1>1. ASSUME NEW c \in Callers, NEW o \in Ops, Invoke(c, o) PROVE TurnInv'
  <2>1. /\ ncalls + 1 \in Calls
        /\ \A d \in Callers : pc[d] = "recv" => call[d] # ncalls + 1 /\ call[d] \in Calls
    BY <1>0, <1>1, NewCall DEF Invoke, CallInv
  <2>2. /\ UNCHANGED <<conn, nconns, resp, answer>> /\ Open' = Open /\ pc[c] = "idle"
        /\ pc' = [pc EXCEPT ![c] = "lock"] /\ call' = [call EXCEPT ![c] = ncalls + 1]
        /\ op' = [op EXCEPT ![ncalls + 1] = o]
        /\ stage' = [stage EXCEPT ![ncalls + 1] = "invoked"]
    BY <1>1, OpenMoves DEF Invoke, network, plugin, work
  <2>3. \A d \in Callers : pc[d] = "recv" =>
          /\ pc'[d] = "recv" /\ call'[d] = call[d] /\ op'[call[d]] = op[call[d]]
          /\ stage'[call[d]] = stage[call[d]]
    BY <1>0, <2>1, <2>2 DEF TypeInv, TypeOK
  <2> QED
    BY <1>a, <2>2, <2>3
<1>2. ASSUME NEW c \in Callers, Lock(c) \/ DialCancelled(c) PROVE TurnInv'
  <2>1. /\ UNCHANGED <<conn, nconns, resp, op, stage, answer>> /\ Open' = Open
        /\ pc[c] # "recv" /\ \A d \in Callers : d # c => pc'[d] = pc[d] /\ call'[d] = call[d]
    BY <1>0, <1>2, OpenMoves
    DEF Lock, DialCancelled, Finish, network, plugin, work, record, bounds, TypeInv, TypeOK
  <2> QED
    BY <1>a, <2>1
<1>3. ASSUME NEW c \in Callers, Dial(c) PROVE TurnInv'
  <2>1. /\ Open' = Open /\ conn' = nconns + 1 /\ nconns' = nconns + 1 /\ resp' = resp
        /\ nconns \in Nat /\ nconns + 1 \in Conns
    BY <1>0, <1>3, OpenMoves, Bounds
    DEF Dial, network, plugin, work, TypeInv, TypeOK, Conns
  <2>2. \A m \in Open : m.conn \in Nat /\ m.conn <= nconns
    BY <1>0, OpenType, Bounds DEF Conns, TurnInv
  <2>3. \A g \in Conns : g \in Nat
    BY Bounds DEF Conns
  <2>4. resp[nconns + 1] = <<>> /\ \A g \in Conns : g > nconns + 1 => resp[g] = <<>>
    BY <1>0, <2>1, <2>3 DEF TurnInv
  <2>5. \A m \in Open' : m.conn <= nconns' /\ m.conn # conn'
    BY <2>1, <2>2
  <2> QED
    BY <2>1, <2>4, <2>5 DEF TurnInv
<1>4. ASSUME NEW c \in Callers, Send(c) PROVE TurnInv'
  <2> DEFINE r == [conn |-> conn, call |-> call[c]]
  <2>1. /\ Open' = Open \cup {r} /\ UNCHANGED <<conn, nconns, resp, call>>
        /\ pc' = [pc EXCEPT ![c] = "recv"] /\ pc[c] = "send"
    BY <1>4, OpenMoves DEF Send, bounds
  <2>2. conn # 0 => resp[conn] = <<>>
    <3> SUFFICES ASSUME conn # 0, resp[conn] # <<>> PROVE FALSE
      OBVIOUS
    <3>1. PICK d \in Callers : pc[d] = "recv"
      BY <1>0 DEF TurnInv
    <3> QED
      BY <1>0, <2>1, <3>1, Alone
  <2>3. pc'[c] = "recv" /\ \A d \in Callers : pc[d] = "recv" => pc'[d] = "recv"
    BY <1>0, <2>1 DEF TypeInv, TypeOK
  <2>4. \A m \in Open' : m.conn <= nconns'
    BY <1>0, <2>1 DEF TurnInv
  <2>5. \A m \in Open' : m.conn = conn' =>
          \E d \in Callers : pc'[d] = "recv" /\ call'[d] = m.call
    BY <1>0, <2>1, <2>3 DEF TurnInv
  <2> QED
    BY <1>0, <2>1, <2>2, <2>4, <2>5 DEF TurnInv
<1>5. ASSUME conn' = 0, Open' = Open, UNCHANGED <<nconns, resp>> PROVE TurnInv'
  <2>1. \A m \in Open : m.conn # 0
    BY <1>0, OpenType, Bounds DEF Conns
  <2>2. 0 <= nconns
    BY <1>0, Bounds DEF TypeInv, TypeOK
  <2> QED
    BY <1>0, <1>5, <2>1, <2>2 DEF TurnInv
<1>6. ASSUME NEW c \in Callers, LinkFails(c) PROVE TurnInv'
  BY <1>5, <1>6, OpenMoves DEF LinkFails, network, plugin, work, bounds
<1>7. ASSUME NEW c \in Callers, Recv(c) PROVE TurnInv'
  <2>1. /\ Open' = Open /\ conn' = conn /\ nconns' = nconns
        /\ resp' = [resp EXCEPT ![conn] = Tail(@)] /\ pc[c] = "recv"
        /\ conn \in Conns /\ resp[conn] # <<>> /\ resp \in [Conns -> Boxes]
    BY <1>0, <1>7, OpenMoves, Bounds
    DEF Recv, plugin, work, bounds, TypeInv, TypeOK, Conns
  <2>2. resp'[conn] = <<>> /\ \A g \in Conns : g # conn => resp'[g] = resp[g]
    BY <2>1, BoxEmptied
  <2>3. \A m \in Open : m.call # call[c]
    <3>1. conn # 0
      BY <2>1, Bounds DEF Conns
    <3>2. PICK d \in Callers : pc[d] = "recv" /\ \A m \in Open : m.call # call[d]
      BY <1>0, <2>1, <3>1 DEF TurnInv
    <3> QED
      BY <1>0, <2>1, <3>2, Alone
  <2>4. \A m \in Open : m.conn # conn
    <3> SUFFICES ASSUME NEW m \in Open, m.conn = conn PROVE FALSE
      OBVIOUS
    <3>1. PICK d \in Callers : pc[d] = "recv" /\ call[d] = m.call
      BY <1>0 DEF TurnInv
    <3> QED
      BY <1>0, <2>1, <2>3, <3>1, Alone
  <2>5. \A g \in Conns : g > nconns' => resp'[g] = <<>>
    BY <1>0, <2>1, <2>2 DEF TurnInv
  <2> QED
    BY <1>0, <2>1, <2>2, <2>4, <2>5 DEF TurnInv
<1>8. ASSUME NEW m \in net, Route(m) \/ Lose(m) PROVE TurnInv'
  <2>1. /\ Open' \subseteq Open
        /\ UNCHANGED <<conn, nconns, resp, pc, call, op, stage, answer>>
    BY <1>8, OpenMoves DEF Route, Lose, client, record, bounds
  <2> QED
    BY <1>a, <2>1
<1>9. ASSUME NEW m \in loading, ChunkLoaded(m) \/ ChunkLost(m) PROVE TurnInv'
  <2>1. /\ Open' \subseteq Open /\ UNCHANGED <<conn, nconns, resp, pc, call, op>>
        /\ \/ UNCHANGED <<stage, answer>>
           \/ /\ stage' = [stage EXCEPT ![m.call] = "applied"]
              /\ answer' = [answer EXCEPT ![m.call] = [kind |-> "ACK", vals |-> <<>>]]
    BY <1>9, OpenMoves DEF ChunkLoaded, ChunkLost, client, network, record, bounds
  <2>2. m \in Open /\ m.call \in Calls
    BY <1>0, OpenType DEF Open
  <2>3. \A c \in Callers : pc[c] = "recv" => call[c] \in Calls
    BY <1>0 DEF CallInv
  <2>4. \A c \in Callers : pc[c] = "recv" /\ (\A n \in Open : n.call # call[c]) =>
          stage'[call[c]] = stage[call[c]] /\ answer'[call[c]] = answer[call[c]]
    BY <1>0, <2>1, <2>2, <2>3 DEF TypeInv, TypeOK
  <2> QED
    BY <1>a, <2>1, <2>4
<1>10. ASSUME RunTask PROVE TurnInv'
  <2> DEFINE k == Head(tasks).call
  <2>1. tasks # <<>> /\ k \in Calls /\ Head(tasks) \in Queued
    BY <1>0, <1>10, HeadOpen DEF RunTask
  <2>2. Handle(k) \in Frames
    BY <1>0, <2>1, HandleType
  <2>3. "IS_CHUNK_LOADED" \notin Ops => op[k] # "IS_CHUNK_LOADED"
    <3>1. stage[k] # "new"
      BY <1>0, <2>1 DEF OnceInv
    <3>2. k <= ncalls
      BY <1>0, <2>1, <3>1, Bounds DEF CallInv, Calls, TypeInv
    <3> QED
      BY <1>0, <2>1, <3>2 DEF CallInv
  <2>4. "IS_CHUNK_LOADED" \notin Ops =>
          Decode(op[k], Handle(k)) = [kind |-> Handle(k).kind, vals |-> Handle(k).body]
    BY <2>3, DecodeHandle
  <2>5. Open' = Open \ {Head(tasks)}
    BY <1>10, OpenMoves
  <2> QED
    BY <1>10, <2>1, <2>2, <2>4, <2>5, TurnAnswered DEF RunTask, client, bounds
<1>11. ASSUME TaskThrows, Respond(Head(tasks), ErrorFrame) \/ resp' = resp
       PROVE  TurnInv'
  <2>1. tasks # <<>> /\ Open' = Open \ {Head(tasks)}
    BY <1>11, OpenMoves DEF TaskThrows
  <2>2. ErrorFrame \in Frames
    BY PlainType
  <2>3. Decode(op[Head(tasks).call], ErrorFrame) = Error
    BY DEF Decode, ErrorFrame
  <2> QED
    BY <1>11, <2>1, <2>2, <2>3, TurnAnswered DEF TaskThrows, client
<1>12. ASSUME EngineCrash PROVE TurnInv'
  BY <1>5, <1>12, OpenMoves DEF EngineCrash, network, plugin, work
<1>13. ASSUME Disable PROVE TurnInv'
  <2>1. Open' = {} /\ UNCHANGED <<conn, nconns, resp, pc, call, op, stage, answer>>
    BY <1>13, OpenMoves DEF Disable, client, record
  <2> QED
    BY <1>a, <2>1
<1>14. CASE UNCHANGED <<conn, nconns, net, loading, tasks, resp, pc, call, stage, op,
                        answer>>
  BY <1>0, <1>14, Frames1
<1> QED
  BY <1>1, <1>2, <1>3, <1>4, <1>6, <1>7, <1>8, <1>9, <1>10, <1>11, <1>12, <1>13, <1>14
  DEF Next, Caller, Plugin, DialRetry, Quiet, TaskFails, TaskSilent, Break, Enable,
      Shutdown, vars, client, network, plugin, work, record, bounds

\* The inductive invariant holds in every reachable state.
THEOREM Invariant == Spec => []IInv
<1>1. IInv /\ [Next]_vars => IInv'
  BY TypeStep, CallStep, OnceStep, UnsentStep, TurnStep DEF IInv
<1> QED
  BY InitInv, <1>1, PTL DEF Spec

-----------------------------------------------------------------------------
(* Theorems.                                                               *)

\* Types hold for every number of callers, calls, connections and failures: a
\* caller that sends or receives has a connection, and what it is given is a
\* well-formed answer.
THEOREM TypeCorrect == Spec => []TypeOK
<1>1. IInv => TypeOK
  BY DEF IInv, TypeInv
<1> QED
  BY Invariant, <1>1, PTL

\* Writing no blocks leaves the world alone.
LEMMA PlaceNone ==
  ASSUME TypeInv, NEW k
  PROVE  Place(k, 0) = block
BY DEF Place, TypeInv, TypeOK

\* The device's reply to a call is what the task's frame carries.
LEMMA ReplyHandle ==
  ASSUME NEW k
  PROVE  Device!Reply(k) = [kind |-> Handle(k).kind, vals |-> Handle(k).body]
<1>1. CASE op[k] = "READ"
  BY <1>1 DEF Handle, Device!Reply, Frame, Device!Data
<1>2. CASE op[k] = "BATCH_READ"
  BY <1>2 DEF Handle, Device!Reply, Frame, Device!Data
<1>3. CASE op[k] = "IS_CHUNK_LOADED"
  BY <1>3 DEF Handle, Device!Reply, Frame, Device!Data
<1>4. CASE op[k] \notin {"READ", "BATCH_READ", "IS_CHUNK_LOADED"}
  BY <1>4 DEF Handle, Device!Reply, Ack, Device!Ack
<1> QED
  BY <1>1, <1>2, <1>3, <1>4

\* A returning call of the link is a returning call of the device.
LEMMA ReturnMaps ==
  ASSUME IInv, NEW c \in Callers, pc[c] # "idle", NEW r, Finish(c, r),
         UNCHANGED <<block, ticket>>,
         \/ r = Error
         \/ stage[call[c]] = "applied" /\ r = answer[call[c]]
  PROVE  Device!Next
<1>1. call[c] \in Calls /\ result[call[c]] = NoAnswer /\ call[c] <= ncalls
  BY DEF IInv, CallInv
<1>2. stage[call[c]] # "new"
  BY <1>1 DEF IInv, CallInv
<1>3. Device!Return(call[c])
  BY <1>1, <1>2 DEF Device!Return, Finish, NoAnswer, Device!NoAnswer, Error, Device!Error
<1> QED
  BY <1>1, <1>3 DEF Device!Next, Calls, Device!Calls

\* The link implements the device, for every number of callers, calls,
\* connections, failures and restarts.  The engine's own operations are meant:
\* IS_CHUNK_LOADED, which nothing in the engine calls, is misread by the client.
THEOREM LinkImplementsDevice ==
  ASSUME "IS_CHUNK_LOADED" \notin Ops
  PROVE  Spec => ImplementsDevice
<1>1. Init => Device!Init
  BY DEF Init, Device!Init, Calls, Device!Calls, NoAnswer, Device!NoAnswer
<1>2. IInv /\ [Next]_vars => [Device!Next]_(Device!dvars)
  <2> SUFFICES ASSUME IInv, [Next]_vars PROVE Device!Next \/ UNCHANGED Device!dvars
    OBVIOUS
  <2>0. TypeInv /\ CallInv /\ OnceInv /\ Device!Calls = Calls
    BY DEF IInv, Calls, Device!Calls
  <2>1. ASSUME NEW c \in Callers, NEW o \in Ops, Invoke(c, o) PROVE Device!Next
    <3>1. ncalls + 1 \in Calls /\ stage[ncalls + 1] = "new"
      BY <2>1, NewCall DEF Invoke
    <3>2. Device!Invoke(ncalls + 1, o)
      BY <2>1, <3>1 DEF Invoke, Device!Invoke, plugin, work
    <3> QED
      BY <2>0, <3>1, <3>2 DEF Device!Next
  <2>2. ASSUME NEW c \in Callers, DialCancelled(c) \/ LinkFails(c) PROVE Device!Next
    BY <2>2, ReturnMaps DEF DialCancelled, LinkFails, plugin, work
  <2>3. ASSUME NEW c \in Callers, Recv(c) PROVE Device!Next
    <3>1. PICK d \in Callers :
            /\ pc[d] = "recv" /\ stage[call[d]] = "applied"
            /\ Decode(op[call[d]], Head(resp[conn])) = answer[call[d]]
      BY <2>3 DEF Recv, IInv, TurnInv
    <3>2. d = c
      BY <2>0, <2>3, <3>1, Alone DEF Recv
    <3> QED
      BY <2>3, <3>1, <3>2, ReturnMaps DEF Recv, plugin, work
  <2>4. ASSUME NEW m \in loading, ChunkLoaded(m) PROVE Device!Next
    <3> DEFINE k == m.call
    <3>1. k \in Calls /\ stage[k] = "invoked" /\ op[k] = "FORCE_LOAD"
      BY <2>0, OpenType DEF OnceInv, Open
    <3>2. Device!Reply(k) = [kind |-> "ACK", vals |-> <<>>]
      BY <3>1 DEF Device!Reply, Device!Ack
    <3>3. Device!Wrote(k, Device!Targets(op[k])) = block
      BY <2>0, <3>1, PlaceNone DEF Device!Wrote, Device!Targets, Place
    <3>4. Device!Apply(k)
      BY <2>0, <2>4, <3>1, <3>2, <3>3 DEF ChunkLoaded, Device!Apply, TypeInv, TypeOK
    <3> QED
      BY <2>0, <3>1, <3>4 DEF Device!Next
  <2>5. ASSUME RunTask PROVE Device!Next \/ UNCHANGED Device!dvars
    <3> DEFINE k == Head(tasks).call
    <3>1. k \in Calls /\ Head(tasks) \in Queued
      BY <2>0, <2>5, HeadOpen DEF RunTask
    <3>2. CASE op[k] = "FORCE_LOAD"
      <4>1. /\ stage[k] = "applied" /\ answer[k] = [kind |-> "ACK", vals |-> <<>>]
        BY <2>0, <3>1, <3>2 DEF OnceInv
      <4>2. Handle(k) = Ack /\ Count(op[k]) = 0
        BY <3>2 DEF Handle, Count
      <4>3. block' = block
        BY <2>0, <2>5, <4>2, PlaceNone DEF RunTask
      <4>4. stage' = stage /\ answer' = answer
        BY <2>0, <2>5, <3>1, <4>1, <4>2 DEF RunTask, Ack, TypeInv, TypeOK
      <4> QED
        BY <2>5, <4>3, <4>4 DEF RunTask, Device!dvars
    <3>3. CASE op[k] # "FORCE_LOAD"
      <4>1. stage[k] = "invoked"
        BY <2>0, <3>1, <3>3 DEF OnceInv
      <4>2. Device!Wrote(k, Device!Targets(op[k])) = Place(k, Count(op[k]))
        BY DEF Device!Wrote, Device!Targets, Place, Count
      <4>3. Device!Reply(k) = [kind |-> Handle(k).kind, vals |-> Handle(k).body]
        BY ReplyHandle
      <4>4. ticket' = (ticket \/ op[k] = "FORCE_LOAD")
        BY <2>0, <2>5, <3>3 DEF RunTask, TypeInv, TypeOK
      <4>5. Device!Apply(k)
        BY <2>5, <4>1, <4>2, <4>3, <4>4 DEF RunTask, Device!Apply
      <4> QED
        BY <2>0, <3>1, <4>5 DEF Device!Next
    <3> QED
      BY <3>2, <3>3
  <2>6. ASSUME TaskThrows PROVE Device!Next
    <3> DEFINE k == Head(tasks).call
    <3>1. k \in Calls /\ Head(tasks) \in Queued
      BY <2>0, <2>6, HeadOpen DEF TaskThrows
    <3>2. stage[k] = "invoked"
      BY <2>0, <2>6, <3>1 DEF OnceInv, TaskThrows
    <3>3. \A j : Device!Wrote(k, j) = Place(k, j)
      BY DEF Device!Wrote, Place
    <3>4. Device!Targets(op[k]) = Count(op[k]) /\ Device!Error = Error
      BY DEF Device!Targets, Count, Device!Error, Error
    <3>5. Device!ApplyPart(k)
      BY <2>6, <3>2, <3>3, <3>4 DEF TaskThrows, Device!ApplyPart
    <3> QED
      BY <2>0, <3>1, <3>5 DEF Device!Next
  <2>7. ASSUME Disable PROVE Device!Next
    BY <2>7 DEF Disable, Device!Next, Device!Unload, record
  <2>8. CASE UNCHANGED <<block, ticket, op, stage, answer, result>>
    BY <2>8 DEF Device!dvars
  <2> QED
    BY <2>1, <2>2, <2>3, <2>4, <2>5, <2>6, <2>7, <2>8
    DEF Next, Caller, Plugin, DialRetry, Quiet, Lock, Dial, Send, Route, Lose, ChunkLost,
        TaskFails, TaskSilent, Break, EngineCrash, Enable, Shutdown, vars, plugin, work,
        record
<1> QED
  BY Invariant, <1>1, <1>2, PTL DEF Spec, ImplementsDevice, Device!Spec

=============================================================================
