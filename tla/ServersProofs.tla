--------------------------- MODULE ServersProofs ----------------------------
(***************************************************************************)
(* Proofs about the processes around the executor: every variable keeps    *)
(* its type, errCh never overflows and "all servers stopped" is true as    *)
(* far as StoppedTrue says; a success that a client or a player is told of *)
(* is the statement's; a wire client that keeps to simple queries stays in *)
(* step with the server.                                                   *)
(***************************************************************************)
EXTENDS Servers, TLAPS

Ids == 1 .. (MaxAsk + 1)

Kinds == {"ssl", "startup", "password", "cancel", "query", "extended", "terminate",
          "eof", "line", "N", "ready", "done", "error"}

Msgs == [kind : Kinds, id : 0 .. (MaxAsk + 1)]

Tasks == [kind : {"hal"}, to : Conns, id : Ids] \cup [kind : {"tell"}, to : Cmds, id : {0}]

Texts == Kinds \cup {"none", "failed", "usage"}

\* TypeOK, and the types of the queues, which TLC takes from the model.
TypeInv ==
  /\ TypeOK
  /\ inbox \in [Conns -> Seq(Msgs)] /\ outbox \in [Conns -> Seq(Msgs)]
  /\ tasks \in Seq(Tasks)
  /\ msg \in [Cmds -> Texts] /\ told \in [Cmds -> Seq(Texts)]
  /\ effect \in [Conns -> [Ids -> Nat]]

Bit(b) == IF b THEN 1 ELSE 0

\* Every server that has returned sent one value to errCh, and main received
\* one for every select that it won.
StopInv ==
  /\ errCh + Bit(why = "server") + Bit(said = "stopped") =
       Bit(srv["pg"] = "gone") + Bit(srv["chat"] = "gone")
  /\ mainPc = "serve" => why = "none"
  /\ mainPc # "exited" => said = "none"

-----------------------------------------------------------------------------
(* Statements and their effects.                                           *)

HalTask(c, n) == [kind |-> "hal", to |-> c, id |-> n]

\* The HAL call of statement n of client c waits for the server thread.
Pending(c, n) == \E i \in 1 .. Len(tasks) : tasks[i] = HalTask(c, n)

Order(m) == m.kind \in {"query", "line"}

\* Statement n of client c has not been read yet.
Unread(c, n) == \E i \in 1 .. Len(inbox[c]) : Order(inbox[c][i]) /\ inbox[c][i].id = n

\* Client c has not asked for statement n yet.
Unasked(c, n) == IF c \in Wires THEN n > asked[c] ELSE cmd[c] \in {"new", "dial"}

\* Orders carry a statement's number, and a command's only one is 1.
OrderInv ==
  \A c \in Conns :
    /\ \A i \in 1 .. Len(inbox[c]) : Order(inbox[c][i]) =>
         inbox[c][i].id \in Ids /\ (c \in Cmds => inbox[c][i].id = 1)
    /\ \A i, j \in 1 .. Len(inbox[c]) :
         i # j /\ Order(inbox[c][i]) /\ Order(inbox[c][j]) =>
           inbox[c][i].id # inbox[c][j].id
    /\ hal[c] # "none" => cur[c] \in Ids /\ (c \in Cmds => cur[c] = 1)

\* A statement is unasked, unread, pending or done, in this order.
EffectInv ==
  /\ \A i, j \in 1 .. Len(tasks) : i # j /\ tasks[i].kind = "hal" => tasks[i] # tasks[j]
  /\ \A c \in Conns, n \in Ids :
       /\ effect[c][n] <= 1
       /\ Pending(c, n) => effect[c][n] = 0
       /\ Unread(c, n) => ~Pending(c, n) /\ effect[c][n] = 0
       /\ Unasked(c, n) => ~Unread(c, n) /\ ~Pending(c, n) /\ effect[c][n] = 0
  /\ \A c \in Conns : hal[c] = "ok" => effect[c][cur[c]] = 1

\* Whoever is told of a success is told the truth.
DoneInv ==
  /\ \A c \in Conns : \A i \in 1 .. Len(outbox[c]) : outbox[c][i].kind = "done" =>
       /\ outbox[c][i].id \in Ids /\ (c \in Cmds => outbox[c][i].id = 1)
       /\ effect[c][outbox[c][i].id] = 1
  /\ \A k \in Cmds : msg[k] = "done" => effect[k][1] = 1
  /\ \A k \in Cmds : \A i \in 1 .. Len(told[k]) : told[k][i] = "done" => effect[k][1] = 1

-----------------------------------------------------------------------------
(* Requests and the ends of their answers.                                 *)

\* A message that the server answers with a ReadyForQuery.
Request(m) == m.kind \in {"startup", "query", "extended"}

HasRequest(s) == \E i \in 1 .. Len(s) : Request(s[i])
HasReady(s)   == \E i \in 1 .. Len(s) : s[i].kind = "ready"

\* At most one of the client's messages asks for an answer: the start, or the
\* simple query with number n.
OneRequest(s, n) ==
  \A i \in 1 .. Len(s) : Request(s[i]) =>
    /\ s[i].kind # "extended" /\ s[i].id = n
    /\ s[i].kind = "startup" => n = 0
    /\ \A j \in 1 .. Len(s) : Request(s[j]) => i = j

\* At most one of the server's messages ends an answer, the one to request n.
OneReady(s, n) ==
  \A i \in 1 .. Len(s) : s[i].kind = "ready" =>
    s[i].id = n /\ \A j \in 1 .. Len(s) : s[j].kind = "ready" => i = j

\* A wire client that keeps to simple queries has at most one request under
\* way, the latest: unread, in execution, or answered and not yet taken.
Turn(w) ==
  /\ client[w] = "off" =>
       inbox[w] = <<>> /\ outbox[w] = <<>> /\ conn[w] = "none" /\ asked[w] = 0
  /\ ~batched[w] =>
       /\ ~stale[w]
       /\ OneRequest(inbox[w], asked[w]) /\ OneReady(outbox[w], asked[w])
       /\ HasRequest(inbox[w]) => conn[w] # "exec" /\ ~HasReady(outbox[w])
       /\ conn[w] = "exec" => cur[w] = asked[w] /\ ~HasReady(outbox[w])
       /\ client[w] = "idle" =>
            ~HasRequest(inbox[w]) /\ conn[w] # "exec" /\ ~HasReady(outbox[w])

TurnInv == \A w \in Wires : Turn(w)


-----------------------------------------------------------------------------
(* Types.                                                                  *)

\* What Append and Tail do to the elements of a sequence.
LEMMA AppendItems ==
  ASSUME NEW S, NEW s \in Seq(S), NEW x \in S
  PROVE  /\ Append(s, x) \in Seq(S) /\ Len(Append(s, x)) = Len(s) + 1 /\ Len(s) \in Nat
         /\ \A i \in 1 .. Len(Append(s, x)) :
              \/ i \in 1 .. Len(s) /\ Append(s, x)[i] = s[i]
              \/ i = Len(s) + 1 /\ Append(s, x)[i] = x
         /\ \A i \in 1 .. Len(s) : i \in 1 .. Len(Append(s, x)) /\ Append(s, x)[i] = s[i]
OBVIOUS

\* What is left of a sequence without its head.
LEMMA TailItems ==
  ASSUME NEW S, NEW s \in Seq(S), s # <<>>
  PROVE  /\ Tail(s) \in Seq(S) /\ Head(s) = s[1] /\ Head(s) \in S /\ 1 \in 1 .. Len(s)
         /\ \A i \in 1 .. Len(Tail(s)) :
              Tail(s)[i] = s[i + 1] /\ i + 1 \in 1 .. Len(s) /\ i + 1 # 1
         /\ \A i \in 1 .. Len(s) : i # 1 =>
              i - 1 \in 1 .. Len(Tail(s)) /\ Tail(s)[i - 1] = s[i]
OBVIOUS

\* An answer of the server is one message or two.
LEMMA PairItems ==
  ASSUME NEW S, NEW s \in Seq(S), NEW x \in S, NEW y \in S
  PROVE  /\ s \o <<x>> = Append(s, x)
         /\ s \o <<x, y>> = Append(Append(s, x), y)
OBVIOUS

\* Messages of the kinds that the code uses.
LEMMA MsgType ==
  ASSUME NEW k \in Kinds, NEW n \in 0 .. (MaxAsk + 1)
  PROVE  Message(k, n) \in Msgs /\ Message(k, n).kind = k /\ Message(k, n).id = n
BY DEF Message, Msgs

\* The first messages of a wire client.
LEMMA Opening ==
  ASSUME NEW o \in Openings, NEW s, s = [i \in DOMAIN o |-> Message(o[i], 0)]
  PROVE  /\ s \in Seq(Msgs)
         /\ \A i \in 1 .. Len(s) : /\ s[i].kind \notin {"query", "line", "extended"}
                                   /\ s[i].id = 0
                                   /\ s[i].kind = "startup" => i = 2
<1>0. 0 \in 0 .. (MaxAsk + 1)
  BY ServersAssumption
<1>1. CASE o = <<"ssl", "startup", "password">>
  <2>1. s = <<Message("ssl", 0), Message("startup", 0), Message("password", 0)>>
    BY <1>1
  <2>2. /\ Message("ssl", 0) \in Msgs /\ Message("startup", 0) \in Msgs
        /\ Message("password", 0) \in Msgs
    BY <1>0, MsgType DEF Kinds
  <2>3. s \in Seq(Msgs) /\ Len(s) = 3
    BY <2>1, <2>2
  <2>4. ASSUME NEW i \in 1 .. Len(s)
        PROVE  \/ i = 1 /\ s[i] = Message("ssl", 0)
               \/ i = 2 /\ s[i] = Message("startup", 0)
               \/ i = 3 /\ s[i] = Message("password", 0)
    BY <2>1, <2>3
  <2> QED
    BY <2>3, <2>4 DEF Message
<1>2. CASE o = <<"cancel">>
  <2>1. s = <<Message("cancel", 0)>>
    BY <1>2
  <2>2. Message("cancel", 0) \in Msgs
    BY <1>0, MsgType DEF Kinds
  <2>3. s \in Seq(Msgs) /\ Len(s) = 1
    BY <2>1, <2>2
  <2>4. \A i \in 1 .. Len(s) : s[i] = Message("cancel", 0)
    BY <2>1, <2>3
  <2> QED
    BY <2>3, <2>4 DEF Message
<1> QED
  BY <1>1, <1>2 DEF Openings

\* A step of main or of a server keeps the count of errCh, and no other step
\* touches it.
LEMMA StopStep ==
  TypeInv /\ StopInv /\ [Next]_vars =>
    /\ StopInv'
    /\ ctxDone' \in BOOLEAN /\ mainPc' \in {"serve", "drain", "exited"}
    /\ why' \in {"none", "signal", "server"} /\ said' \in {"none", "stopped", "timeout"}
    /\ errCh' \in 0 .. 2
    /\ srv' \in [ServerNames -> {"listen", "accept", "gone"}]
    /\ open' \in [ServerNames -> BOOLEAN]
<1> SUFFICES ASSUME TypeInv, StopInv, [Next]_vars
             PROVE  /\ StopInv'
                    /\ ctxDone' \in BOOLEAN /\ mainPc' \in {"serve", "drain", "exited"}
                    /\ why' \in {"none", "signal", "server"}
                    /\ said' \in {"none", "stopped", "timeout"}
                    /\ errCh' \in 0 .. 2
                    /\ srv' \in [ServerNames -> {"listen", "accept", "gone"}]
                    /\ open' \in [ServerNames -> BOOLEAN]
  OBVIOUS
<1>0. /\ ctxDone \in BOOLEAN /\ mainPc \in {"serve", "drain", "exited"}
      /\ why \in {"none", "signal", "server"} /\ said \in {"none", "stopped", "timeout"}
      /\ errCh \in 0 .. 2
      /\ srv \in [ServerNames -> {"listen", "accept", "gone"}]
      /\ open \in [ServerNames -> BOOLEAN]
      /\ "pg" \in ServerNames /\ "chat" \in ServerNames
  BY DEF TypeInv, TypeOK, ServerNames
<1>1. CASE UNCHANGED <<mainVars, srv, open>> /\ ctxDone' \in BOOLEAN
  BY <1>0, <1>1 DEF mainVars, StopInv, Bit
<1>2. CASE MainServerReturned
  BY <1>0, <1>2 DEF MainServerReturned, ReceiveErr, serverVars, StopInv, Bit
<1>3. CASE MainCancelled
  BY <1>0, <1>3 DEF MainCancelled, serverVars, StopInv, Bit
<1>4. CASE MainDone \/ MainTimeout
  <2>1. /\ mainPc = "drain" /\ mainPc' = "exited" /\ why' = why /\ srv' = srv
        /\ ctxDone' = ctxDone
        /\ \/ errCh > 0 /\ errCh' = errCh - 1 /\ said' = "stopped"
           \/ errCh' = errCh /\ said' = "timeout"
    BY <1>4 DEF MainDone, MainTimeout, Exit, ReceiveErr
  <2>2. open' \in [ServerNames -> BOOLEAN]
    BY <1>4 DEF MainDone, MainTimeout, Exit
  <2>3. StopInv' /\ errCh' \in 0 .. 2
    BY <1>0, <2>1 DEF StopInv, Bit
  <2> QED
    BY <1>0, <2>1, <2>2, <2>3
<1>5. ASSUME NEW s \in ServerNames, Serve(s) PROVE StopInv' /\ errCh' \in 0 .. 2
                              /\ srv' \in [ServerNames -> {"listen", "accept", "gone"}]
                              /\ open' \in [ServerNames -> BOOLEAN]
                              /\ UNCHANGED <<ctxDone, mainPc, why, said>>
  <2>1. CASE Listen(s)
    <3>1. UNCHANGED <<ctxDone, mainPc, why, said>> /\ mainPc # "exited"
      BY <2>1 DEF Listen, Alive
    <3>2. CASE /\ srv' = [srv EXCEPT ![s] = "accept"] /\ errCh' = errCh
               /\ open' = [open EXCEPT ![s] = TRUE]
      BY <1>0, <2>1, <3>1, <3>2 DEF Listen, StopInv, Bit
    <3>3. CASE /\ srv' = [srv EXCEPT ![s] = "gone"] /\ errCh' = errCh + 1
               /\ open' = open
      <4>1. srv[s] = "listen" /\ (s = "pg" \/ s = "chat")
        BY <2>1 DEF Listen, ServerNames
      <4> QED
        BY <1>0, <3>1, <3>3, <4>1 DEF StopInv, Bit
    <3> QED
      BY <2>1, <3>2, <3>3 DEF Listen, SendErr
  <2>2. CASE CloseListener(s)
    BY <1>0, <2>2 DEF CloseListener, mainVars, StopInv, Bit
  <2>3. CASE ServeReturns(s)
    BY <1>0, <2>3 DEF ServeReturns, SendErr, StopInv, Bit, ServerNames
  <2> QED
    BY <1>5, <2>1, <2>2, <2>3 DEF Serve
<1>6. CASE Signal \/ RunTask \/ UNCHANGED vars
  BY <1>0, <1>1, <1>6 DEF Signal, RunTask, serverVars, vars
<1>7. ASSUME NEW c \in Conns, Handle(c) \/ HalSilent(c) \/ HalFails(c)
      PROVE  UNCHANGED <<ctxDone, mainVars, serverVars>>
  BY <1>7 DEF Handle, HalSilent, HalFails, Accept, Startup, ReadMessage, AnswerQuery, ReadLine,
     AnswerLine
<1>8. ASSUME NEW k \in Cmds, onCommand(k) \/ Command(k) \/ Cut(k)
      PROVE  UNCHANGED <<ctxDone, mainVars, serverVars>>
  BY <1>8 DEF onCommand, Command, Connect, ConnectFails, ReadAnswer, ReadTimeout, Cut
<1>9. ASSUME NEW w \in Wires, Dial(w) \/ Ask(w) \/ Take(w) \/ Leave(w)
      PROVE  UNCHANGED <<ctxDone, mainVars, serverVars>>
  BY <1>9 DEF Dial, Ask, Take, Leave
<1> QED
  BY <1>0, <1>1, <1>2, <1>3, <1>4, <1>5, <1>6, <1>7, <1>8, <1>9
  DEF Next, Main, serverVars

\* The types that the proofs below use.
LEMMA Facts ==
  ASSUME TypeInv
  PROVE  /\ conn \in [Conns -> {"none", "backlog", "startup", "read", "exec", "end"}]
         /\ cur \in [Conns -> 0 .. (MaxAsk + 1)]
         /\ hal \in [Conns -> {"none", "sent", "silent", "ok", "failed"}]
         /\ cmd \in [Cmds -> {"new", "dial", "wait", "tell", "told"}]
         /\ cut \in [Cmds -> BOOLEAN]
         /\ client \in [Wires -> {"off", "wait", "idle", "gone"}]
         /\ asked \in [Wires -> 0 .. MaxAsk]
         /\ batched \in [Wires -> BOOLEAN] /\ stale \in [Wires -> BOOLEAN]
         /\ inbox \in [Conns -> Seq(Msgs)] /\ outbox \in [Conns -> Seq(Msgs)]
         /\ tasks \in Seq(Tasks)
         /\ msg \in [Cmds -> Texts] /\ told \in [Cmds -> Seq(Texts)]
         /\ effect \in [Conns -> [Ids -> Nat]]
         /\ MaxAsk \in Nat /\ Wires \subseteq Conns /\ Cmds \subseteq Conns
         /\ Wires \cap Cmds = {}
BY ServersAssumption DEF TypeInv, TypeOK, Conns

\* The messages that wait in a queue are messages.
LEMMA HeadType ==
  ASSUME TypeInv, NEW c \in Conns, inbox[c] # <<>>, NEW m, m = Head(inbox[c])
  PROVE  m \in Msgs /\ m.kind \in Kinds /\ m.id \in 0 .. (MaxAsk + 1)
<1>1. inbox[c] \in Seq(Msgs)
  BY Facts
<1>2. m \in Msgs
  BY <1>1, TailItems
<1> QED
  BY <1>2 DEF Msgs

\* The connections, the commands and the clients keep their types.
LEMMA PlaceStep ==
  ASSUME TypeInv, [Next]_vars
  PROVE  /\ conn' \in [Conns -> {"none", "backlog", "startup", "read", "exec", "end"}]
         /\ cur' \in [Conns -> 0 .. (MaxAsk + 1)]
         /\ hal' \in [Conns -> {"none", "sent", "silent", "ok", "failed"}]
         /\ cmd' \in [Cmds -> {"new", "dial", "wait", "tell", "told"}]
         /\ cut' \in [Cmds -> BOOLEAN]
         /\ client' \in [Wires -> {"off", "wait", "idle", "gone"}]
         /\ asked' \in [Wires -> 0 .. MaxAsk]
         /\ batched' \in [Wires -> BOOLEAN] /\ stale' \in [Wires -> BOOLEAN]
<1>0. /\ conn \in [Conns -> {"none", "backlog", "startup", "read", "exec", "end"}]
      /\ cur \in [Conns -> 0 .. (MaxAsk + 1)]
      /\ hal \in [Conns -> {"none", "sent", "silent", "ok", "failed"}]
      /\ cmd \in [Cmds -> {"new", "dial", "wait", "tell", "told"}]
      /\ cut \in [Cmds -> BOOLEAN]
      /\ client \in [Wires -> {"off", "wait", "idle", "gone"}]
      /\ asked \in [Wires -> 0 .. MaxAsk]
      /\ batched \in [Wires -> BOOLEAN] /\ stale \in [Wires -> BOOLEAN]
      /\ MaxAsk \in Nat /\ Wires \subseteq Conns /\ Cmds \subseteq Conns
  BY Facts
<1> USE DEF connVars, pluginVars, clientVars
<1>1. CASE Signal \/ MainServerReturned \/ MainCancelled \/ UNCHANGED vars
  BY <1>0, <1>1 DEF Signal, MainServerReturned, MainCancelled, vars
<1>2. CASE MainDone \/ MainTimeout
  <2>1. Exit /\ UNCHANGED <<pluginVars, clientVars>>
    BY <1>2 DEF MainDone, MainTimeout
  <2>2. 0 \in 0 .. (MaxAsk + 1)
    BY <1>0
  <2> QED
    BY <1>0, <2>1, <2>2 DEF Exit
<1>3. CASE RunTask
  BY <1>0, <1>3 DEF RunTask
<1>4. ASSUME NEW s \in ServerNames, Serve(s)
      PROVE  /\ conn' \in [Conns -> {"none", "backlog", "startup", "read", "exec", "end"}]
             /\ UNCHANGED <<cur, hal, pluginVars, clientVars>>
  BY <1>0, <1>4 DEF Serve, Listen, CloseListener, ServeReturns
<1>5. ASSUME NEW c \in Conns, Handle(c) \/ HalSilent(c) \/ HalFails(c)
      PROVE  /\ conn' \in [Conns -> {"none", "backlog", "startup", "read", "exec", "end"}]
             /\ cur' \in [Conns -> 0 .. (MaxAsk + 1)]
             /\ hal' \in [Conns -> {"none", "sent", "silent", "ok", "failed"}]
             /\ UNCHANGED <<pluginVars, clientVars>>
  <2>1. CASE Accept(c) \/ HalSilent(c) \/ HalFails(c)
    BY <1>0, <2>1 DEF Accept, HalSilent, HalFails
  <2>2. CASE Startup(c)
    BY <1>0, <2>2 DEF Startup, HandlerAt
  <2>3. CASE ReadMessage(c)
    <3>1. Head(inbox[c]).id \in 0 .. (MaxAsk + 1)
      BY <2>3, HeadType DEF ReadMessage
    <3> QED
      BY <1>0, <2>3, <3>1 DEF ReadMessage, StartExecute, HandlerAt
  <2>4. CASE AnswerQuery(c) \/ AnswerLine(c)
    BY <1>0, <2>4 DEF AnswerQuery, AnswerLine, HandlerAt
  <2>5. CASE ReadLine(c)
    <3>1. 1 \in 0 .. (MaxAsk + 1)
      BY <1>0
    <3> QED
      BY <1>0, <2>5, <3>1 DEF ReadLine, StartExecute, HandlerAt
  <2> QED
    BY <1>5, <2>1, <2>2, <2>3, <2>4, <2>5 DEF Handle
<1>6. ASSUME NEW k \in Cmds, onCommand(k) \/ Command(k) \/ Cut(k)
      PROVE  /\ conn' \in [Conns -> {"none", "backlog", "startup", "read", "exec", "end"}]
             /\ cmd' \in [Cmds -> {"new", "dial", "wait", "tell", "told"}]
             /\ cut' \in [Cmds -> BOOLEAN]
             /\ UNCHANGED <<cur, hal, clientVars>>
  BY <1>0, <1>6, ZenonT(30) DEF onCommand, Command, Connect, ConnectFails, ReadAnswer, ReadTimeout,
     Cut, Tell
<1>7. ASSUME NEW w \in Wires, Dial(w) \/ Ask(w) \/ Take(w) \/ Leave(w)
      PROVE  /\ conn' \in [Conns -> {"none", "backlog", "startup", "read", "exec", "end"}]
             /\ client' \in [Wires -> {"off", "wait", "idle", "gone"}]
             /\ asked' \in [Wires -> 0 .. MaxAsk]
             /\ batched' \in [Wires -> BOOLEAN] /\ stale' \in [Wires -> BOOLEAN]
             /\ UNCHANGED <<cur, hal, pluginVars>>
  <2>1. CASE Dial(w) \/ Leave(w)
    BY <1>0, <2>1, ZenonT(30) DEF Dial, Leave
  <2>2. CASE Ask(w)
    <3>1. asked[w] + 1 \in 0 .. MaxAsk
      BY <1>0, <2>2 DEF Ask
    <3> QED
      BY <1>0, <2>2, <3>1 DEF Ask
  <2>3. CASE Take(w)
    <3>1. PICK b : stale' = [stale EXCEPT ![w] = b] /\ b \in BOOLEAN
      <4>1. PICK i \in DOMAIN outbox[w] :
              stale' = [stale EXCEPT ![w] = @ \/ outbox[w][i].id # asked[w]
                                                \/ client[w] = "idle"]
        BY <2>3 DEF Take
      <4> QED
        BY <4>1
    <3> QED
      BY <1>0, <2>3, <3>1 DEF Take
  <2> QED
    BY <1>7, <2>1, <2>2, <2>3
<1> QED
  BY <1>0, <1>1, <1>2, <1>3, <1>4, <1>5, <1>6, <1>7 DEF Next, Main


-----------------------------------------------------------------------------
(* What a step may do to the queues.                                       *)

\* A handler reads the next message of its client.
Reads(c) ==
  \/ c \in Wires /\ (Startup(c) \/ ReadMessage(c))
  \/ c \in Cmds /\ ReadLine(c)

\* What may happen to the messages that a handler has yet to read.
LEMMA InboxMoves ==
  ASSUME TypeInv, [Next]_vars, NEW c \in Conns
  PROVE  \/ inbox'[c] = inbox[c]
         \/ inbox'[c] = <<>>
         \/ Reads(c) /\ inbox[c] # <<>> /\ inbox'[c] = Tail(inbox[c])
         \/ \E m \in Msgs : /\ ~Order(m) /\ ~Request(m)
                            /\ inbox'[c] = Append(inbox[c], m)
         \/ c \in Cmds /\ Connect(c) /\ inbox'[c] = <<Message("line", 1)>>
         \/ /\ c \in Wires /\ Dial(c)
            /\ \E o \in Openings : inbox'[c] = [i \in DOMAIN o |-> Message(o[i], 0)]
         \/ /\ c \in Wires /\ Ask(c)
            /\ inbox'[c] = Append(inbox[c], Message("query", asked[c] + 1))
         \/ /\ c \in Wires /\ Ask(c) /\ batched'[c]
            /\ \E m \in Msgs : /\ m = Message("extended", asked[c] + 1)
                               /\ inbox'[c] = Append(Append(inbox[c], m), m)
<1>0. /\ inbox \in [Conns -> Seq(Msgs)] /\ Wires \subseteq Conns /\ Cmds \subseteq Conns
      /\ MaxAsk \in Nat /\ asked \in [Wires -> 0 .. MaxAsk] /\ Wires \cap Cmds = {}
      /\ batched \in [Wires -> BOOLEAN]
  BY Facts
<1> DEFINE Goal ==
         \/ inbox'[c] = inbox[c]
         \/ inbox'[c] = <<>>
         \/ Reads(c) /\ inbox[c] # <<>> /\ inbox'[c] = Tail(inbox[c])
         \/ \E m \in Msgs : /\ ~Order(m) /\ ~Request(m)
                            /\ inbox'[c] = Append(inbox[c], m)
         \/ c \in Cmds /\ Connect(c) /\ inbox'[c] = <<Message("line", 1)>>
         \/ /\ c \in Wires /\ Dial(c)
            /\ \E o \in Openings : inbox'[c] = [i \in DOMAIN o |-> Message(o[i], 0)]
         \/ /\ c \in Wires /\ Ask(c)
            /\ inbox'[c] = Append(inbox[c], Message("query", asked[c] + 1))
         \/ /\ c \in Wires /\ Ask(c) /\ batched'[c]
            /\ \E m \in Msgs : /\ m = Message("extended", asked[c] + 1)
                               /\ inbox'[c] = Append(Append(inbox[c], m), m)
<1>1. ASSUME Signal \/ MainServerReturned \/ MainCancelled \/ RunTask \/ UNCHANGED vars
      PROVE  inbox' = inbox
  BY <1>1 DEF Signal, MainServerReturned, MainCancelled, RunTask, vars, connVars
<1>2. ASSUME MainDone \/ MainTimeout PROVE inbox'[c] = <<>>
  BY <1>2 DEF MainDone, MainTimeout, Exit
<1>3. ASSUME NEW s \in ServerNames, Serve(s) PROVE inbox' = inbox
  BY <1>3 DEF Serve, Listen, CloseListener, ServeReturns, connVars
<1>4. ASSUME NEW d \in Conns, Handle(d) \/ HalSilent(d) \/ HalFails(d)
      PROVE  \/ inbox' = inbox
             \/ Reads(d) /\ inbox[d] # <<>> /\ inbox' = [inbox EXCEPT ![d] = Tail(@)]
  BY <1>4 DEF Handle, HalSilent, HalFails, Accept, AnswerQuery, AnswerLine, Startup, ReadMessage,
     ReadLine, Read, Reads
<1>5. ASSUME NEW k \in Cmds, onCommand(k) \/ Command(k) \/ Cut(k) PROVE Goal
  <2>1. CASE onCommand(k) \/ ConnectFails(k) \/ ReadAnswer(k) \/ Cut(k)
    BY <2>1 DEF onCommand, ConnectFails, ReadAnswer, Cut, connVars
  <2>2. CASE Connect(k)
    BY <1>0, <2>2 DEF Connect
  <2>3. CASE ReadTimeout(k)
    <3>1. 0 \in 0 .. (MaxAsk + 1) /\ "eof" \in Kinds
      BY <1>0 DEF Kinds
    <3>2. PICK m \in Msgs : m = Message("eof", 0) /\ m.kind = "eof"
      BY <3>1, MsgType
    <3> QED
      BY <1>0, <2>3, <3>2 DEF ReadTimeout, Order, Request
  <2> QED
    BY <1>5, <2>1, <2>2, <2>3 DEF Command
<1>6. ASSUME NEW w \in Wires, Dial(w) PROVE Goal
  <2>1. PICK o \in Openings :
          inbox' = [inbox EXCEPT ![w] = [i \in DOMAIN o |-> Message(o[i], 0)]]
    BY <1>6 DEF Dial
  <2>2. c # w => inbox'[c] = inbox[c]
    BY <1>0, <2>1
  <2>3. c = w => inbox'[c] = [i \in DOMAIN o |-> Message(o[i], 0)]
    BY <1>0, <2>1
  <2> QED
    BY <1>6, <2>2, <2>3
<1>7. ASSUME NEW w \in Wires, Ask(w) PROVE Goal
  <2>0. asked[w] + 1 \in 0 .. (MaxAsk + 1) /\ "extended" \in Kinds
    BY <1>0 DEF Kinds
  <2>1. PICK m \in Msgs : m = Message("extended", asked[w] + 1)
    BY <2>0, MsgType
  <2>2. inbox[w] \in Seq(Msgs)
    BY <1>0
  <2>3. inbox[w] \o <<m, m>> = Append(Append(inbox[w], m), m)
    BY <2>2, PairItems
  <2>4. c # w => inbox'[c] = inbox[c]
    BY <1>0, <1>7 DEF Ask
  <2>5. \/ inbox'[w] = Append(inbox[w], Message("query", asked[w] + 1))
        \/ inbox'[w] = inbox[w] \o <<m, m>> /\ batched'[w]
    BY <1>0, <1>7, <2>1 DEF Ask
  <2> QED
    BY <1>7, <2>1, <2>3, <2>4, <2>5
<1>8. ASSUME NEW w \in Wires, Take(w) PROVE inbox' = inbox
  BY <1>8 DEF Take
<1>9. ASSUME NEW w \in Wires, Leave(w) PROVE Goal
  <2>1. 0 \in 0 .. (MaxAsk + 1) /\ "eof" \in Kinds /\ "terminate" \in Kinds
    BY <1>0 DEF Kinds
  <2>2. PICK m \in Msgs : /\ m = Message(IF client[w] = "idle" THEN "terminate" ELSE "eof", 0)
                          /\ m.kind \in {"terminate", "eof"}
    BY <2>1, MsgType
  <2>3. inbox' = [inbox EXCEPT ![w] = Append(@, m)]
    BY <1>9, <2>2 DEF Leave
  <2> QED
    BY <1>0, <2>2, <2>3 DEF Order, Request
<1> QED
  BY <1>0, <1>1, <1>2, <1>3, <1>4, <1>5, <1>6, <1>7, <1>8, <1>9 DEF Next, Main

\* What may happen to the messages that a client has yet to read.
LEMMA OutboxMoves ==
  ASSUME TypeInv, [Next]_vars, NEW c \in Conns
  PROVE  \/ outbox'[c] = outbox[c]
         \/ /\ c \in Wires /\ Startup(c)
            /\ outbox'[c] = Append(outbox[c], Message("N", 0))
         \/ /\ c \in Wires /\ Startup(c) /\ Head(inbox[c]).kind = "startup"
            /\ inbox[c] # <<>> /\ conn'[c] = "read" /\ conn[c] = "startup"
            /\ outbox'[c] = Append(outbox[c], Message("ready", 0))
         \/ /\ c \in Wires /\ ReadMessage(c) /\ Head(inbox[c]).kind \in {"query", "extended"}
            /\ inbox[c] # <<>> /\ conn'[c] = "read" /\ conn[c] = "read"
            /\ \E n \in 0 .. (MaxAsk + 1) :
                 /\ n = Head(inbox[c]).id
                 /\ outbox'[c] = Append(Append(outbox[c], Message("error", n)),
                                        Message("ready", n))
         \/ /\ c \in Wires /\ AnswerQuery(c) /\ conn[c] = "exec" /\ conn'[c] = "read"
            /\ outbox'[c] = Append(Append(outbox[c], Message(Verdict(c), cur[c])),
                                   Message("ready", cur[c]))
         \/ /\ c \in Cmds /\ ReadLine(c)
            /\ outbox'[c] = Append(outbox[c], Message("error", 1))
         \/ /\ c \in Cmds /\ AnswerLine(c)
            /\ outbox'[c] = Append(outbox[c], Message(Verdict(c), 1))
         \/ c \in Wires /\ Take(c)
<1>0. /\ outbox \in [Conns -> Seq(Msgs)] /\ Wires \subseteq Conns /\ Cmds \subseteq Conns
      /\ MaxAsk \in Nat /\ cur \in [Conns -> 0 .. (MaxAsk + 1)]
      /\ conn \in [Conns -> {"none", "backlog", "startup", "read", "exec", "end"}]
      /\ 0 \in 0 .. (MaxAsk + 1) /\ 1 \in 0 .. (MaxAsk + 1)
      /\ {"N", "ready", "error", "done"} \subseteq Kinds
  BY Facts DEF Kinds
<1>1. ASSUME Signal \/ Main \/ RunTask \/ UNCHANGED vars PROVE outbox' = outbox
  BY <1>1 DEF Signal, Main, MainServerReturned, MainCancelled, MainDone, MainTimeout,
     RunTask, vars, connVars
<1>2. ASSUME NEW s \in ServerNames, Serve(s) PROVE outbox' = outbox
  BY <1>2 DEF Serve, Listen, CloseListener, ServeReturns, connVars
<1>3. ASSUME NEW k \in Cmds, onCommand(k) \/ Command(k) \/ Cut(k) PROVE outbox' = outbox
  BY <1>3 DEF onCommand, Command, Connect, ConnectFails, ReadAnswer, ReadTimeout, Cut,
     connVars
<1>4. ASSUME NEW w \in Wires, Dial(w) \/ Ask(w) \/ Leave(w) PROVE outbox' = outbox
  BY <1>4 DEF Dial, Ask, Leave
<1>5. ASSUME NEW w \in Wires, Take(w) PROVE w # c => outbox'[c] = outbox[c]
  BY <1>0, <1>5 DEF Take
<1>6. ASSUME NEW d \in Conns, Handle(d) \/ HalSilent(d) \/ HalFails(d), d # c
      PROVE  outbox'[c] = outbox[c]
  BY <1>0, <1>6 DEF Handle, HalSilent, HalFails, Accept, AnswerQuery, AnswerLine, Startup,
     ReadMessage, ReadLine, Send
<1>7. CASE HalSilent(c) \/ HalFails(c) \/ Accept(c)
  BY <1>7 DEF HalSilent, HalFails, Accept
<1>8. CASE c \in Wires /\ Startup(c)
  <2>1. Message("N", 0) \in Msgs /\ Message("ready", 0) \in Msgs /\ outbox[c] \in Seq(Msgs)
    BY <1>0, MsgType
  <2>2. /\ outbox[c] \o <<Message("N", 0)>> = Append(outbox[c], Message("N", 0))
        /\ outbox[c] \o <<Message("ready", 0)>> = Append(outbox[c], Message("ready", 0))
    BY <2>1, PairItems
  <2> QED
    BY <1>0, <1>8, <2>2 DEF Startup, Send, HandlerAt
<1>9. CASE c \in Wires /\ ReadMessage(c)
  <2>1. PICK n : n = Head(inbox[c]).id
    OBVIOUS
  <2>2. n \in 0 .. (MaxAsk + 1)
    BY <1>9, <2>1, HeadType DEF ReadMessage
  <2>3. Message("error", n) \in Msgs /\ Message("ready", n) \in Msgs /\ outbox[c] \in Seq(Msgs)
    BY <1>0, <2>2, MsgType
  <2>4. outbox[c] \o <<Message("error", n), Message("ready", n)>> =
          Append(Append(outbox[c], Message("error", n)), Message("ready", n))
    BY <2>3, PairItems
  <2>5. CASE outbox' = outbox
    BY <2>5
  <2>6. CASE /\ Head(inbox[c]).kind \in {"query", "extended"}
             /\ Send(c, Replies("error", n)) /\ conn' = conn
    <3>1. outbox'[c] = outbox[c] \o <<Message("error", n), Message("ready", n)>>
      BY <1>0, <2>6 DEF Send, Replies
    <3>2. inbox[c] # <<>> /\ conn[c] = "read"
      BY <1>9 DEF ReadMessage
    <3> QED
      BY <1>9, <2>1, <2>2, <2>4, <2>6, <3>1, <3>2
  <2> QED
    BY <1>9, <2>1, <2>5, <2>6 DEF ReadMessage
<1>10. CASE c \in Wires /\ AnswerQuery(c)
  <2>1. Verdict(c) \in Kinds /\ cur[c] \in 0 .. (MaxAsk + 1)
    BY <1>0 DEF Verdict
  <2>2. /\ Message(Verdict(c), cur[c]) \in Msgs /\ Message("ready", cur[c]) \in Msgs
        /\ outbox[c] \in Seq(Msgs)
    BY <1>0, <2>1, MsgType
  <2>3. outbox[c] \o <<Message(Verdict(c), cur[c]), Message("ready", cur[c])>> =
          Append(Append(outbox[c], Message(Verdict(c), cur[c])), Message("ready", cur[c]))
    BY <2>2, PairItems
  <2> QED
    BY <1>0, <1>10, <2>3 DEF AnswerQuery, Send, Replies, HandlerAt
<1>11. CASE c \in Cmds /\ ReadLine(c)
  <2>1. Message("error", 1) \in Msgs /\ outbox[c] \in Seq(Msgs)
    BY <1>0, MsgType
  <2>2. outbox[c] \o <<Message("error", 1)>> = Append(outbox[c], Message("error", 1))
    BY <2>1, PairItems
  <2> QED
    BY <1>0, <1>11, <2>2 DEF ReadLine, Send
<1>12. CASE c \in Cmds /\ AnswerLine(c)
  <2>1. Message(Verdict(c), 1) \in Msgs /\ outbox[c] \in Seq(Msgs)
    BY <1>0, MsgType DEF Verdict
  <2>2. outbox[c] \o <<Message(Verdict(c), 1)>> = Append(outbox[c], Message(Verdict(c), 1))
    BY <2>1, PairItems
  <2> QED
    BY <1>0, <1>12, <2>2 DEF AnswerLine, Send
<1> QED
  BY <1>1, <1>2, <1>3, <1>4, <1>5, <1>6, <1>7, <1>8, <1>9, <1>10, <1>11, <1>12
  DEF Next, Handle

\* The handler of c reads statement n and starts it.
Starts(c, n) ==
  /\ StartExecute(c, n) /\ Reads(c) /\ inbox[c] # <<>> /\ inbox'[c] = Tail(inbox[c])
  /\ Order(Head(inbox[c])) /\ Head(inbox[c]).id = n

\* The text that command k shows the player: the engine's answer or a failure.
Heard(k, m) == m = "failed" \/ (outbox[k] # <<>> /\ m = Head(outbox[k]).kind)

\* What may happen to the tasks of the server thread, to the HAL calls and to
\* the messages for the players.
LEMMA TaskMoves ==
  ASSUME TypeInv, OrderInv, [Next]_vars
  PROVE  \/ RunTask
         \/ /\ \E c \in Conns, n \in Ids : Starts(c, n)
            /\ UNCHANGED <<effect, msg, told>>
         \/ /\ \E k \in Cmds, m \in Texts : Heard(k, m) /\ Tell(k, m)
            /\ UNCHANGED <<effect, hal, cur>>
         \/ /\ UNCHANGED <<tasks, effect, msg>>
            /\ \/ told' = told
               \/ \E k \in Cmds : told' = [told EXCEPT ![k] = <<"usage">>]
            /\ \A c \in Conns : \/ hal'[c] = hal[c] /\ cur'[c] = cur[c]
                                \/ hal'[c] = "none"
                                \/ /\ hal'[c] \in {"silent", "failed"} /\ hal[c] # "none"
                                   /\ cur'[c] = cur[c]
<1>0. /\ hal \in [Conns -> {"none", "sent", "silent", "ok", "failed"}] /\ Wires \subseteq Conns
      /\ Cmds \subseteq Conns /\ MaxAsk \in Nat /\ outbox \in [Conns -> Seq(Msgs)]
      /\ inbox \in [Conns -> Seq(Msgs)]
  BY Facts
<1> DEFINE Rest ==
      /\ UNCHANGED <<tasks, effect, msg, told>>
      /\ \A c \in Conns : \/ hal'[c] = hal[c] /\ cur'[c] = cur[c]
                          \/ hal'[c] = "none"
                          \/ /\ hal'[c] \in {"silent", "failed"} /\ hal[c] # "none"
                             /\ cur'[c] = cur[c]
<1> USE DEF connVars, pluginVars
<1>1. ASSUME Signal \/ Main \/ UNCHANGED vars PROVE Rest
  BY <1>1 DEF Signal, Main, MainServerReturned, MainCancelled, MainDone, MainTimeout,
     Exit, vars
<1>2. ASSUME NEW s \in ServerNames, Serve(s) PROVE Rest
  BY <1>2 DEF Serve, Listen, CloseListener, ServeReturns
<1>3. ASSUME NEW w \in Wires, Dial(w) \/ Ask(w) \/ Take(w) \/ Leave(w) PROVE Rest
  BY <1>3 DEF Dial, Ask, Take, Leave
<1>4. ASSUME NEW c \in Conns, HalSilent(c) \/ HalFails(c) \/ Accept(c) \/ Startup(c)
                              \/ AnswerQuery(c) \/ AnswerLine(c)
      PROVE  Rest
  BY <1>0, <1>4 DEF HalSilent, HalFails, Accept, Startup, AnswerQuery, AnswerLine
<1>5. ASSUME NEW c \in Conns, inbox[c] # <<>>, Order(Head(inbox[c]))
      PROVE  Head(inbox[c]).id \in Ids /\ (c \in Cmds => Head(inbox[c]).id = 1)
  <2>1. inbox[c] \in Seq(Msgs)
    BY <1>0
  <2>2. Head(inbox[c]) = inbox[c][1] /\ 1 \in 1 .. Len(inbox[c])
    BY <1>5, <2>1, TailItems
  <2> QED
    BY <1>5, <2>2 DEF OrderInv
<1>6. ASSUME NEW c \in Wires, ReadMessage(c)
      PROVE  \/ Rest
             \/ (\E n \in Ids : Starts(c, n)) /\ UNCHANGED <<effect, msg, told>>
  <2>1. CASE /\ Head(inbox[c]).kind = "query"
             /\ StartExecute(c, Head(inbox[c]).id)
    <3>1. inbox[c] # <<>> /\ inbox'[c] = Tail(inbox[c]) /\ Reads(c) /\ Order(Head(inbox[c]))
          /\ UNCHANGED <<effect, msg, told>>
      BY <1>0, <1>6, <2>1 DEF ReadMessage, Read, Reads, Order
    <3>2. Head(inbox[c]).id \in Ids
      BY <1>0, <1>5, <3>1
    <3> QED
      BY <2>1, <3>1, <3>2 DEF Starts
  <2> QED
    BY <1>6, <2>1 DEF ReadMessage
<1>7. ASSUME NEW c \in Cmds, ReadLine(c)
      PROVE  \/ Rest
             \/ (\E n \in Ids : Starts(c, n)) /\ UNCHANGED <<effect, msg, told>>
  <2>1. CASE Head(inbox[c]).kind = "line" /\ StartExecute(c, 1)
    <3>1. inbox[c] # <<>> /\ inbox'[c] = Tail(inbox[c]) /\ Reads(c) /\ Order(Head(inbox[c]))
          /\ UNCHANGED <<effect, msg, told>>
      BY <1>0, <1>7, <2>1 DEF ReadLine, Read, Reads, Order
    <3>2. Head(inbox[c]).id \in Ids /\ Head(inbox[c]).id = 1
      BY <1>0, <1>5, <3>1
    <3> QED
      BY <2>1, <3>1, <3>2 DEF Starts
  <2> QED
    BY <1>7, <2>1 DEF ReadLine
<1>8. ASSUME NEW k \in Cmds, ConnectFails(k) \/ ReadAnswer(k) \/ ReadTimeout(k)
      PROVE  /\ \E m \in Texts : Heard(k, m) /\ Tell(k, m)
             /\ UNCHANGED <<effect, hal, cur>>
  <2>1. "failed" \in Texts
    BY DEF Texts
  <2>2. ASSUME outbox[k] # <<>> PROVE Head(outbox[k]).kind \in Texts
    <3>1. outbox[k] \in Seq(Msgs)
      BY <1>0
    <3>2. Head(outbox[k]) \in Msgs
      BY <2>2, <3>1, TailItems
    <3> QED
      BY <3>2 DEF Msgs, Texts
  <2> QED
    BY <1>8, <2>1, <2>2 DEF ConnectFails, ReadAnswer, ReadTimeout, Heard
<1>9. ASSUME NEW k \in Cmds, Connect(k) \/ Cut(k) PROVE Rest
  BY <1>9 DEF Connect, Cut
<1>10. ASSUME NEW k \in Cmds, onCommand(k)
       PROVE  /\ UNCHANGED <<tasks, effect, msg, hal, cur>>
              /\ told' = told \/ told' = [told EXCEPT ![k] = <<"usage">>]
  BY <1>10 DEF onCommand
<1> QED
  BY <1>0, <1>1, <1>2, <1>3, <1>4, <1>6, <1>7, <1>8, <1>9, <1>10
  DEF Next, Handle, Command

\* Every client has its two queues.
LEMMA QueueFrames ==
  ASSUME TypeInv, [Next]_vars
  PROVE  inbox' = [c \in Conns |-> inbox'[c]] /\ outbox' = [c \in Conns |-> outbox'[c]]
<1>0. inbox \in [Conns -> Seq(Msgs)] /\ outbox \in [Conns -> Seq(Msgs)]
  BY Facts
<1> USE DEF connVars
<1>1. CASE UNCHANGED <<inbox, outbox>>
  BY <1>0, <1>1
<1>2. ASSUME NEW c, NEW v, inbox' = [inbox EXCEPT ![c] = v]
      PROVE  inbox' = [d \in Conns |-> inbox'[d]]
  BY <1>0, <1>2
<1>3. ASSUME NEW c, NEW v, outbox' = [outbox EXCEPT ![c] = v]
      PROVE  outbox' = [d \in Conns |-> outbox'[d]]
  BY <1>0, <1>3
<1>4. ASSUME Signal \/ MainServerReturned \/ MainCancelled \/ RunTask \/ UNCHANGED vars
      PROVE  UNCHANGED <<inbox, outbox>>
  BY <1>4 DEF Signal, MainServerReturned, MainCancelled, RunTask, vars
<1>5. CASE MainDone \/ MainTimeout
  BY <1>0, <1>5 DEF MainDone, MainTimeout, Exit
<1>6. ASSUME NEW s \in ServerNames, Serve(s) PROVE UNCHANGED <<inbox, outbox>>
  BY <1>6, SMTT(30) DEF Serve, Listen, CloseListener, ServeReturns
<1>7. ASSUME NEW c \in Conns, Handle(c) \/ HalSilent(c) \/ HalFails(c)
      PROVE  /\ inbox' = inbox \/ \E v : inbox' = [inbox EXCEPT ![c] = v]
             /\ outbox' = outbox \/ \E v : outbox' = [outbox EXCEPT ![c] = v]
  BY <1>7 DEF Handle, HalSilent, HalFails, Accept, AnswerQuery, AnswerLine, Startup, ReadMessage,
     ReadLine, Read, Send
<1>8. ASSUME NEW k \in Cmds, onCommand(k) \/ Command(k) \/ Cut(k)
      PROVE  /\ inbox' = inbox \/ \E v : inbox' = [inbox EXCEPT ![k] = v]
             /\ outbox' = outbox
  BY <1>8 DEF onCommand, Command, Connect, ConnectFails, ReadAnswer, ReadTimeout, Cut
<1>9. ASSUME NEW w \in Wires, Dial(w) \/ Ask(w) \/ Take(w) \/ Leave(w)
      PROVE  /\ inbox' = inbox \/ \E v : inbox' = [inbox EXCEPT ![w] = v]
             /\ outbox' = outbox \/ \E v : outbox' = [outbox EXCEPT ![w] = v]
  BY <1>9 DEF Dial, Ask, Take, Leave
<1> QED
  BY <1>0, <1>1, <1>2, <1>3, <1>4, <1>5, <1>6, <1>7, <1>8, <1>9 DEF Next, Main

\* The queues keep their types.
LEMMA QueueStep ==
  ASSUME TypeInv, OrderInv, [Next]_vars
  PROVE  /\ inbox' \in [Conns -> Seq(Msgs)] /\ outbox' \in [Conns -> Seq(Msgs)]
         /\ tasks' \in Seq(Tasks)
         /\ msg' \in [Cmds -> Texts] /\ told' \in [Cmds -> Seq(Texts)]
         /\ effect' \in [Conns -> [Ids -> Nat]]
<1>0. /\ inbox \in [Conns -> Seq(Msgs)] /\ outbox \in [Conns -> Seq(Msgs)]
      /\ tasks \in Seq(Tasks) /\ msg \in [Cmds -> Texts] /\ told \in [Cmds -> Seq(Texts)]
      /\ effect \in [Conns -> [Ids -> Nat]]
      /\ Wires \subseteq Conns /\ Cmds \subseteq Conns
      /\ MaxAsk \in Nat /\ cur \in [Conns -> 0 .. (MaxAsk + 1)]
      /\ asked \in [Wires -> 0 .. MaxAsk]
      /\ 0 \in 0 .. (MaxAsk + 1) /\ 1 \in 0 .. (MaxAsk + 1)
      /\ {"N", "ready", "error", "done", "query", "line"} \subseteq Kinds
  BY Facts DEF Kinds
<1>1. ASSUME NEW c \in Conns PROVE inbox'[c] \in Seq(Msgs)
  <2>1. inbox[c] \in Seq(Msgs)
    BY <1>0
  <2>2. ASSUME c \in Wires PROVE Message("query", asked[c] + 1) \in Msgs
    <3>1. asked[c] + 1 \in 0 .. (MaxAsk + 1)
      BY <1>0, <2>2
    <3> QED
      BY <1>0, <3>1, MsgType
  <2>3. Message("line", 1) \in Msgs
    BY <1>0, MsgType
  <2>4. \A o \in Openings : [i \in DOMAIN o |-> Message(o[i], 0)] \in Seq(Msgs)
    BY Opening
  <2>5. \A s \in Seq(Msgs), m \in Msgs : Append(s, m) \in Seq(Msgs) /\ <<m>> \in Seq(Msgs)
    OBVIOUS
  <2>6. \A s \in Seq(Msgs) : s # <<>> => Tail(s) \in Seq(Msgs)
    OBVIOUS
  <2>7. <<>> \in Seq(Msgs)
    OBVIOUS
  <2> QED
    BY <2>1, <2>2, <2>3, <2>4, <2>5, <2>6, <2>7, InboxMoves
<1>2. ASSUME NEW c \in Conns PROVE outbox'[c] \in Seq(Msgs)
  <2>1. outbox[c] \in Seq(Msgs) /\ cur[c] \in 0 .. (MaxAsk + 1) /\ Verdict(c) \in Kinds
    BY <1>0 DEF Verdict
  <2>2. \A s \in Seq(Msgs), m \in Msgs : Append(s, m) \in Seq(Msgs)
    OBVIOUS
  <2>3. CASE c \in Wires /\ Take(c)
    <3>1. PICK i \in DOMAIN outbox[c] :
            outbox' = [outbox EXCEPT ![c] = SubSeq(@, i + 1, Len(@))]
      BY <2>3 DEF Take
    <3>2. outbox'[c] = SubSeq(outbox[c], i + 1, Len(outbox[c]))
      BY <1>0, <3>1
    <3>3. i \in Nat /\ Len(outbox[c]) \in Nat /\ i <= Len(outbox[c]) /\ i >= 1
      BY <2>1, <3>1
    <3> QED
      BY <2>1, <3>2, <3>3
  <2>4. ASSUME NEW k \in Kinds, NEW n \in 0 .. (MaxAsk + 1)
        PROVE  Append(outbox[c], Message(k, n)) \in Seq(Msgs)
    BY <2>1, <2>2, <2>4, MsgType
  <2>5. ASSUME NEW k \in Kinds, NEW n \in 0 .. (MaxAsk + 1)
        PROVE  Append(Append(outbox[c], Message(k, n)), Message("ready", n)) \in Seq(Msgs)
    BY <1>0, <2>2, <2>4, <2>5, MsgType
  <2>6. \/ outbox'[c] = outbox[c]
        \/ c \in Wires /\ Take(c)
        \/ \E k \in Kinds, n \in 0 .. (MaxAsk + 1) :
             \/ outbox'[c] = Append(outbox[c], Message(k, n))
             \/ outbox'[c] = Append(Append(outbox[c], Message(k, n)), Message("ready", n))
    BY <1>0, <2>1, OutboxMoves
  <2> QED
    BY <2>1, <2>3, <2>4, <2>5, <2>6
<1>3. inbox' \in [Conns -> Seq(Msgs)] /\ outbox' \in [Conns -> Seq(Msgs)]
  <2>1. inbox' = [c \in Conns |-> inbox'[c]] /\ outbox' = [c \in Conns |-> outbox'[c]]
    BY QueueFrames
  <2> QED
    BY <1>1, <1>2, <2>1
<1>4. CASE RunTask
  <2>1. PICK t \in Tasks : t = Head(tasks)
    BY <1>0, <1>4, TailItems DEF RunTask
  <2>2. tasks' \in Seq(Tasks) /\ msg' = msg
    BY <1>0, <1>4, TailItems DEF RunTask
  <2>3. CASE t.kind = "hal"
    <3>1. t.to \in Conns /\ t.id \in Ids
      BY <2>1, <2>3 DEF Tasks
    <3>2. told' = told /\ effect' = [effect EXCEPT ![t.to][t.id] = effect[t.to][t.id] + 1]
      BY <1>4, <2>1, <2>3 DEF RunTask
    <3>3. effect' \in [Conns -> [Ids -> Nat]]
      BY <1>0, <3>1, <3>2
    <3> QED
      BY <1>0, <1>3, <2>2, <3>2, <3>3
  <2>4. CASE t.kind = "tell"
    <3>1. t.to \in Cmds
      BY <2>1, <2>4 DEF Tasks
    <3>2. /\ told' = [told EXCEPT ![t.to] = Append(told[t.to], msg[t.to])]
          /\ effect' = effect
      BY <1>4, <2>1, <2>4 DEF RunTask
    <3>3. Append(told[t.to], msg[t.to]) \in Seq(Texts)
      BY <1>0, <3>1
    <3>4. told' \in [Cmds -> Seq(Texts)]
      BY <1>0, <3>1, <3>2, <3>3
    <3> QED
      BY <1>0, <1>3, <2>2, <3>2, <3>4
  <2> QED
    BY <1>4, <2>1, <2>3, <2>4 DEF RunTask
<1>5. ASSUME NEW c \in Conns, NEW n \in Ids, Starts(c, n) PROVE tasks' \in Seq(Tasks)
  <2>1. PICK t \in Tasks : t = [kind |-> "hal", to |-> c, id |-> n]
    BY DEF Tasks
  <2> QED
    BY <1>0, <1>5, <2>1 DEF Starts, StartExecute
<1>6. ASSUME NEW k \in Cmds, NEW m \in Texts, Tell(k, m)
      PROVE  tasks' \in Seq(Tasks) /\ msg' \in [Cmds -> Texts] /\ told' = told
  <2>1. PICK t \in Tasks : t = [kind |-> "tell", to |-> k, id |-> 0]
    BY DEF Tasks
  <2> QED
    BY <1>0, <1>6, <2>1 DEF Tell
<1>7. ASSUME NEW k \in Cmds, told' = [told EXCEPT ![k] = <<"usage">>]
      PROVE  told' \in [Cmds -> Seq(Texts)]
  <2>1. <<"usage">> \in Seq(Texts)
    BY DEF Texts
  <2> QED
    BY <1>0, <1>7, <2>1
<1>8. \/ RunTask
      \/ /\ \E c \in Conns, n \in Ids : Starts(c, n)
         /\ UNCHANGED <<effect, msg, told>>
      \/ /\ \E k \in Cmds, m \in Texts : Tell(k, m)
         /\ UNCHANGED effect
      \/ /\ UNCHANGED <<tasks, effect, msg>>
         /\ \/ told' = told
            \/ \E k \in Cmds : told' = [told EXCEPT ![k] = <<"usage">>]
  BY TaskMoves
<1> QED
  BY <1>0, <1>3, <1>4, <1>5, <1>6, <1>7, <1>8


-----------------------------------------------------------------------------
(* Statements and their effects.                                           *)

\* The order at the head of a queue carries its statement's number.
LEMMA HeadOrder ==
  ASSUME TypeInv, OrderInv, NEW c \in Conns, inbox[c] # <<>>, Order(Head(inbox[c]))
  PROVE  /\ Head(inbox[c]).id \in Ids /\ (c \in Cmds => Head(inbox[c]).id = 1)
         /\ Unread(c, Head(inbox[c]).id)
<1>1. inbox[c] \in Seq(Msgs)
  BY Facts
<1>2. Head(inbox[c]) = inbox[c][1] /\ 1 \in 1 .. Len(inbox[c])
  BY <1>1, TailItems
<1> QED
  BY <1>2 DEF OrderInv, Unread

\* Orders are numbered apart.
LEMMA OrderStep == TypeInv /\ OrderInv /\ EffectInv /\ [Next]_vars => OrderInv'
<1> SUFFICES ASSUME TypeInv, OrderInv, EffectInv, [Next]_vars, NEW c \in Conns
             PROVE
    /\ \A i \in 1 .. Len(inbox'[c]) : Order(inbox'[c][i]) =>
         inbox'[c][i].id \in Ids /\ (c \in Cmds => inbox'[c][i].id = 1)
    /\ \A i, j \in 1 .. Len(inbox'[c]) :
         i # j /\ Order(inbox'[c][i]) /\ Order(inbox'[c][j]) =>
           inbox'[c][i].id # inbox'[c][j].id
    /\ hal'[c] # "none" => cur'[c] \in Ids /\ (c \in Cmds => cur'[c] = 1)
  BY DEF OrderInv
<1>0. /\ inbox \in [Conns -> Seq(Msgs)] /\ inbox[c] \in Seq(Msgs) /\ MaxAsk \in Nat
      /\ hal \in [Conns -> {"none", "sent", "silent", "ok", "failed"}]
      /\ cur \in [Conns -> 0 .. (MaxAsk + 1)] /\ asked \in [Wires -> 0 .. MaxAsk]
      /\ Wires \cap Cmds = {}
  BY Facts
<1>1. hal'[c] # "none" => cur'[c] \in Ids /\ (c \in Cmds => cur'[c] = 1)
  <2>1. hal[c] # "none" => cur[c] \in Ids /\ (c \in Cmds => cur[c] = 1)
    BY DEF OrderInv
  <2>2. CASE RunTask
    <3>1. cur' = cur /\ (hal'[c] # "none" => hal[c] # "none")
      BY <1>0, <2>2 DEF RunTask
    <3> QED
      BY <2>1, <3>1
  <2>3. ASSUME NEW d \in Conns, NEW n \in Ids, Starts(d, n)
        PROVE  hal'[c] # "none" => cur'[c] \in Ids /\ (c \in Cmds => cur'[c] = 1)
    <3>1. d \in Cmds => n = 1
      BY <2>3, HeadOrder DEF Starts
    <3> QED
      BY <1>0, <2>1, <2>3, <3>1 DEF Starts, StartExecute
  <2> QED
    BY <2>1, <2>2, <2>3, TaskMoves
<1> DEFINE G(s) ==
      /\ \A i \in 1 .. Len(s) : Order(s[i]) =>
           s[i].id \in Ids /\ (c \in Cmds => s[i].id = 1)
      /\ \A i, j \in 1 .. Len(s) :
           i # j /\ Order(s[i]) /\ Order(s[j]) => s[i].id # s[j].id
<1>2. G(inbox[c])
  BY DEF OrderInv
<1> SUFFICES G(inbox'[c])
  BY <1>1
<1>3. CASE inbox'[c] = <<>>
  BY <1>3
<1>4. CASE inbox[c] # <<>> /\ inbox'[c] = Tail(inbox[c])
  <2> DEFINE s == inbox[c]
             u == Tail(s)
  <2>1. \A i \in 1 .. Len(u) : u[i] = s[i + 1] /\ i + 1 \in 1 .. Len(s)
    BY <1>0, <1>4, TailItems
  <2>2. \A i, j \in 1 .. Len(u) : i # j => i + 1 # j + 1
    OBVIOUS
  <2>3. G(s)
    BY <1>2
  <2> HIDE DEF s, u
  <2>4. G(u)
    <3>1. ASSUME NEW i \in 1 .. Len(u), NEW j \in 1 .. Len(u), i # j, Order(u[i]), Order(u[j])
          PROVE  u[i].id # u[j].id
      <4>1. u[i] = s[i + 1] /\ u[j] = s[j + 1] /\ i + 1 # j + 1
            /\ i + 1 \in 1 .. Len(s) /\ j + 1 \in 1 .. Len(s)
        BY <2>1, <2>2, <3>1
      <4> QED
        BY <2>3, <3>1, <4>1
    <3> QED
      BY <2>1, <2>3, <3>1
  <2> QED
    BY <1>4, <2>4 DEF s, u
\* A message at the end of a queue that is no order, or the next one.
<1>5. ASSUME NEW s \in Seq(Msgs), G(s), NEW m \in Msgs,
             Order(m) => /\ m.id \in Ids /\ (c \in Cmds => m.id = 1)
                         /\ \A i \in 1 .. Len(s) : Order(s[i]) => s[i].id # m.id
      PROVE  G(Append(s, m))
  <2> DEFINE u == Append(s, m)
  <2>1. \A i \in 1 .. Len(u) : \/ i \in 1 .. Len(s) /\ u[i] = s[i]
                               \/ i = Len(s) + 1 /\ u[i] = m
    BY AppendItems
  <2> HIDE DEF u
  <2>2. ASSUME NEW i \in 1 .. Len(u), NEW j \in 1 .. Len(u), i # j, Order(u[i]), Order(u[j])
        PROVE  u[i].id # u[j].id
    <3>1. /\ \/ i \in 1 .. Len(s) /\ u[i] = s[i]
             \/ i = Len(s) + 1 /\ u[i] = m
          /\ \/ j \in 1 .. Len(s) /\ u[j] = s[j]
             \/ j = Len(s) + 1 /\ u[j] = m
      BY <2>1
    <3> QED
      BY <1>5, <2>2, <3>1
  <2>3. \A i \in 1 .. Len(u) : Order(u[i]) => u[i].id \in Ids /\ (c \in Cmds => u[i].id = 1)
    BY <1>5, <2>1
  <2>4. G(u)
    BY <2>2, <2>3
  <2> QED
    BY <2>4 DEF u
<1>6. ASSUME NEW m \in Msgs, ~Order(m), inbox'[c] = Append(inbox[c], m) PROVE G(inbox'[c])
  <2> HIDE DEF G
  <2> QED
    BY <1>0, <1>2, <1>5, <1>6
<1>7. CASE inbox'[c] = <<Message("line", 1)>>
  <2>1. 1 \in Ids /\ Message("line", 1).id = 1
    BY <1>0 DEF Ids, Message
  <2>2. Len(inbox'[c]) = 1 /\ inbox'[c][1] = Message("line", 1)
    BY <1>7
  <2>3. \A i \in 1 .. 1 : i = 1
    OBVIOUS
  <2> QED
    BY <2>1, <2>2, <2>3
<1>8. ASSUME NEW o \in Openings, inbox'[c] = [i \in DOMAIN o |-> Message(o[i], 0)]
      PROVE  G(inbox'[c])
  <2>1. \A i \in 1 .. Len(inbox'[c]) : ~Order(inbox'[c][i])
    BY <1>8, Opening DEF Order
  <2> QED
    BY <2>1
<1>9. ASSUME c \in Wires, Ask(c), inbox'[c] = Append(inbox[c], Message("query", asked[c] + 1))
      PROVE  G(inbox'[c])
  <2>1. PICK n : n = asked[c] + 1
    OBVIOUS
  <2>2. n \in Ids /\ n \in 0 .. (MaxAsk + 1) /\ n > asked[c] /\ "query" \in Kinds
    BY <1>0, <1>9, <2>1 DEF Ids, Kinds
  <2>3. PICK m \in Msgs : m = Message("query", n) /\ m.id = n
    BY <2>2, MsgType
  <2>4. ~Unread(c, n)
    BY <1>9, <2>2 DEF EffectInv, Unasked
  <2>5. \A i \in 1 .. Len(inbox[c]) : Order(inbox[c][i]) => inbox[c][i].id # m.id
    BY <2>3, <2>4 DEF Unread
  <2> HIDE DEF G
  <2>6. G(Append(inbox[c], m))
    BY <1>0, <1>2, <1>5, <1>9, <2>2, <2>3, <2>5
  <2> QED
    BY <1>9, <2>1, <2>3, <2>6
<1>10. ASSUME NEW m \in Msgs, m.kind = "extended",
              inbox'[c] = Append(Append(inbox[c], m), m)
       PROVE  G(inbox'[c])
  <2>1. ~Order(m) /\ Append(inbox[c], m) \in Seq(Msgs)
    BY <1>0, <1>10 DEF Order
  <2> HIDE DEF G
  <2>2. G(Append(inbox[c], m))
    BY <1>0, <1>2, <1>5, <2>1
  <2> QED
    BY <1>5, <1>10, <2>1, <2>2
<1>11. \A n : Message("extended", n).kind = "extended"
  BY DEF Message
<1> HIDE DEF G
<1> QED
  BY <1>2, <1>3, <1>4, <1>6, <1>7, <1>8, <1>9, <1>10, <1>11, InboxMoves

\* A statement becomes unread when its client asks for it, and is read once.
LEMMA UnreadMoves ==
  ASSUME TypeInv, OrderInv, [Next]_vars, NEW c \in Conns, NEW n \in Ids, Unread(c, n)'
  PROVE  \/ Unread(c, n) /\ ~Starts(c, n)
         \/ c \in Cmds /\ Connect(c)
         \/ c \in Wires /\ Ask(c) /\ n = asked[c] + 1
<1>0. inbox[c] \in Seq(Msgs)
  BY Facts
<1>1. PICK i \in 1 .. Len(inbox'[c]) : Order(inbox'[c][i]) /\ inbox'[c][i].id = n
  BY DEF Unread
<1>2. CASE inbox'[c] = inbox[c]
  <2>1. ~Starts(c, n)
    <3>1. Len(inbox'[c]) = Len(inbox[c]) /\ Len(inbox[c]) \in Nat
      BY <1>0, <1>2
    <3>2. ASSUME Starts(c, n) PROVE Len(inbox'[c]) = Len(inbox[c]) - 1
      BY <1>0, <3>2 DEF Starts
    <3> QED
      BY <3>1, <3>2
  <2> QED
    BY <1>1, <1>2, <2>1 DEF Unread
<1>3. CASE inbox'[c] = <<>>
  BY <1>1, <1>3
<1>4. CASE inbox[c] # <<>> /\ inbox'[c] = Tail(inbox[c])
  <2>1. inbox'[c][i] = inbox[c][i + 1] /\ i + 1 \in 1 .. Len(inbox[c]) /\ i + 1 # 1
        /\ Head(inbox[c]) = inbox[c][1] /\ 1 \in 1 .. Len(inbox[c])
    BY <1>0, <1>1, <1>4, TailItems
  <2>2. Unread(c, n)
    BY <1>1, <2>1 DEF Unread
  <2>3. Order(Head(inbox[c])) => Head(inbox[c]).id # n
    BY <1>1, <2>1 DEF OrderInv
  <2> QED
    BY <2>2, <2>3 DEF Starts
\* The queue grows at its end.
<1>5. ASSUME NEW s \in Seq(Msgs), NEW m \in Msgs, NEW j \in 1 .. Len(Append(s, m)),
             ~Order(m) \/ m.id # n, Order(Append(s, m)[j]), Append(s, m)[j].id = n
      PROVE  j \in 1 .. Len(s) /\ Append(s, m)[j] = s[j]
  BY <1>5, AppendItems
<1>6. ASSUME NEW m \in Msgs, ~Order(m) \/ m.id # n, inbox'[c] = Append(inbox[c], m)
      PROVE  Unread(c, n) /\ ~Starts(c, n)
  <2>1. Unread(c, n)
    BY <1>0, <1>1, <1>5, <1>6 DEF Unread
  <2>2. ~Starts(c, n)
    <3>1. Len(inbox'[c]) = Len(inbox[c]) + 1 /\ Len(inbox[c]) \in Nat
      BY <1>0, <1>6, AppendItems
    <3>2. ASSUME Starts(c, n) PROVE Len(inbox'[c]) = Len(inbox[c]) - 1
      BY <1>0, <3>2 DEF Starts
    <3> QED
      BY <3>1, <3>2
  <2> QED
    BY <2>1, <2>2
<1>7. ASSUME NEW o \in Openings, inbox'[c] = [j \in DOMAIN o |-> Message(o[j], 0)]
      PROVE  FALSE
  BY <1>1, <1>7, Opening DEF Order
<1>8. ASSUME c \in Wires, Ask(c), n # asked[c] + 1,
             inbox'[c] = Append(inbox[c], Message("query", asked[c] + 1))
      PROVE  Unread(c, n) /\ ~Starts(c, n)
  <2>1. asked[c] + 1 \in 0 .. (MaxAsk + 1) /\ "query" \in Kinds
    BY <1>8, Facts DEF Kinds
  <2>2. PICK m \in Msgs : m = Message("query", asked[c] + 1) /\ m.id = asked[c] + 1
    BY <2>1, MsgType
  <2> QED
    BY <1>6, <1>8, <2>2
<1>9. ASSUME NEW m \in Msgs, m.kind = "extended",
             inbox'[c] = Append(Append(inbox[c], m), m)
      PROVE  Unread(c, n) /\ ~Starts(c, n)
  <2>1. ~Order(m) /\ Append(inbox[c], m) \in Seq(Msgs)
    BY <1>0, <1>9 DEF Order
  <2>2. i \in 1 .. Len(Append(inbox[c], m)) /\ inbox'[c][i] = Append(inbox[c], m)[i]
    BY <1>1, <1>5, <1>9, <2>1
  <2>3. i \in 1 .. Len(inbox[c]) /\ Append(inbox[c], m)[i] = inbox[c][i]
    BY <1>0, <1>1, <1>5, <2>1, <2>2
  <2>4. Unread(c, n)
    BY <1>1, <2>2, <2>3 DEF Unread
  <2>5. ~Starts(c, n)
    <3> SUFFICES ASSUME inbox[c] # <<>>, Append(Append(inbox[c], m), m) = Tail(inbox[c])
                 PROVE FALSE
      BY <1>9 DEF Starts
    <3>1. Len(inbox[c]) \in Nat /\ Len(Tail(inbox[c])) = Len(inbox[c]) - 1
          /\ Len(Append(inbox[c], m)) = Len(inbox[c]) + 1
      BY <1>0
    <3>2. Len(Append(Append(inbox[c], m), m)) = Len(Append(inbox[c], m)) + 1
      BY <2>1
    <3> QED
      BY <3>1, <3>2
  <2> QED
    BY <2>4, <2>5
<1>10. \A k : Message("extended", k).kind = "extended"
  BY DEF Message
<1> QED
  BY <1>2, <1>3, <1>4, <1>6, <1>7, <1>8, <1>9, <1>10, InboxMoves

\* A task joins the queue of the server thread at its end, or leaves it at its
\* head.
LEMMA PendingMoves ==
  ASSUME TypeInv, OrderInv, EffectInv, [Next]_vars, NEW c \in Conns, NEW n \in Ids,
         Pending(c, n)'
  PROVE  \/ Pending(c, n) /\ ~(RunTask /\ Head(tasks) = HalTask(c, n))
         \/ Starts(c, n) /\ ~RunTask
<1>0. tasks \in Seq(Tasks)
  BY Facts
<1>1. PICK i \in 1 .. Len(tasks') : tasks'[i] = HalTask(c, n)
  BY DEF Pending
<1>2. ASSUME RunTask
      PROVE  tasks # <<>> /\ tasks' = Tail(tasks) /\ Len(tasks') = Len(tasks) - 1
             /\ Len(tasks) \in Nat
  BY <1>0, <1>2 DEF RunTask
<1>3. CASE RunTask
  <2>1. /\ tasks'[i] = tasks[i + 1] /\ i + 1 \in 1 .. Len(tasks) /\ i + 1 # 1
        /\ Head(tasks) = tasks[1] /\ 1 \in 1 .. Len(tasks)
    BY <1>0, <1>1, <1>2, <1>3, TailItems
  <2>2. tasks[i + 1].kind = "hal"
    BY <1>1, <2>1 DEF HalTask
  <2>3. tasks[i + 1] # tasks[1]
    BY <2>1, <2>2 DEF EffectInv
  <2> QED
    BY <1>1, <2>1, <2>3 DEF Pending
<1>4. ASSUME NEW t \in Tasks, tasks' = Append(tasks, t)
      PROVE  ~RunTask /\ (Pending(c, n) \/ t = HalTask(c, n))
  <2>1. Len(tasks') = Len(tasks) + 1 /\ Len(tasks) \in Nat
    BY <1>0, <1>4, AppendItems
  <2>2. ~RunTask
    BY <1>2, <2>1
  <2>3. \/ i \in 1 .. Len(tasks) /\ tasks'[i] = tasks[i]
        \/ tasks'[i] = t
    BY <1>0, <1>1, <1>4, AppendItems
  <2> QED
    BY <1>1, <2>2, <2>3 DEF Pending
<1>5. ASSUME NEW d \in Conns, NEW m \in Ids, Starts(d, m)
      PROVE  \/ Pending(c, n) /\ ~RunTask
             \/ Starts(c, n) /\ ~RunTask
  <2>1. PICK t \in Tasks : t = HalTask(d, m)
    BY DEF Tasks, HalTask
  <2>2. tasks' = Append(tasks, t)
    BY <1>5, <2>1 DEF Starts, StartExecute, HalTask
  <2>3. t = HalTask(c, n) => d = c /\ m = n
    BY <2>1 DEF HalTask
  <2> QED
    BY <1>4, <1>5, <2>2, <2>3
<1>6. ASSUME NEW k \in Cmds, NEW m \in Texts, Tell(k, m)
      PROVE  Pending(c, n) /\ ~RunTask
  <2>1. PICK t \in Tasks : t = [kind |-> "tell", to |-> k, id |-> 0]
    BY DEF Tasks
  <2>2. tasks' = Append(tasks, t) /\ t # HalTask(c, n)
    BY <1>6, <2>1 DEF Tell, HalTask
  <2> QED
    BY <1>4, <2>2
<1>7. CASE tasks' = tasks
  BY <1>1, <1>2, <1>7 DEF Pending
<1> QED
  BY <1>3, <1>5, <1>6, <1>7, TaskMoves

\* A statement takes effect when the server thread runs its task.
LEMMA EffectMoves ==
  ASSUME TypeInv, OrderInv, [Next]_vars, NEW c \in Conns, NEW n \in Ids
  PROVE  \/ effect'[c][n] = effect[c][n] /\ ~(RunTask /\ Head(tasks) = HalTask(c, n))
         \/ /\ RunTask /\ Head(tasks) = HalTask(c, n) /\ Pending(c, n)
            /\ effect'[c][n] = effect[c][n] + 1
<1>0. /\ tasks \in Seq(Tasks) /\ effect \in [Conns -> [Ids -> Nat]]
      /\ effect[c][n] \in Nat
  BY Facts
<1>1. ASSUME RunTask, NEW t, t = Head(tasks)
      PROVE  /\ t \in Tasks /\ t = tasks[1] /\ 1 \in 1 .. Len(tasks)
             /\ Len(tasks') # Len(tasks) /\ Len(tasks') # Len(tasks) + 1
  <2>1. tasks # <<>> /\ tasks' = Tail(tasks)
    BY <1>1 DEF RunTask
  <2>2. Len(tasks') = Len(tasks) - 1 /\ Len(tasks) \in Nat
    BY <1>0, <2>1
  <2>3. Head(tasks) = tasks[1] /\ Head(tasks) \in Tasks /\ 1 \in 1 .. Len(tasks)
    BY <1>0, <2>1, TailItems, ZenonT(30)
  <2> QED
    BY <1>1, <2>2, <2>3
<1>2. CASE RunTask
  <2>1. PICK t \in Tasks : t = Head(tasks) /\ t = tasks[1] /\ 1 \in 1 .. Len(tasks)
    BY <1>1, <1>2
  <2>2. CASE t.kind = "hal"
    <3>1. t.to \in Conns /\ t.id \in Ids /\ t = HalTask(t.to, t.id)
      BY <2>1, <2>2 DEF Tasks, HalTask
    <3>2. effect' = [effect EXCEPT ![t.to][t.id] = effect[t.to][t.id] + 1]
      BY <1>2, <2>1, <2>2 DEF RunTask
    <3>3. t = HalTask(c, n) <=> t.to = c /\ t.id = n
      BY <3>1 DEF HalTask
    <3>4. CASE t.to = c /\ t.id = n
      <4>1. effect'[c][n] = effect[c][n] + 1
        BY <1>0, <3>2, <3>4
      <4> QED
        BY <1>2, <2>1, <3>3, <3>4, <4>1 DEF Pending
    <3>5. CASE ~(t.to = c /\ t.id = n)
      <4>1. effect'[c][n] = effect[c][n]
        BY <1>0, <3>1, <3>2, <3>5
      <4> QED
        BY <2>1, <3>3, <3>5, <4>1
    <3> QED
      BY <3>4, <3>5
  <2>3. CASE t.kind = "tell"
    <3>1. effect' = effect /\ t # HalTask(c, n)
      BY <1>2, <2>1, <2>3 DEF RunTask, HalTask
    <3> QED
      BY <2>1, <3>1
  <2> QED
    BY <1>2, <2>1, <2>2, <2>3 DEF RunTask
<1>3. CASE ~RunTask
  BY <1>3, TaskMoves
<1> QED
  BY <1>2, <1>3

\* What has not been asked for had not been asked for before.
LEMMA UnaskedKept ==
  ASSUME TypeInv, [Next]_vars, NEW c \in Conns, NEW n \in Ids, Unasked(c, n)'
  PROVE  /\ Unasked(c, n) /\ ~(c \in Cmds /\ Connect(c))
         /\ ~(c \in Wires /\ Ask(c) /\ n = asked[c] + 1)
<1>0. /\ asked \in [Wires -> 0 .. MaxAsk] /\ MaxAsk \in Nat /\ n \in Nat
      /\ cmd \in [Cmds -> {"new", "dial", "wait", "tell", "told"}]
      /\ Conns = Wires \cup Cmds /\ Wires \cap Cmds = {}
  <2>1. n \in Nat
    BY Facts DEF Ids
  <2>2. Conns = Wires \cup Cmds /\ Wires \cap Cmds = {}
    BY Facts DEF Conns
  <2> QED
    BY Facts, <2>1, <2>2
<1>1. /\ \A w \in Wires : asked'[w] = asked[w] \/ (Ask(w) /\ asked'[w] = asked[w] + 1)
      /\ \A w \in Wires : Ask(w) => asked'[w] = asked[w] + 1
  <2>1. ASSUME NEW w \in Wires, Ask(w)
        PROVE  /\ asked'[w] = asked[w] + 1
               /\ \A v \in Wires : v # w => asked'[v] = asked[v]
    BY <1>0, <2>1 DEF Ask
  <2>2. (\E w \in Wires : Ask(w)) \/ asked' = asked
    BY ZenonT(30) DEF Next, Signal, Main, MainServerReturned, MainCancelled, MainDone, MainTimeout,
       RunTask, Serve, Listen, CloseListener, ServeReturns, Handle, HalSilent, HalFails, Accept,
       AnswerQuery, AnswerLine, Startup, ReadMessage, ReadLine, onCommand, Command,
       Connect, ConnectFails, ReadAnswer, ReadTimeout, Cut, Dial, Take, Leave,
       clientVars, vars
  <2> QED
    BY <2>1, <2>2
<1>2. ASSUME NEW k \in Cmds, cmd'[k] \in {"new", "dial"}
      PROVE  cmd[k] \in {"new", "dial"} /\ ~Connect(k)
  <2>1. ~Connect(k)
    BY <1>0, <1>2 DEF Connect
  <2>2. CASE RunTask
    BY <1>0, <1>2, <2>1, <2>2 DEF RunTask
  <2>3. ASSUME NEW j \in Cmds, onCommand(j) \/ Command(j) PROVE cmd[k] \in {"new", "dial"}
    BY <1>0, <1>2, <2>3, SMTT(30) DEF onCommand, Command, Connect, ConnectFails, ReadAnswer,
       ReadTimeout, Tell
  <2>4. RunTask \/ (\E j \in Cmds : onCommand(j) \/ Command(j)) \/ cmd' = cmd
    BY ZenonT(30) DEF Next, Signal, Main, MainServerReturned, MainCancelled, MainDone, MainTimeout,
       Serve, Listen, CloseListener, ServeReturns, Handle, HalSilent, HalFails, Accept,
       AnswerQuery, AnswerLine, Startup, ReadMessage, ReadLine, Cut, Dial, Ask, Take,
       Leave, pluginVars, vars
  <2> QED
    BY <1>2, <2>1, <2>2, <2>3, <2>4
<1>3. CASE c \in Wires
  <2>1. n > asked'[c]
    BY <1>3 DEF Unasked
  <2>2. asked[c] \in Nat
    BY <1>0, <1>3
  <2> QED
    BY <1>0, <1>1, <1>3, <2>1, <2>2 DEF Unasked
<1>4. CASE c \in Cmds
  BY <1>0, <1>2, <1>4 DEF Unasked
<1> QED
  BY <1>0, <1>3, <1>4

\* No two tasks of the server thread are the same HAL call.
LEMMA TasksApart ==
  ASSUME TypeInv, OrderInv, EffectInv, [Next]_vars
  PROVE  \A i, j \in 1 .. Len(tasks') :
           i # j /\ tasks'[i].kind = "hal" => tasks'[i] # tasks'[j]
<1>0. tasks \in Seq(Tasks)
  BY Facts
<1>1. \A i, j \in 1 .. Len(tasks) : i # j /\ tasks[i].kind = "hal" => tasks[i] # tasks[j]
  BY DEF EffectInv
<1> SUFFICES ASSUME NEW i \in 1 .. Len(tasks'), NEW j \in 1 .. Len(tasks'), i # j,
                    tasks'[i].kind = "hal"
             PROVE  tasks'[i] # tasks'[j]
  OBVIOUS
<1>2. CASE RunTask
  <2>1. tasks' = Tail(tasks) /\ tasks # <<>>
    BY <1>2 DEF RunTask
  <2>2. \A k \in 1 .. Len(tasks') : tasks'[k] = tasks[k + 1] /\ k + 1 \in 1 .. Len(tasks)
    BY <1>0, <2>1, TailItems
  <2>3. i + 1 # j + 1
    OBVIOUS
  <2> QED
    BY <1>1, <2>2, <2>3
<1>3. ASSUME NEW t \in Tasks, tasks' = Append(tasks, t),
             t.kind = "hal" => \A k \in 1 .. Len(tasks) : tasks[k] # t
      PROVE  tasks'[i] # tasks'[j]
  <2>1. /\ \/ i \in 1 .. Len(tasks) /\ tasks'[i] = tasks[i]
           \/ i = Len(tasks) + 1 /\ tasks'[i] = t
        /\ \/ j \in 1 .. Len(tasks) /\ tasks'[j] = tasks[j]
           \/ j = Len(tasks) + 1 /\ tasks'[j] = t
    BY <1>0, <1>3, AppendItems
  <2> QED
    BY <1>1, <1>3, <2>1
<1>4. ASSUME NEW c \in Conns, NEW n \in Ids, Starts(c, n) PROVE tasks'[i] # tasks'[j]
  <2>1. PICK t \in Tasks : t = HalTask(c, n)
    BY DEF Tasks, HalTask
  <2>2. tasks' = Append(tasks, t)
    BY <1>4, <2>1 DEF Starts, StartExecute, HalTask
  <2>3. ~Pending(c, n)
    BY <1>4, HeadOrder DEF Starts, EffectInv
  <2> QED
    BY <1>3, <2>1, <2>2, <2>3 DEF Pending
<1>5. ASSUME NEW k \in Cmds, NEW m \in Texts, Tell(k, m) PROVE tasks'[i] # tasks'[j]
  <2>1. PICK t \in Tasks : t = [kind |-> "tell", to |-> k, id |-> 0]
    BY DEF Tasks
  <2> QED
    BY <1>3, <1>5, <2>1 DEF Tell
<1>6. CASE tasks' = tasks
  BY <1>1, <1>6
<1> QED
  BY <1>2, <1>4, <1>5, <1>6, TaskMoves

\* What has taken effect stays so.
LEMMA EffectKept ==
  ASSUME TypeInv, OrderInv, EffectInv, [Next]_vars, NEW c \in Conns, NEW n \in Ids,
         effect[c][n] = 1
  PROVE  effect'[c][n] = 1
<1>1. ~Pending(c, n)
  BY DEF EffectInv
<1> QED
  BY <1>1, EffectMoves

\* No statement takes effect twice: a statement is unread, pending and done in
\* turn, and a handler knows of a success only after the task has run.
LEMMA EffectStep == TypeInv /\ OrderInv /\ EffectInv /\ [Next]_vars => EffectInv'
<1> SUFFICES ASSUME TypeInv, OrderInv, EffectInv, [Next]_vars PROVE EffectInv'
  OBVIOUS
<1>0. /\ tasks \in Seq(Tasks) /\ effect \in [Conns -> [Ids -> Nat]] /\ MaxAsk \in Nat
      /\ hal \in [Conns -> {"none", "sent", "silent", "ok", "failed"}]
      /\ cur \in [Conns -> 0 .. (MaxAsk + 1)]
  BY Facts
<1>1. \A i, j \in 1 .. Len(tasks') : i # j /\ tasks'[i].kind = "hal" => tasks'[i] # tasks'[j]
  BY TasksApart
<1>2. ASSUME NEW c \in Conns, NEW n \in Ids
      PROVE  /\ effect'[c][n] <= 1
             /\ Pending(c, n)' => effect'[c][n] = 0
             /\ Unread(c, n)' => ~Pending(c, n)' /\ effect'[c][n] = 0
             /\ Unasked(c, n)' => /\ ~Unread(c, n)' /\ ~Pending(c, n)'
                                  /\ effect'[c][n] = 0
  <2>0. effect[c][n] \in Nat
    BY <1>0
  <2>1. /\ effect[c][n] <= 1
        /\ Pending(c, n) => effect[c][n] = 0
        /\ Unread(c, n) => ~Pending(c, n) /\ effect[c][n] = 0
        /\ Unasked(c, n) => ~Unread(c, n) /\ ~Pending(c, n) /\ effect[c][n] = 0
    BY DEF EffectInv
  <2>2. Starts(c, n) => Unread(c, n)
    BY HeadOrder DEF Starts
  <2>3. \/ effect'[c][n] = effect[c][n] /\ ~(RunTask /\ Head(tasks) = HalTask(c, n))
        \/ /\ RunTask /\ Head(tasks) = HalTask(c, n) /\ Pending(c, n)
           /\ effect'[c][n] = effect[c][n] + 1
    BY EffectMoves
  <2>4. Pending(c, n)' =>
          \/ Pending(c, n) /\ ~(RunTask /\ Head(tasks) = HalTask(c, n))
          \/ Starts(c, n) /\ ~RunTask
    BY PendingMoves
  <2>5. effect'[c][n] <= 1
    BY <2>0, <2>1, <2>3
  <2>6. Pending(c, n)' => effect'[c][n] = 0
    BY <2>1, <2>2, <2>3, <2>4
  <2>7. c \in Cmds /\ Connect(c) => Unasked(c, n)
    <3>1. c \in Cmds => c \notin Wires
      BY Facts
    <3> QED
      BY <3>1 DEF Connect, Unasked
  <2>8. c \in Wires /\ Ask(c) /\ n = asked[c] + 1 => Unasked(c, n)
    <3>1. c \in Wires => asked[c] \in 0 .. MaxAsk
      BY Facts
    <3> QED
      BY <1>0, <3>1 DEF Unasked
  <2>9. ASSUME Unread(c, n)' PROVE ~Pending(c, n)' /\ effect'[c][n] = 0
    <3>1. \/ Unread(c, n) /\ ~Starts(c, n)
          \/ Unasked(c, n)
      BY <2>7, <2>8, <2>9, UnreadMoves
    <3> QED
      BY <2>1, <2>2, <2>3, <2>4, <3>1
  <2>10. ASSUME Unasked(c, n)'
         PROVE  ~Unread(c, n)' /\ ~Pending(c, n)' /\ effect'[c][n] = 0
    <3>1. Unasked(c, n)
      BY <2>10, UnaskedKept
    <3>2. ~Unread(c, n)'
      BY <2>1, <2>10, <3>1, UnaskedKept, UnreadMoves
    <3> QED
      BY <2>1, <2>2, <2>3, <2>4, <3>1, <3>2
  <2> QED
    BY <2>5, <2>6, <2>9, <2>10
<1>3. ASSUME NEW c \in Conns, hal'[c] = "ok" PROVE effect'[c][cur'[c]] = 1
  <2>1. hal[c] # "none" => cur[c] \in Ids
    BY DEF OrderInv
  <2>2. hal[c] = "ok" => effect[c][cur[c]] = 1
    BY DEF EffectInv
  <2>3. hal[c] = "ok" => effect'[c][cur[c]] = 1
    BY <2>1, <2>2, EffectKept
  <2>4. CASE RunTask
    <3>1. cur' = cur
      BY <2>4 DEF RunTask
    <3>2. CASE hal[c] = "ok"
      BY <2>3, <3>1, <3>2
    <3>3. CASE hal[c] # "ok"
      <4>1. PICK t : t = Head(tasks)
        OBVIOUS
      <4>2. t.kind = "hal" /\ hal[t.to] = "sent" /\ cur[t.to] = t.id /\ t.to = c
        BY <1>0, <1>3, <2>4, <3>3, <4>1 DEF RunTask
      <4>3. t \in Tasks
        BY <1>0, <2>4, <4>1, TailItems DEF RunTask
      <4>4. t = HalTask(c, cur[c]) /\ cur[c] \in Ids
        BY <4>2, <4>3 DEF Tasks, HalTask
      <4>5. Pending(c, cur[c]) /\ effect'[c][cur[c]] = effect[c][cur[c]] + 1
        BY <2>4, <4>1, <4>4, EffectMoves
      <4>6. effect[c][cur[c]] = 0
        BY <4>4, <4>5 DEF EffectInv
      <4> QED
        BY <3>1, <4>5, <4>6
    <3> QED
      BY <3>2, <3>3
  <2>5. ASSUME NEW d \in Conns, NEW n \in Ids, Starts(d, n)
        PROVE  hal[c] = "ok" /\ cur'[c] = cur[c]
    BY <1>0, <1>3, <2>5 DEF Starts, StartExecute
  <2>6. RunTask \/ (hal[c] = "ok" /\ cur'[c] = cur[c])
    BY <1>3, <2>5, TaskMoves
  <2> QED
    BY <2>3, <2>4, <2>6
<1> QED
  BY <1>1, <1>2, <1>3 DEF EffectInv

\* Clients and players are told of successes that have happened.
LEMMA DoneStep ==
  TypeInv /\ OrderInv /\ EffectInv /\ DoneInv /\ [Next]_vars => DoneInv'
<1> SUFFICES ASSUME TypeInv, OrderInv, EffectInv, DoneInv, [Next]_vars PROVE DoneInv'
  OBVIOUS
<1>0. /\ msg \in [Cmds -> Texts] /\ told \in [Cmds -> Seq(Texts)] /\ MaxAsk \in Nat
      /\ outbox \in [Conns -> Seq(Msgs)] /\ Cmds \subseteq Conns /\ tasks \in Seq(Tasks)
      /\ cur \in [Conns -> 0 .. (MaxAsk + 1)] /\ Wires \cap Cmds = {}
  BY Facts
<1>a. 1 \in Ids
  BY <1>0 DEF Ids
<1>1. ASSUME NEW c \in Conns, NEW i \in 1 .. Len(outbox'[c]), outbox'[c][i].kind = "done"
      PROVE  /\ outbox'[c][i].id \in Ids /\ (c \in Cmds => outbox'[c][i].id = 1)
             /\ effect'[c][outbox'[c][i].id] = 1
  <2> DEFINE Good(m) == m.kind = "done" =>
               m.id \in Ids /\ (c \in Cmds => m.id = 1) /\ effect'[c][m.id] = 1
  <2>0. outbox[c] \in Seq(Msgs)
    BY <1>0
  <2>1. ASSUME NEW j \in 1 .. Len(outbox[c]) PROVE Good(outbox[c][j])
    <3> SUFFICES ASSUME outbox[c][j].kind = "done"
                 PROVE  /\ outbox[c][j].id \in Ids /\ (c \in Cmds => outbox[c][j].id = 1)
                        /\ effect'[c][outbox[c][j].id] = 1
      OBVIOUS
    <3>1. /\ outbox[c][j].id \in Ids /\ (c \in Cmds => outbox[c][j].id = 1)
          /\ effect[c][outbox[c][j].id] = 1
      BY DEF DoneInv
    <3> QED
      BY <3>1, EffectKept
  <2>2. ASSUME NEW s \in Seq(Msgs), NEW m \in Msgs, Good(m),
               \A j \in 1 .. Len(s) : Good(s[j])
        PROVE  \A j \in 1 .. Len(Append(s, m)) : Good(Append(s, m)[j])
    <3> HIDE DEF Good
    <3> QED
      BY <2>2, AppendItems
  <2>3. \A j \in 1 .. Len(outbox'[c]) : Good(outbox'[c][j])
    <3>0. ASSUME NEW k \in Kinds, NEW n \in 0 .. (MaxAsk + 1), k # "done"
          PROVE  Message(k, n) \in Msgs /\ Good(Message(k, n))
      BY <3>0, MsgType
    <3>1. ASSUME Verdict(c) = "done"
          PROVE  cur[c] \in Ids /\ (c \in Cmds => cur[c] = 1) /\ effect'[c][cur[c]] = 1
      <4>1. hal[c] = "ok"
        BY <3>1 DEF Verdict
      <4>2. cur[c] \in Ids /\ (c \in Cmds => cur[c] = 1) /\ effect[c][cur[c]] = 1
        BY <4>1 DEF OrderInv, EffectInv
      <4> QED
        BY <4>2, EffectKept
    <3>2. Verdict(c) \in Kinds /\ {"N", "ready", "error", "done"} \subseteq Kinds
      BY DEF Verdict, Kinds
    <3>3. Message(Verdict(c), cur[c]) \in Msgs /\ Good(Message(Verdict(c), cur[c]))
      BY <1>0, <3>1, <3>2, MsgType
    <3>4. c \in Cmds => Message(Verdict(c), 1) \in Msgs /\ Good(Message(Verdict(c), 1))
      <4>1. 1 \in 0 .. (MaxAsk + 1)
        BY <1>0
      <4> QED
        BY <3>1, <3>2, <4>1, MsgType
    <3>5. /\ 0 \in 0 .. (MaxAsk + 1) /\ 1 \in 0 .. (MaxAsk + 1)
          /\ cur[c] \in 0 .. (MaxAsk + 1)
      BY <1>0
    <3>6. CASE c \in Wires /\ Take(c)
      <4>1. PICK k \in DOMAIN outbox[c] :
              outbox' = [outbox EXCEPT ![c] = SubSeq(@, k + 1, Len(@))]
        BY <3>6 DEF Take
      <4>2. outbox'[c] = SubSeq(outbox[c], k + 1, Len(outbox[c]))
        BY <1>0, <4>1
      <4>3. k \in Nat /\ Len(outbox[c]) \in Nat /\ k <= Len(outbox[c]) /\ k >= 1
        BY <2>0, <4>1
      <4>4. \A j \in 1 .. Len(outbox'[c]) : /\ outbox'[c][j] = outbox[c][j + k]
                                            /\ j + k \in 1 .. Len(outbox[c])
        BY <2>0, <4>2, <4>3
      <4> HIDE DEF Good
      <4> QED
        BY <2>1, <4>4
    <3> HIDE DEF Good
    <3>7. ASSUME NEW m \in Msgs, Good(m), outbox'[c] = Append(outbox[c], m)
          PROVE  \A j \in 1 .. Len(outbox'[c]) : Good(outbox'[c][j])
      BY <2>0, <2>1, <2>2, <3>7
    <3>8. ASSUME NEW m \in Msgs, NEW x \in Msgs, Good(m), Good(x),
                 outbox'[c] = Append(Append(outbox[c], m), x)
          PROVE  \A j \in 1 .. Len(outbox'[c]) : Good(outbox'[c][j])
      <4>1. PICK s \in Seq(Msgs) : s = Append(outbox[c], m)
        BY <2>0, AppendItems
      <4>2. \A j \in 1 .. Len(s) : Good(s[j])
        BY <2>0, <2>1, <2>2, <3>8, <4>1
      <4> QED
        BY <2>2, <3>8, <4>1, <4>2
    <3>9. CASE outbox'[c] = outbox[c]
      BY <2>1, <3>9
    <3>10. \/ outbox'[c] = outbox[c]
           \/ c \in Wires /\ Take(c)
           \/ \E m \in Msgs : Good(m) /\ outbox'[c] = Append(outbox[c], m)
           \/ \E m, x \in Msgs : /\ Good(m) /\ Good(x)
                                 /\ outbox'[c] = Append(Append(outbox[c], m), x)
      <4>1. \A n \in 0 .. (MaxAsk + 1) :
              /\ Message("error", n) \in Msgs /\ Good(Message("error", n))
              /\ Message("ready", n) \in Msgs /\ Good(Message("ready", n))
              /\ Message("N", n) \in Msgs /\ Good(Message("N", n))
        BY <3>0, <3>2
      <4> QED
        BY <3>3, <3>4, <3>5, <4>1, OutboxMoves
    <3> QED
      BY <3>6, <3>7, <3>8, <3>9, <3>10
  <2> QED
    BY <1>1, <2>3
<1>2. ASSUME NEW k \in Cmds, msg'[k] = "done" PROVE effect'[k][1] = 1
  <2>0. k \in Conns
    BY <1>0
  <2>1. ASSUME msg[k] = "done" PROVE effect'[k][1] = 1
    BY <1>a, <2>0, <2>1, EffectKept DEF DoneInv
  <2>2. ASSUME NEW j \in Cmds, NEW m \in Texts, Heard(j, m), Tell(j, m)
        PROVE  msg[k] = "done" \/ effect[k][1] = 1
    <3>1. msg[k] = "done" \/ (j = k /\ m = "done")
      BY <1>0, <1>2, <2>2 DEF Tell
    <3>2. ASSUME j = k, m = "done" PROVE effect[k][1] = 1
      <4>1. outbox[k] # <<>> /\ Head(outbox[k]).kind = "done" /\ outbox[k] \in Seq(Msgs)
        BY <1>0, <2>0, <2>2, <3>2 DEF Heard
      <4>2. Head(outbox[k]) = outbox[k][1] /\ 1 \in 1 .. Len(outbox[k])
        BY <4>1, TailItems
      <4> QED
        BY <2>0, <4>1, <4>2 DEF DoneInv
    <3> QED
      BY <3>1, <3>2
  <2>3. ASSUME effect[k][1] = 1 PROVE effect'[k][1] = 1
    BY <1>a, <2>0, <2>3, EffectKept
  <2>4. RunTask => msg' = msg
    BY DEF RunTask
  <2> QED
    BY <1>2, <2>1, <2>2, <2>3, <2>4, TaskMoves
<1>3. ASSUME NEW k \in Cmds, NEW i \in 1 .. Len(told'[k]), told'[k][i] = "done"
      PROVE  effect'[k][1] = 1
  <2>0. k \in Conns
    BY <1>0
  <2>1. ASSUME effect[k][1] = 1 PROVE effect'[k][1] = 1
    BY <1>a, <2>0, <2>1, EffectKept
  <2>2. CASE told'[k] = told[k]
    BY <1>3, <2>1, <2>2 DEF DoneInv
  <2>3. CASE told'[k] = <<"usage">>
    <3>1. told'[k][i] = "usage"
      <4>1. Len(told'[k]) = 1 /\ told'[k][1] = "usage"
        BY <2>3
      <4>2. i = 1
        BY <1>3, <4>1
      <4> QED
        BY <4>1, <4>2
    <3> QED
      BY <1>3, <3>1
  <2>4. CASE told'[k] = Append(told[k], msg[k])
    <3>1. told[k] \in Seq(Texts) /\ msg[k] \in Texts
      BY <1>0
    <3>2. \/ i \in 1 .. Len(told[k]) /\ told'[k][i] = told[k][i]
          \/ told'[k][i] = msg[k]
      BY <2>4, <3>1, AppendItems
    <3> QED
      BY <1>3, <2>1, <3>2 DEF DoneInv
  <2>5. CASE RunTask
    BY <1>0, <2>2, <2>4, <2>5 DEF RunTask
  <2>6. ASSUME NEW j \in Cmds, NEW m, Tell(j, m) PROVE told' = told
    BY <2>6 DEF Tell
  <2>7. ASSUME NEW j \in Cmds, told' = [told EXCEPT ![j] = <<"usage">>]
        PROVE  told'[k] = told[k] \/ told'[k] = <<"usage">>
    BY <1>0, <2>7
  <2> QED
    BY <2>2, <2>3, <2>5, <2>6, <2>7, TaskMoves
<1> QED
  BY <1>1, <1>2, <1>3 DEF DoneInv


-----------------------------------------------------------------------------
(* Requests and the ends of their answers.                                 *)

\* Reading the request takes it off the queue.
LEMMA TailRequest ==
  ASSUME NEW s \in Seq(Msgs), s # <<>>, NEW n, OneRequest(s, n)
  PROVE  /\ OneRequest(Tail(s), n) /\ (HasRequest(Tail(s)) => HasRequest(s))
         /\ Request(Head(s)) => /\ ~HasRequest(Tail(s)) /\ HasRequest(s)
                                /\ Head(s).id = n /\ Head(s).kind # "extended"
                                /\ Head(s).kind = "startup" => n = 0
<1>1. PICK u : u = Tail(s)
  OBVIOUS
<1>2. /\ \A i \in 1 .. Len(u) : u[i] = s[i + 1] /\ i + 1 \in 1 .. Len(s) /\ i + 1 # 1
      /\ Head(s) = s[1] /\ 1 \in 1 .. Len(s)
  BY <1>1, TailItems
<1>3. ASSUME NEW i \in 1 .. Len(u), Request(u[i])
      PROVE  /\ u[i].kind # "extended" /\ u[i].id = n /\ (u[i].kind = "startup" => n = 0)
             /\ ~Request(s[1]) /\ HasRequest(s)
             /\ \A j \in 1 .. Len(u) : Request(u[j]) => i + 1 = j + 1
  BY <1>2, <1>3 DEF OneRequest, HasRequest
<1>4. \A i, j \in 1 .. Len(u) : i + 1 = j + 1 => i = j
  OBVIOUS
<1>5. OneRequest(u, n)
  BY <1>3, <1>4 DEF OneRequest
<1>6. Request(Head(s)) => /\ HasRequest(s) /\ Head(s).id = n /\ Head(s).kind # "extended"
                          /\ Head(s).kind = "startup" => n = 0
  BY <1>2 DEF OneRequest, HasRequest
<1> QED
  BY <1>1, <1>2, <1>3, <1>5, <1>6 DEF HasRequest

\* Other messages of the client do not matter, and the first request is one.
LEMMA AppendRequest ==
  ASSUME NEW s \in Seq(Msgs), NEW m \in Msgs
  PROVE  /\ ~Request(m) => /\ \A n : OneRequest(s, n) => OneRequest(Append(s, m), n)
                           /\ HasRequest(Append(s, m)) => HasRequest(s)
         /\ m.kind = "query" /\ ~HasRequest(s) => OneRequest(Append(s, m), m.id)
<1>1. PICK u : u = Append(s, m)
  OBVIOUS
<1>2. \A i \in 1 .. Len(u) : \/ i \in 1 .. Len(s) /\ u[i] = s[i]
                             \/ i = Len(s) + 1 /\ u[i] = m
  BY <1>1, AppendItems
<1>3. ASSUME ~Request(m), NEW n, OneRequest(s, n) PROVE OneRequest(u, n)
  BY <1>2, <1>3 DEF OneRequest
<1>4. ASSUME ~Request(m), HasRequest(u) PROVE HasRequest(s)
  BY <1>2, <1>4 DEF HasRequest
<1>5. ASSUME m.kind = "query", ~HasRequest(s) PROVE OneRequest(u, m.id)
  <2>1. \A i \in 1 .. Len(u) : Request(u[i]) => i = Len(s) + 1 /\ u[i] = m
    BY <1>2, <1>5 DEF HasRequest
  <2> QED
    BY <1>5, <2>1 DEF OneRequest
<1> QED
  BY <1>1, <1>3, <1>4, <1>5

\* The same of the server's messages.
LEMMA AppendReady ==
  ASSUME NEW s \in Seq(Msgs), NEW m \in Msgs
  PROVE  /\ m.kind # "ready" => /\ \A n : OneReady(s, n) => OneReady(Append(s, m), n)
                                /\ HasReady(Append(s, m)) => HasReady(s)
         /\ m.kind = "ready" /\ ~HasReady(s) => OneReady(Append(s, m), m.id)
<1>1. PICK u : u = Append(s, m)
  OBVIOUS
<1>2. \A i \in 1 .. Len(u) : \/ i \in 1 .. Len(s) /\ u[i] = s[i]
                             \/ i = Len(s) + 1 /\ u[i] = m
  BY <1>1, AppendItems
<1>3. ASSUME m.kind # "ready", NEW n, OneReady(s, n) PROVE OneReady(u, n)
  BY <1>2, <1>3 DEF OneReady
<1>4. ASSUME m.kind # "ready", HasReady(u) PROVE HasReady(s)
  BY <1>2, <1>4 DEF HasReady
<1>5. ASSUME m.kind = "ready", ~HasReady(s) PROVE OneReady(u, m.id)
  <2>1. \A i \in 1 .. Len(u) : u[i].kind = "ready" => i = Len(s) + 1 /\ u[i] = m
    BY <1>2, <1>5 DEF HasReady
  <2> QED
    BY <1>5, <2>1 DEF OneReady
<1> QED
  BY <1>1, <1>3, <1>4, <1>5

\* An answer is a message and a ReadyForQuery.
LEMMA ReplyReady ==
  ASSUME NEW s \in Seq(Msgs), NEW k \in Kinds, k # "ready", NEW n \in 0 .. (MaxAsk + 1),
         ~HasReady(s)
  PROVE  OneReady(Append(Append(s, Message(k, n)), Message("ready", n)), n)
<1>1. PICK m \in Msgs : m = Message(k, n) /\ m.kind = k
  BY MsgType
<1>2. PICK x \in Msgs : x = Message("ready", n) /\ x.kind = "ready" /\ x.id = n
  BY MsgType DEF Kinds
<1>3. PICK u \in Seq(Msgs) : u = Append(s, m)
  BY AppendItems
<1>4. ~HasReady(u)
  BY <1>1, <1>3, AppendReady
<1>5. OneReady(Append(u, x), n)
  BY <1>2, <1>4, AppendReady
<1> QED
  BY <1>1, <1>2, <1>3, <1>5

\* Once the client has taken the end of the answer, none is left.
LEMMA TakeReady ==
  ASSUME NEW s \in Seq(Msgs), NEW n, OneReady(s, n), NEW i \in 1 .. Len(s),
         s[i].kind = "ready", NEW u, u = SubSeq(s, i + 1, Len(s))
  PROVE  ~HasReady(u) /\ s[i].id = n
<1>1. i \in Nat /\ Len(s) \in Nat /\ i <= Len(s) /\ i >= 1
  OBVIOUS
<1>2. Len(u) = Len(s) - i
  BY <1>1
<1>3. \A j \in 1 .. (Len(s) - i) : u[j] = s[j + i]
  BY <1>1
<1>4. \A j \in 1 .. (Len(s) - i) : j + i \in 1 .. Len(s) /\ j + i # i
  BY <1>1
<1> QED
  BY <1>2, <1>3, <1>4 DEF OneReady, HasReady

\* The steps of client w and of the handler of its connection that matter to
\* its requests.
Plays(w) ==
  \/ Dial(w) \/ Ask(w) \/ Take(w) \/ Leave(w)
  \/ Startup(w) \/ ReadMessage(w) \/ AnswerQuery(w)

\* Every other step leaves the client and its answers alone; at most it ends
\* the connection or the handler takes it over.
LEMMA TurnOthers ==
  ASSUME TypeInv, [Next]_vars, NEW w \in Wires, ~Plays(w)
  PROVE  /\ client'[w] = client[w] /\ asked'[w] = asked[w]
         /\ batched'[w] = batched[w] /\ stale'[w] = stale[w]
         /\ outbox'[w] = outbox[w] /\ inbox'[w] \in {inbox[w], <<>>}
         /\ conn'[w] = "exec" => conn[w] = "exec" /\ cur'[w] = cur[w]
         /\ conn[w] = "none" => conn'[w] = "none"
<1>0. /\ conn \in [Conns -> {"none", "backlog", "startup", "read", "exec", "end"}]
      /\ cur \in [Conns -> 0 .. (MaxAsk + 1)]
      /\ client \in [Wires -> {"off", "wait", "idle", "gone"}]
      /\ asked \in [Wires -> 0 .. MaxAsk]
      /\ batched \in [Wires -> BOOLEAN] /\ stale \in [Wires -> BOOLEAN]
      /\ inbox \in [Conns -> Seq(Msgs)] /\ outbox \in [Conns -> Seq(Msgs)]
      /\ w \in Conns /\ Cmds \subseteq Conns /\ Wires \cap Cmds = {}
  BY Facts
<1> USE DEF connVars, pluginVars, clientVars
<1>1. CASE Signal \/ MainServerReturned \/ MainCancelled \/ UNCHANGED vars
  BY <1>1 DEF Signal, MainServerReturned, MainCancelled, vars
<1>2. CASE MainDone \/ MainTimeout
  <2>1. Exit /\ UNCHANGED <<outbox, clientVars>>
    BY <1>2 DEF MainDone, MainTimeout
  <2> QED
    BY <1>0, <2>1 DEF Exit
<1>3. CASE RunTask
  BY <1>3 DEF RunTask
<1>4. ASSUME NEW s \in ServerNames, Serve(s)
      PROVE  /\ UNCHANGED <<clientVars, inbox, outbox, cur>>
             /\ conn'[w] = conn[w] \/ (conn[w] = "backlog" /\ conn'[w] = "end")
  BY <1>0, <1>4 DEF Serve, Listen, CloseListener, ServeReturns
<1>5. ASSUME NEW c \in Conns, Handle(c) \/ HalSilent(c) \/ HalFails(c)
      PROVE  /\ UNCHANGED <<clientVars>>
             /\ inbox'[w] = inbox[w] /\ outbox'[w] = outbox[w] /\ cur'[w] = cur[w]
             /\ conn'[w] = conn[w] \/ (conn[w] = "backlog" /\ conn'[w] = "startup")
  <2>1. CASE Accept(c) \/ HalSilent(c) \/ HalFails(c)
    BY <1>0, <2>1 DEF Accept, HalSilent, HalFails
  <2>2. CASE Startup(c)
    <3>1. c # w
      BY <2>2 DEF Plays
    <3> QED
      BY <1>0, <2>2, <3>1 DEF Startup, Read, Send, HandlerAt
  <2>3. CASE ReadMessage(c)
    <3>1. c # w
      BY <2>3 DEF Plays
    <3> QED
      BY <1>0, <2>3, <3>1 DEF ReadMessage, Read, Send, HandlerAt, StartExecute
  <2>4. CASE AnswerQuery(c)
    <3>1. c # w
      BY <2>4 DEF Plays
    <3> QED
      BY <1>0, <2>4, <3>1 DEF AnswerQuery, Send, HandlerAt
  <2>5. CASE c \in Cmds /\ ReadLine(c)
    <3>1. c # w
      BY <1>0, <2>5
    <3> QED
      BY <1>0, <2>5, <3>1 DEF ReadLine, Read, Send, HandlerAt, StartExecute
  <2>6. CASE c \in Cmds /\ AnswerLine(c)
    <3>1. c # w
      BY <1>0, <2>6
    <3> QED
      BY <1>0, <2>6, <3>1 DEF AnswerLine, Send, HandlerAt
  <2> QED
    BY <1>5, <2>1, <2>2, <2>3, <2>4, <2>5, <2>6 DEF Handle
<1>6. ASSUME NEW k \in Cmds, onCommand(k) \/ Command(k) \/ Cut(k)
      PROVE  /\ UNCHANGED <<clientVars, outbox, cur>>
             /\ inbox'[w] = inbox[w] /\ conn'[w] = conn[w]
  <2>1. k # w
    BY <1>0
  <2> QED
    BY <1>0, <1>6, <2>1 DEF onCommand, Command, Connect, ConnectFails, ReadAnswer,
       ReadTimeout, Cut, Tell
<1>7. ASSUME NEW v \in Wires, Dial(v) \/ Ask(v) \/ Take(v) \/ Leave(v)
      PROVE  /\ client'[w] = client[w] /\ asked'[w] = asked[w]
             /\ batched'[w] = batched[w] /\ stale'[w] = stale[w]
             /\ outbox'[w] = outbox[w] /\ inbox'[w] = inbox[w]
             /\ conn'[w] = conn[w] /\ cur'[w] = cur[w]
  <2>1. v # w
    BY <1>7 DEF Plays
  <2>2. CASE Dial(v)
    BY <1>0, <2>1, <2>2 DEF Dial
  <2>3. CASE Ask(v)
    BY <1>0, <2>1, <2>3 DEF Ask
  <2>4. CASE Take(v)
    BY <1>0, <2>1, <2>4 DEF Take
  <2>5. CASE Leave(v)
    BY <1>0, <2>1, <2>5 DEF Leave
  <2> QED
    BY <1>7, <2>2, <2>3, <2>4, <2>5
<1> QED
  BY <1>0, <1>1, <1>2, <1>3, <1>4, <1>5, <1>6, <1>7 DEF Next, Main

\* A client that keeps to simple queries has one request under way at a time.
LEMMA TurnStep ==
  ASSUME TypeInv, TurnInv, [Next]_vars, NEW w \in Wires
  PROVE  Turn(w)'
<1>0. /\ conn \in [Conns -> {"none", "backlog", "startup", "read", "exec", "end"}]
      /\ cur \in [Conns -> 0 .. (MaxAsk + 1)]
      /\ client \in [Wires -> {"off", "wait", "idle", "gone"}]
      /\ asked \in [Wires -> 0 .. MaxAsk]
      /\ batched \in [Wires -> BOOLEAN] /\ stale \in [Wires -> BOOLEAN]
      /\ inbox \in [Conns -> Seq(Msgs)] /\ outbox \in [Conns -> Seq(Msgs)]
      /\ w \in Conns /\ inbox[w] \in Seq(Msgs) /\ outbox[w] \in Seq(Msgs)
      /\ MaxAsk \in Nat
  BY Facts
<1>a. Turn(w)
  BY DEF TurnInv
<1>b. /\ ~HasRequest(<<>>) /\ \A n : OneRequest(<<>>, n) /\ OneReady(<<>>, n)
      /\ \A s, n : ~HasReady(s) => OneReady(s, n)
  BY DEF HasRequest, OneRequest, OneReady, HasReady
<1>1. CASE ~Plays(w)
  <2>1. /\ client'[w] = client[w] /\ asked'[w] = asked[w]
        /\ batched'[w] = batched[w] /\ stale'[w] = stale[w]
        /\ outbox'[w] = outbox[w] /\ inbox'[w] \in {inbox[w], <<>>}
        /\ conn'[w] = "exec" => conn[w] = "exec" /\ cur'[w] = cur[w]
        /\ conn[w] = "none" => conn'[w] = "none"
    BY <1>1, TurnOthers
  <2>2. /\ OneRequest(inbox[w], asked[w]) => OneRequest(inbox'[w], asked[w])
        /\ HasRequest(inbox'[w]) => HasRequest(inbox[w])
    BY <1>b, <2>1
  <2> QED
    BY <1>a, <2>1, <2>2 DEF Turn
<1>2. CASE Startup(w)
  <2>1. PICK m : m = Head(inbox[w])
    OBVIOUS
  <2>2. /\ inbox[w] # <<>> /\ inbox'[w] = Tail(inbox[w]) /\ conn[w] = "startup"
        /\ UNCHANGED <<clientVars, cur>>
    BY <1>0, <1>2 DEF Startup, Read
  <2>3. client[w] # "off"
    BY <1>a, <2>2 DEF Turn
  <2>4. \/ /\ outbox'[w] = Append(outbox[w], Message("N", 0)) /\ conn'[w] = "startup"
        \/ /\ m.kind = "startup" /\ conn'[w] = "read"
           /\ outbox'[w] = Append(outbox[w], Message("ready", 0))
        \/ outbox'[w] = outbox[w] /\ conn'[w] = "end"
    <3>0. /\ outbox[w] \o <<Message("N", 0)>> = Append(outbox[w], Message("N", 0))
          /\ outbox[w] \o <<Message("ready", 0)>> = Append(outbox[w], Message("ready", 0))
      <4>1. Message("N", 0) \in Msgs /\ Message("ready", 0) \in Msgs
        BY <1>0, MsgType DEF Kinds
      <4> QED
        BY <1>0, <4>1, PairItems
    <3> QED
      BY <1>0, <1>2, <2>1, <3>0 DEF Startup, Send, HandlerAt
  <2>5. SUFFICES ASSUME ~batched[w]
                 PROVE  /\ OneRequest(inbox'[w], asked[w]) /\ OneReady(outbox'[w], asked[w])
                        /\ HasRequest(inbox'[w]) => ~HasReady(outbox'[w])
                        /\ client[w] = "idle" =>
                             ~HasRequest(inbox'[w]) /\ ~HasReady(outbox'[w])
    BY <1>a, <2>2, <2>3, <2>4 DEF Turn, clientVars
  <2>6. /\ OneRequest(inbox[w], asked[w]) /\ OneReady(outbox[w], asked[w])
        /\ HasRequest(inbox[w]) => ~HasReady(outbox[w])
        /\ client[w] = "idle" => ~HasRequest(inbox[w]) /\ ~HasReady(outbox[w])
    BY <1>a, <2>5 DEF Turn
  <2>7. /\ OneRequest(inbox'[w], asked[w]) /\ (HasRequest(inbox'[w]) => HasRequest(inbox[w]))
        /\ m.kind = "startup" => ~HasRequest(inbox'[w]) /\ HasRequest(inbox[w]) /\ asked[w] = 0
    BY <1>0, <2>1, <2>2, <2>6, TailRequest DEF Request
  <2>8. CASE outbox'[w] = Append(outbox[w], Message("N", 0))
    <3>1. Message("N", 0) \in Msgs /\ Message("N", 0).kind # "ready"
      BY <1>0, MsgType DEF Kinds
    <3>2. /\ OneReady(outbox'[w], asked[w])
          /\ HasReady(outbox'[w]) => HasReady(outbox[w])
      BY <1>0, <2>6, <2>8, <3>1, AppendReady
    <3> QED
      BY <2>6, <2>7, <3>2
  <2>9. CASE m.kind = "startup" /\ outbox'[w] = Append(outbox[w], Message("ready", 0))
    <3>1. /\ Message("ready", 0) \in Msgs /\ Message("ready", 0).kind = "ready"
          /\ Message("ready", 0).id = 0
      BY <1>0, MsgType DEF Kinds
    <3>2. OneReady(outbox'[w], asked[w])
      BY <1>0, <2>6, <2>7, <2>9, <3>1, AppendReady
    <3> QED
      BY <2>6, <2>7, <2>9, <3>2
  <2>10. CASE outbox'[w] = outbox[w]
    BY <2>6, <2>7, <2>10
  <2> QED
    BY <2>4, <2>8, <2>9, <2>10
<1>3. CASE ReadMessage(w)
  <2>1. PICK m : m = Head(inbox[w])
    OBVIOUS
  <2>2. /\ inbox[w] # <<>> /\ inbox'[w] = Tail(inbox[w]) /\ conn[w] = "read"
        /\ UNCHANGED clientVars
    BY <1>0, <1>3 DEF ReadMessage, Read
  <2>3. client[w] # "off"
    BY <1>a, <2>2 DEF Turn
  <2>4. m \in Msgs /\ m.id \in 0 .. (MaxAsk + 1)
    BY <1>0, <2>1, <2>2, HeadType
  <2>5. \/ /\ m.kind = "query" /\ conn'[w] = "exec" /\ cur'[w] = m.id
           /\ outbox'[w] = outbox[w]
        \/ /\ m.kind \in {"query", "extended"} /\ conn'[w] = "read"
           /\ outbox'[w] = Append(Append(outbox[w], Message("error", m.id)),
                                  Message("ready", m.id))
        \/ conn'[w] \in {"read", "end"} /\ outbox'[w] = outbox[w]
    <3>0. outbox[w] \o <<Message("error", m.id), Message("ready", m.id)>> =
            Append(Append(outbox[w], Message("error", m.id)), Message("ready", m.id))
      <4>1. Message("error", m.id) \in Msgs /\ Message("ready", m.id) \in Msgs
        BY <2>4, MsgType DEF Kinds
      <4> QED
        BY <1>0, <4>1, PairItems
    <3> QED
      BY <1>0, <1>3, <2>1, <2>2, <3>0
      DEF ReadMessage, Send, Replies, HandlerAt, StartExecute
  <2>6. SUFFICES ASSUME ~batched[w]
                 PROVE  /\ OneRequest(inbox'[w], asked[w]) /\ OneReady(outbox'[w], asked[w])
                        /\ HasRequest(inbox'[w]) => conn'[w] # "exec" /\ ~HasReady(outbox'[w])
                        /\ conn'[w] = "exec" => cur'[w] = asked[w] /\ ~HasReady(outbox'[w])
                        /\ client[w] = "idle" => /\ ~HasRequest(inbox'[w])
                                                 /\ conn'[w] # "exec" /\ ~HasReady(outbox'[w])
    BY <1>a, <2>2, <2>3 DEF Turn, clientVars
  <2>7. /\ OneRequest(inbox[w], asked[w]) /\ OneReady(outbox[w], asked[w])
        /\ HasRequest(inbox[w]) => ~HasReady(outbox[w])
        /\ client[w] = "idle" => ~HasRequest(inbox[w]) /\ ~HasReady(outbox[w])
    BY <1>a, <2>6 DEF Turn
  <2>8. /\ OneRequest(inbox'[w], asked[w]) /\ (HasRequest(inbox'[w]) => HasRequest(inbox[w]))
        /\ m.kind \in {"query", "extended"} =>
             ~HasRequest(inbox'[w]) /\ HasRequest(inbox[w]) /\ m.id = asked[w]
    BY <1>0, <2>1, <2>2, <2>7, TailRequest DEF Request
  <2>9. CASE /\ m.kind = "query" /\ conn'[w] = "exec" /\ cur'[w] = m.id
             /\ outbox'[w] = outbox[w]
    BY <2>7, <2>8, <2>9
  <2>10. CASE /\ m.kind \in {"query", "extended"} /\ conn'[w] = "read"
              /\ outbox'[w] = Append(Append(outbox[w], Message("error", m.id)),
                                     Message("ready", m.id))
    <3>1. "error" \in Kinds /\ "error" # "ready" /\ ~HasReady(outbox[w])
      BY <2>7, <2>8, <2>10 DEF Kinds
    <3>2. OneReady(outbox'[w], asked[w])
      BY <1>0, <2>4, <2>8, <2>10, <3>1, ReplyReady
    <3> QED
      BY <2>7, <2>8, <2>10, <3>2
  <2>11. CASE conn'[w] \in {"read", "end"} /\ outbox'[w] = outbox[w]
    BY <2>7, <2>8, <2>11
  <2> QED
    BY <2>5, <2>9, <2>10, <2>11
<1>4. CASE AnswerQuery(w)
  <2>1. /\ conn[w] = "exec" /\ conn'[w] = "read" /\ UNCHANGED <<clientVars, inbox>>
        /\ outbox'[w] = outbox[w] \o <<Message(Verdict(w), cur[w]), Message("ready", cur[w])>>
    BY <1>0, <1>4 DEF AnswerQuery, Send, Replies, HandlerAt
  <2>2. cur[w] \in 0 .. (MaxAsk + 1) /\ Verdict(w) \in Kinds /\ Verdict(w) # "ready"
    BY <1>0 DEF Verdict, Kinds
  <2>3. outbox'[w] = Append(Append(outbox[w], Message(Verdict(w), cur[w])),
                            Message("ready", cur[w]))
    <3>1. Message(Verdict(w), cur[w]) \in Msgs /\ Message("ready", cur[w]) \in Msgs
      BY <2>2, MsgType DEF Kinds
    <3> QED
      BY <1>0, <2>1, <3>1, PairItems, SMTT(30)
  <2>4. ~HasReady(outbox[w]) => OneReady(outbox'[w], cur[w])
    BY <1>0, <2>2, <2>3, ReplyReady
  <2> QED
    BY <1>a, <2>1, <2>4 DEF Turn, clientVars
<1>5. CASE Dial(w)
  <2>1. PICK o \in Openings : inbox' = [inbox EXCEPT ![w] = [i \in DOMAIN o |-> Message(o[i], 0)]]
    BY <1>5 DEF Dial
  <2>2. PICK s : s = [i \in DOMAIN o |-> Message(o[i], 0)]
    OBVIOUS
  <2>3. \A i \in 1 .. Len(s) : /\ s[i].kind \notin {"query", "line", "extended"}
                               /\ s[i].id = 0
                               /\ s[i].kind = "startup" => i = 2
    BY <2>2, Opening
  <2>4. OneRequest(s, 0)
    BY <2>3 DEF OneRequest, Request
  <2>5. /\ inbox'[w] = s /\ conn'[w] = "backlog" /\ client[w] = "off" /\ client'[w] = "wait"
        /\ UNCHANGED <<outbox, asked, batched, stale>>
    BY <1>0, <1>5, <2>1, <2>2 DEF Dial
  <2>6. asked[w] = 0 /\ ~HasReady(outbox[w])
    BY <1>a, <2>5 DEF Turn, HasReady
  <2> QED
    BY <1>a, <2>4, <2>5, <2>6 DEF Turn
<1>6. CASE Ask(w)
  <2>1. /\ client[w] = "idle" /\ client'[w] = "wait" /\ asked'[w] = asked[w] + 1
        /\ asked[w] + 1 \in 0 .. (MaxAsk + 1)
        /\ UNCHANGED <<conn, outbox, cur, stale>>
    BY <1>0, <1>6 DEF Ask
  <2>2. CASE inbox'[w] = Append(inbox[w], Message("query", asked[w] + 1))
             /\ batched'[w] = batched[w]
    <3>1. /\ Message("query", asked[w] + 1) \in Msgs
          /\ Message("query", asked[w] + 1).kind = "query"
          /\ Message("query", asked[w] + 1).id = asked[w] + 1
      BY <2>1, MsgType DEF Kinds
    <3>2. ~HasRequest(inbox[w]) => OneRequest(inbox'[w], asked[w] + 1)
      BY <1>0, <2>2, <3>1, AppendRequest
    <3> QED
      BY <1>a, <1>b, <2>1, <2>2, <3>2 DEF Turn
  <2>3. CASE batched'[w]
    BY <2>1, <2>3 DEF Turn
  <2> QED
    BY <1>0, <1>6, <2>2, <2>3 DEF Ask
<1>7. CASE Take(w)
  <2>1. PICK i \in DOMAIN outbox[w] :
          /\ outbox[w][i].kind = "ready"
          /\ outbox' = [outbox EXCEPT ![w] = SubSeq(@, i + 1, Len(@))]
          /\ stale' = [stale EXCEPT ![w] = @ \/ outbox[w][i].id # asked[w]
                                                \/ client[w] = "idle"]
    BY <1>7 DEF Take
  <2>2. i \in 1 .. Len(outbox[w])
    BY <1>0, <2>1
  <2>3. HasReady(outbox[w])
    BY <2>1, <2>2 DEF HasReady
  <2>4. /\ client[w] # "off" /\ client'[w] = "idle"
        /\ UNCHANGED <<conn, inbox, cur, asked, batched>>
        /\ outbox'[w] = SubSeq(outbox[w], i + 1, Len(outbox[w]))
    BY <1>0, <1>7, <2>1 DEF Take
  <2>5. SUFFICES ASSUME ~batched[w] PROVE ~stale'[w] /\ ~HasReady(outbox'[w])
    BY <1>a, <1>b, <2>3, <2>4 DEF Turn
  <2>6. OneReady(outbox[w], asked[w]) /\ ~stale[w] /\ client[w] # "idle"
    BY <1>a, <2>3, <2>5 DEF Turn
  <2>7. ~HasReady(outbox'[w]) /\ outbox[w][i].id = asked[w]
    <3>1. PICK s \in Seq(Msgs) : s = outbox[w]
      BY <1>0
    <3>2. PICK n : n = asked[w]
      OBVIOUS
    <3>3. PICK u : u = SubSeq(s, i + 1, Len(s))
      OBVIOUS
    <3>4. OneReady(s, n) /\ i \in 1 .. Len(s) /\ s[i].kind = "ready"
      BY <2>1, <2>2, <2>6, <3>1, <3>2
    <3>5. ~HasReady(u) /\ s[i].id = n
      BY <3>3, <3>4, TakeReady
    <3> QED
      BY <2>4, <3>1, <3>2, <3>3, <3>5
  <2>8. ~stale'[w]
    BY <1>0, <2>1, <2>6, <2>7
  <2> QED
    BY <2>7, <2>8
<1>8. CASE Leave(w)
  <2>1. /\ client[w] # "off" /\ client'[w] = "gone"
        /\ UNCHANGED <<conn, outbox, cur, asked, batched, stale>>
    BY <1>0, <1>8 DEF Leave
  <2>2. PICK k \in {"terminate", "eof"} : inbox'[w] = Append(inbox[w], Message(k, 0))
    BY <1>0, <1>8 DEF Leave
  <2>3. Message(k, 0) \in Msgs /\ ~Request(Message(k, 0))
    BY <1>0, MsgType DEF Kinds, Request
  <2>4. /\ OneRequest(inbox[w], asked[w]) => OneRequest(inbox'[w], asked[w])
        /\ HasRequest(inbox'[w]) => HasRequest(inbox[w])
    BY <1>0, <2>2, <2>3, AppendRequest
  <2> QED
    BY <1>a, <2>1, <2>4 DEF Turn
<1> QED
  BY <1>1, <1>2, <1>3, <1>4, <1>5, <1>6, <1>7, <1>8 DEF Plays

-----------------------------------------------------------------------------
(* Theorems.                                                               *)

ServersInv ==
  TypeInv /\ StopInv /\ OrderInv /\ EffectInv /\ DoneInv /\ TurnInv

\* Nobody has asked for anything yet.
LEMMA ServersInit == Init => ServersInv
<1> SUFFICES ASSUME Init PROVE ServersInv
  OBVIOUS
<1>0. /\ MaxAsk \in Nat /\ 0 \in 0 .. (MaxAsk + 1) /\ 0 \in 0 .. MaxAsk
      /\ Wires \subseteq Conns /\ Cmds \subseteq Conns
  BY ServersAssumption DEF Conns
<1>1. /\ inbox \in [Conns -> Seq(Msgs)] /\ outbox \in [Conns -> Seq(Msgs)]
      /\ tasks \in Seq(Tasks)
      /\ msg \in [Cmds -> Texts] /\ told \in [Cmds -> Seq(Texts)]
      /\ effect \in [Conns -> [Ids -> Nat]]
  BY DEF Init, Texts, Ids
<1>2. TypeOK
  <2>1. \A c \in Conns : effect[c] \in [1 .. (MaxAsk + 1) -> Nat]
    BY DEF Init
  <2>2. cur \in [Conns -> 0 .. MaxAsk + 1] /\ asked \in [Wires -> 0 .. MaxAsk]
    BY <1>0 DEF Init
  <2>3. /\ mainPc \in {"serve", "drain", "exited"}
        /\ why \in {"none", "signal", "server"} /\ said \in {"none", "stopped", "timeout"}
        /\ errCh \in 0 .. 2
        /\ srv \in [ServerNames -> {"listen", "accept", "gone"}]
    BY DEF Init
  <2>4. /\ conn \in [Conns -> {"none", "backlog", "startup", "read", "exec", "end"}]
        /\ hal \in [Conns -> {"none", "sent", "silent", "ok", "failed"}]
        /\ cmd \in [Cmds -> {"new", "dial", "wait", "tell", "told"}]
        /\ client \in [Wires -> {"off", "wait", "idle", "gone"}]
    BY DEF Init
  <2>5. /\ ctxDone \in BOOLEAN /\ open \in [ServerNames -> BOOLEAN]
        /\ cut \in [Cmds -> BOOLEAN]
        /\ batched \in [Wires -> BOOLEAN] /\ stale \in [Wires -> BOOLEAN]
    BY DEF Init
  <2> QED
    BY <2>1, <2>2, <2>3, <2>4, <2>5 DEF TypeOK
<1>3. StopInv
  BY DEF Init, StopInv, Bit, ServerNames
<1>4. /\ \A c \in Conns : Len(inbox[c]) = 0 /\ Len(outbox[c]) = 0 /\ hal[c] = "none"
      /\ Len(tasks) = 0 /\ \A k \in Cmds : Len(told[k]) = 0 /\ msg[k] = "none"
      /\ \A c \in Conns : \A n \in Ids : effect[c][n] = 0
  BY DEF Init, Ids
<1>5. OrderInv
  BY <1>4 DEF OrderInv
<1>6. EffectInv
  <2>1. \A c \in Conns, n \in Ids : ~Pending(c, n) /\ ~Unread(c, n)
    BY <1>4 DEF Pending, Unread
  <2>2. \A i \in 1 .. Len(tasks) : FALSE
    BY <1>4
  <2>3. \A c \in Conns, n \in Ids : effect[c][n] = 0 /\ effect[c][n] <= 1
    BY <1>4
  <2>4. \A c \in Conns : hal[c] # "ok"
    BY <1>4
  <2> QED
    BY <2>1, <2>2, <2>3, <2>4 DEF EffectInv
<1>7. DoneInv
  BY <1>0, <1>4 DEF DoneInv
<1>8. TurnInv
  <2> SUFFICES ASSUME NEW w \in Wires PROVE Turn(w)
    BY DEF TurnInv
  <2>1. inbox[w] = <<>> /\ outbox[w] = <<>>
    BY <1>0 DEF Init
  <2>2. ~HasRequest(inbox[w]) /\ OneRequest(inbox[w], 0) /\ OneReady(outbox[w], 0)
    BY <2>1 DEF HasRequest, OneRequest, OneReady
  <2> QED
    BY <1>0, <2>1, <2>2 DEF Init, Turn
<1> QED
  BY <1>1, <1>2, <1>3, <1>5, <1>6, <1>7, <1>8 DEF ServersInv, TypeInv

\* Every step keeps the invariant.
LEMMA ServersStep == ServersInv /\ [Next]_vars => ServersInv'
<1> SUFFICES ASSUME ServersInv, [Next]_vars PROVE ServersInv'
  OBVIOUS
<1>0. TypeInv /\ StopInv /\ OrderInv /\ EffectInv /\ DoneInv /\ TurnInv
  BY DEF ServersInv
<1>1. /\ inbox' \in [Conns -> Seq(Msgs)] /\ outbox' \in [Conns -> Seq(Msgs)]
      /\ tasks' \in Seq(Tasks)
      /\ msg' \in [Cmds -> Texts] /\ told' \in [Cmds -> Seq(Texts)]
      /\ effect' \in [Conns -> [Ids -> Nat]]
  BY <1>0, QueueStep
<1>2. \A c \in Conns : effect'[c] \in [1 .. (MaxAsk + 1) -> Nat]
  BY <1>1 DEF Ids
<1>3. TypeOK'
  BY <1>0, <1>2, StopStep, PlaceStep DEF TypeOK
<1>4. TypeInv'
  BY <1>1, <1>3 DEF TypeInv
<1>5. StopInv' /\ OrderInv' /\ EffectInv' /\ DoneInv'
  BY <1>0, StopStep, OrderStep, EffectStep, DoneStep
<1>6. TurnInv'
  BY <1>0, TurnStep DEF TurnInv
<1> QED
  BY <1>4, <1>5, <1>6 DEF ServersInv

\* The invariant holds in every reachable state.
THEOREM Invariant == Spec => []ServersInv
  BY ServersInit, ServersStep, PTL DEF Spec

\* Every variable of the engine's processes keeps its type, and errCh never
\* holds more than its two slots: no ListenAndServe goroutine blocks when it
\* reports its return (main.go).
THEOREM TypeCorrect == Spec => []TypeOK
<1>1. ServersInv => TypeOK
  BY DEF ServersInv, TypeInv
<1> QED
  BY <1>1, Invariant, PTL

\* When main logs that all servers stopped, one server has returned at least,
\* and both have if a server's return started the shutdown.
THEOREM StoppedTrueAlways == Spec => []StoppedTrue
<1>1. ServersInv => StoppedTrue
  <2> SUFFICES ASSUME ServersInv PROVE StoppedTrue
    OBVIOUS
  <2>1. /\ errCh + Bit(why = "server") + Bit(said = "stopped") =
             Bit(srv["pg"] = "gone") + Bit(srv["chat"] = "gone")
        /\ errCh \in 0 .. 2
    BY DEF ServersInv, StopInv, TypeInv, TypeOK
  <2>2. ASSUME said = "stopped"
        PROVE  /\ srv["pg"] = "gone" \/ srv["chat"] = "gone"
               /\ why = "server" => srv["pg"] = "gone" /\ srv["chat"] = "gone"
    BY <2>1, <2>2 DEF Bit
  <2> QED
    BY <2>2 DEF StoppedTrue, ServerNames
<1> QED
  BY <1>1, Invariant, PTL

\* A success that the wire server or the chat server reports, and that a player
\* reads, is the success of the statement that was asked for, and no statement
\* takes effect twice, whatever fails, times out or comes too late.
THEOREM SuccessIsTrueAlways == Spec => []SuccessIsTrue
<1>1. ServersInv => SuccessIsTrue
  <2> SUFFICES ASSUME ServersInv PROVE SuccessIsTrue
    OBVIOUS
  <2>0. TypeInv /\ EffectInv /\ DoneInv
    BY DEF ServersInv
  <2>1. /\ outbox \in [Conns -> Seq(Msgs)] /\ told \in [Cmds -> Seq(Texts)]
        /\ effect \in [Conns -> [Ids -> Nat]]
    BY <2>0, Facts
  <2>2. /\ \A c \in Conns : DOMAIN outbox[c] = 1 .. Len(outbox[c]) /\ DOMAIN effect[c] = Ids
        /\ \A k \in Cmds : DOMAIN told[k] = 1 .. Len(told[k])
    BY <2>1
  <2>3. \A c \in Conns : \A n \in Ids : effect[c][n] <= 1
    BY <2>0 DEF EffectInv
  <2>4. /\ \A c \in Conns : \A i \in 1 .. Len(outbox[c]) : outbox[c][i].kind = "done" =>
             effect[c][outbox[c][i].id] = 1
        /\ \A k \in Cmds : \A i \in 1 .. Len(told[k]) : told[k][i] = "done" =>
             effect[k][1] = 1
    BY <2>0 DEF DoneInv
  <2> QED
    BY <2>2, <2>3, <2>4 DEF SuccessIsTrue
<1> QED
  BY <1>1, Invariant, PTL

\* A wire client that keeps to simple queries never takes the end of one answer
\* for the end of another: handleConn sends one ReadyForQuery for the start and
\* one for every query, on every path.
THEOREM InStepAlways == Spec => []InStep
<1>1. ServersInv => InStep
  BY DEF ServersInv, TurnInv, Turn, InStep
<1> QED
  BY <1>1, Invariant, PTL

=============================================================================
