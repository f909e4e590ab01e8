------------------------------- MODULE Servers -------------------------------
(***************************************************************************)
(* The processes around the executor: the PostgreSQL wire server and the   *)
(* chat server of the engine, its main goroutine, and in the plugin the    *)
(* /sql command and the server thread on which the engine's HAL calls run. *)
(*                                                                         *)
(* Source: internal/wire/server.go, internal/wire/chatserver.go,           *)
(* cmd/minesql/main.go, QueryHandler.java.                                 *)
(*                                                                         *)
(* A statement is reduced to one HAL call: a task for the server thread    *)
(* whose answer may come too late (RowStore and HalLink model the rest).   *)
(* A message of a client carries the number of the client's request, and   *)
(* so do the messages that answer it.  The engine is one process: when     *)
(* main returns, every goroutine ends and every connection is closed.      *)
(***************************************************************************)
EXTENDS Naturals, Sequences

CONSTANTS
  Wires,   \* clients of the wire server
  Cmds,    \* /sql commands, each a client of the chat server
  MaxAsk   \* bound: requests of a wire client

ASSUME ServersAssumption == Wires \cap Cmds = {} /\ MaxAsk \in Nat

VARIABLES
  \* main
  ctxDone,  \* the root context is cancelled
  mainPc,   \* "serve", "drain", "exited"
  why,      \* which case of the first select was taken: "signal", "server"
  said,     \* what main logged last: "stopped", "timeout"
  errCh,    \* errors in the channel (capacity 2)
  \* the servers
  srv,      \* srv[s]: ListenAndServe is at "listen" or "accept", or "gone"
  open,     \* open[s]: the listener of s accepts connections
  \* the connections
  conn,     \* conn[c]: where the handler goroutine of c is
  inbox,    \* inbox[c]: messages of the client not yet read
  outbox,   \* outbox[c]: messages of the server not yet read
  cur,      \* cur[c]: the request whose statement c executes
  hal,      \* hal[c]: the statement's HAL call: "none", "sent", "silent", "ok",
            \* "failed"
  \* the plugin
  tasks,    \* tasks of the server thread
  cmd,      \* cmd[k]: where the command is
  msg,      \* msg[k]: the message scheduled for the player
  told,     \* told[k]: the messages the player has seen
  cut,      \* cut[k]: the network has lost the command's connection
  \* the wire clients and history
  client,   \* client[w]: "off", "wait", "idle", "gone"
  asked,    \* asked[w]: number of the latest request
  batched,  \* batched[w]: the client has used the extended protocol
  stale,    \* stale[w]: it saw the end of an answer it was not waiting for
  effect    \* effect[c][n]: how often statement n of client c took effect

mainVars   == <<mainPc, why, said, errCh>>
serverVars == <<srv, open>>
connVars   == <<conn, inbox, outbox, cur, hal>>
pluginVars == <<cmd, msg, told, cut>>
clientVars == <<client, asked, batched, stale>>
vars == <<ctxDone, mainVars, serverVars, connVars, tasks, pluginVars,
          clientVars, effect>>

ServerNames == {"pg", "chat"}
Conns       == Wires \cup Cmds
ServerOf(c) == IF c \in Wires THEN "pg" ELSE "chat"

Alive == mainPc # "exited"

Message(k, n) == [kind |-> k, id |-> n]

-----------------------------------------------------------------------------
(* main.                                                                   *)

Signal ==
  /\ Alive /\ ~ctxDone /\ ctxDone' = TRUE
  /\ UNCHANGED <<mainVars, serverVars, connVars, tasks, pluginVars, clientVars,
                 effect>>

ReceiveErrPeek(n) == n
ReceiveErr(n) == n - 1

\* The first select: a server has returned, or the context is cancelled.
MainServerReturned ==
  /\ mainPc = "serve" /\ errCh > 0
  /\ errCh' = ReceiveErr(errCh) /\ why' = "server"
  /\ ctxDone' = TRUE /\ mainPc' = "drain"
  /\ UNCHANGED <<said, serverVars, connVars, tasks, pluginVars, clientVars, effect>>

MainCancelled ==
  /\ mainPc = "serve" /\ ctxDone
  /\ why' = "signal" /\ mainPc' = "drain"
  /\ UNCHANGED <<ctxDone, said, errCh, serverVars, connVars, tasks, pluginVars,
                 clientVars, effect>>

\* main returns: the goroutines end with it and the connections are closed.
Exit ==
  /\ mainPc' = "exited"
  /\ conn' = [c \in Conns |-> IF conn[c] = "none" THEN "none" ELSE "end"]
  /\ inbox' = [c \in Conns |-> <<>>]
  /\ cur' = [c \in Conns |-> 0]
  /\ hal' = [c \in Conns |-> "none"]
  /\ open' = [s \in ServerNames |-> FALSE]

\* The second select: one more value of errCh, or 30 seconds.
MainDone ==
  /\ mainPc = "drain" /\ errCh > 0
  /\ errCh' = ReceiveErr(errCh) /\ said' = "stopped" /\ Exit
  /\ UNCHANGED <<ctxDone, why, srv, outbox, tasks, pluginVars, clientVars, effect>>

MainTimeout ==
  /\ mainPc = "drain"
  /\ said' = "timeout" /\ Exit
  /\ UNCHANGED <<ctxDone, why, errCh, srv, outbox, tasks, pluginVars, clientVars,
                 effect>>

-----------------------------------------------------------------------------
(* ListenAndServe of both servers.  A transient Accept error only makes    *)
(* the loop go round.                                                      *)

SendErrTwice(n) == n + 2
SendErr(n) == n + 1

Listen(s) ==
  /\ Alive /\ srv[s] = "listen"
  /\ \/ /\ srv' = [srv EXCEPT ![s] = "accept"]
        /\ open' = [open EXCEPT ![s] = TRUE]
        /\ UNCHANGED errCh
     \/ /\ srv' = [srv EXCEPT ![s] = "gone"]
        /\ errCh' = SendErr(errCh)
        /\ UNCHANGED open
  /\ UNCHANGED <<ctxDone, mainPc, why, said, connVars, tasks, pluginVars,
                 clientVars, effect>>

\* The goroutine that closes the listener; waiting connections are reset.
CloseListener(s) ==
  /\ Alive /\ ctxDone /\ open[s]
  /\ open' = [open EXCEPT ![s] = FALSE]
  /\ conn' = [c \in Conns |-> IF ServerOf(c) = s /\ conn[c] = "backlog" THEN "end"
                              ELSE conn[c]]
  /\ UNCHANGED <<ctxDone, mainVars, srv, inbox, outbox, cur, hal, tasks,
                 pluginVars, clientVars, effect>>

ServeReturns(s) ==
  /\ Alive /\ srv[s] = "accept" /\ ~open[s]
  /\ srv' = [srv EXCEPT ![s] = "gone"]
  /\ errCh' = SendErr(errCh)
  /\ UNCHANGED <<ctxDone, mainPc, why, said, open, connVars, tasks, pluginVars,
                 clientVars, effect>>

Accept(c) ==
  /\ Alive /\ srv[ServerOf(c)] = "accept" /\ conn[c] = "backlog"
  /\ conn' = [conn EXCEPT ![c] = IF c \in Wires THEN "startup" ELSE "read"]
  /\ UNCHANGED <<ctxDone, mainVars, serverVars, inbox, outbox, cur, hal, tasks,
                 pluginVars, clientVars, effect>>

-----------------------------------------------------------------------------
(* Statements: Execute, reduced to one HAL call.                           *)

StartExecute(c, n) ==
  /\ conn' = [conn EXCEPT ![c] = "exec"]
  /\ cur' = [cur EXCEPT ![c] = n]
  /\ hal' = [hal EXCEPT ![c] = "sent"]
  /\ tasks' = Append(tasks, [kind |-> "hal", to |-> c, id |-> n])

\* The plugin will never answer the request, and recv waits for it without a
\* deadline.  A call that then waits for the client's mutex for ever counts as
\* silent itself.
HalSilent(c) ==
  /\ Alive /\ hal[c] = "sent"
  /\ hal' = [hal EXCEPT ![c] = "silent"]
  /\ UNCHANGED <<ctxDone, mainVars, serverVars, conn, inbox, outbox, cur, tasks,
                 pluginVars, clientVars, effect>>

\* The plugin reports an error or the link breaks before the answer; in the
\* second case the task stays with the server thread.
HalFails(c) ==
  /\ Alive /\ hal[c] \in {"sent", "silent"}
  /\ hal' = [hal EXCEPT ![c] = "failed"]
  /\ UNCHANGED <<ctxDone, mainVars, serverVars, conn, inbox, outbox, cur, tasks,
                 pluginVars, clientVars, effect>>

VerdictBlind(c) == "done"
Verdict(c) == IF hal[c] = "ok" THEN "done" ELSE "error"

-----------------------------------------------------------------------------
(* handleConn of the wire server.                                          *)

\* An answer ends with ReadyForQuery.
RepliesBare(k, n) == IF k = "error" THEN <<Message(k, n)>>
                     ELSE <<Message(k, n), Message("ready", n)>>
RepliesTwice(k, n) == <<Message(k, n), Message("ready", n), Message("ready", n)>>
Replies(k, n) == <<Message(k, n), Message("ready", n)>>

Read(c) == inbox' = [inbox EXCEPT ![c] = Tail(@)]
Send(c, ms) == outbox' = [outbox EXCEPT ![c] = @ \o ms]
HandlerAt(c, l) == conn' = [conn EXCEPT ![c] = l]

\* startupHandshake: encryption is refused, a CancelRequest ends it.
Startup(w) ==
  /\ Alive /\ conn[w] = "startup" /\ inbox[w] # <<>>
  /\ Read(w)
  /\ LET m == Head(inbox[w])
     IN  \/ m.kind = "ssl" /\ Send(w, <<Message("N", 0)>>) /\ UNCHANGED conn
         \/ /\ m.kind = "startup"
            /\ Send(w, <<Message("ready", 0)>>) /\ HandlerAt(w, "read")
         \/ m.kind \in {"cancel", "eof"} /\ HandlerAt(w, "end") /\ UNCHANGED outbox
  /\ UNCHANGED <<ctxDone, mainVars, serverVars, cur, hal, tasks, pluginVars,
                 clientVars, effect>>

\* The receive loop up to Execute; a query may fail to parse.
ReadMessage(w) ==
  /\ Alive /\ conn[w] = "read" /\ inbox[w] # <<>>
  /\ Read(w)
  /\ LET m == Head(inbox[w])
     IN  \/ /\ m.kind = "query" /\ StartExecute(w, m.id) /\ UNCHANGED outbox
         \/ /\ m.kind \in {"query", "extended"} /\ Send(w, Replies("error", m.id))
            /\ UNCHANGED <<conn, cur, hal, tasks>>
         \/ /\ m.kind = "password" /\ UNCHANGED <<conn, outbox, cur, hal, tasks>>
         \/ /\ m.kind \in {"terminate", "eof"} /\ HandlerAt(w, "end")
            /\ UNCHANGED <<outbox, cur, hal, tasks>>
  /\ UNCHANGED <<ctxDone, mainVars, serverVars, pluginVars, clientVars, effect>>

\* handleQuery after Execute has returned.
AnswerQuery(w) ==
  /\ Alive /\ conn[w] = "exec" /\ hal[w] \in {"ok", "failed"}
  /\ Send(w, Replies(Verdict(w), cur[w]))
  /\ HandlerAt(w, "read")
  /\ hal' = [hal EXCEPT ![w] = "none"]
  /\ UNCHANGED <<ctxDone, mainVars, serverVars, inbox, cur, tasks, pluginVars,
                 clientVars, effect>>

-----------------------------------------------------------------------------
(* handleConn of the chat server: a line in, a line out, close.            *)

ReadLine(k) ==
  /\ Alive /\ conn[k] = "read" /\ inbox[k] # <<>> /\ ~cut[k]
  /\ Read(k)
  /\ \/ Head(inbox[k]).kind = "line" /\ StartExecute(k, 1) /\ UNCHANGED outbox
     \/ /\ Head(inbox[k]).kind = "line"      \* too large, or a syntax error
        /\ Send(k, <<Message("error", 1)>>) /\ HandlerAt(k, "end")
        /\ UNCHANGED <<cur, hal, tasks>>
     \/ /\ Head(inbox[k]).kind = "eof" /\ HandlerAt(k, "end")
        /\ UNCHANGED <<outbox, cur, hal, tasks>>
  /\ UNCHANGED <<ctxDone, mainVars, serverVars, pluginVars, clientVars, effect>>

AnswerLine(k) ==
  /\ Alive /\ conn[k] = "exec" /\ hal[k] \in {"ok", "failed"}
  /\ Send(k, <<Message(Verdict(k), 1)>>)
  /\ HandlerAt(k, "end")
  /\ hal' = [hal EXCEPT ![k] = "none"]
  /\ UNCHANGED <<ctxDone, mainVars, serverVars, inbox, cur, tasks, pluginVars,
                 clientVars, effect>>

-----------------------------------------------------------------------------
(* The server thread runs its tasks in order: HAL requests and messages.   *)

RunTask ==
  /\ tasks # <<>>
  /\ tasks' = Tail(tasks)
  /\ LET t == Head(tasks)
     IN  \/ /\ t.kind = "hal"
            /\ effect' = [effect EXCEPT ![t.to][t.id] = @ + 1]
            /\ hal' = IF hal[t.to] = "sent" /\ cur[t.to] = t.id
                      THEN [hal EXCEPT ![t.to] = "ok"] ELSE hal
            /\ UNCHANGED <<cmd, told>>
         \/ /\ t.kind = "tell"
            /\ told' = [told EXCEPT ![t.to] = Append(@, msg[t.to])]
            /\ cmd' = [cmd EXCEPT ![t.to] = "told"]
            /\ UNCHANGED <<hal, effect>>
  /\ UNCHANGED <<ctxDone, mainVars, serverVars, conn, inbox, outbox, cur, msg, cut,
                 clientVars>>

-----------------------------------------------------------------------------
(* The /sql command: onCommand and its asynchronous task.                  *)

Tell(k, m) ==
  /\ msg' = [msg EXCEPT ![k] = m]
  /\ cmd' = [cmd EXCEPT ![k] = "tell"]
  /\ tasks' = Append(tasks, [kind |-> "tell", to |-> k, id |-> 0])
  /\ UNCHANGED <<told, cut>>

\* On the server thread: refuse at once, or leave the rest to another thread.
onCommand(k) ==
  /\ cmd[k] = "new"
  /\ \/ cmd' = [cmd EXCEPT ![k] = "dial"] /\ UNCHANGED told
     \/ /\ cmd' = [cmd EXCEPT ![k] = "told"]
        /\ told' = [told EXCEPT ![k] = <<"usage">>]
  /\ UNCHANGED <<ctxDone, mainVars, serverVars, connVars, tasks, msg, cut,
                 clientVars, effect>>

Connect(k) ==
  /\ cmd[k] = "dial" /\ open["chat"]
  /\ conn' = [conn EXCEPT ![k] = "backlog"]
  /\ inbox' = [inbox EXCEPT ![k] = <<Message("line", 1)>>]
  /\ cmd' = [cmd EXCEPT ![k] = "wait"]
  /\ UNCHANGED <<ctxDone, mainVars, serverVars, outbox, cur, hal, tasks, msg,
                 told, cut, clientVars, effect>>

\* Refused, or no connection within 5 seconds.
ConnectFails(k) ==
  /\ cmd[k] = "dial" /\ Tell(k, "failed")
  /\ UNCHANGED <<ctxDone, mainVars, serverVars, connVars, clientVars, effect>>

\* readLine returns a line, or null when the engine has closed.
ReadAnswer(k) ==
  /\ cmd[k] = "wait" /\ ~cut[k]
  /\ \/ outbox[k] # <<>> /\ Tell(k, Head(outbox[k]).kind)
     \/ outbox[k] = <<>> /\ conn[k] = "end" /\ Tell(k, "failed")
  /\ UNCHANGED <<ctxDone, mainVars, serverVars, connVars, clientVars, effect>>

ReadTimeoutNever(k) == FALSE /\ UNCHANGED vars
\* The socket timeout of 30 seconds; the handler may be anywhere.
ReadTimeout(k) ==
  /\ cmd[k] = "wait" /\ Tell(k, "failed")
  /\ inbox' = IF conn[k] = "end" THEN inbox
               ELSE [inbox EXCEPT ![k] = Append(@, Message("eof", 0))]
  /\ UNCHANGED <<ctxDone, mainVars, serverVars, conn, outbox, cur, hal,
                 clientVars, effect>>

\* The network or the engine's host goes silent.
Cut(k) ==
  /\ cmd[k] = "wait" /\ ~cut[k]
  /\ cut' = [cut EXCEPT ![k] = TRUE]
  /\ UNCHANGED <<ctxDone, mainVars, serverVars, connVars, tasks, cmd, msg, told,
                 clientVars, effect>>

-----------------------------------------------------------------------------
(* Wire clients: they wait for ReadyForQuery before the next request.      *)

Openings == {<<"ssl", "startup", "password">>, <<"cancel">>}

Dial(w) ==
  /\ client[w] = "off" /\ open["pg"]
  /\ \E o \in Openings :
       inbox' = [inbox EXCEPT ![w] = [i \in DOMAIN o |-> Message(o[i], 0)]]
  /\ conn' = [conn EXCEPT ![w] = "backlog"]
  /\ client' = [client EXCEPT ![w] = "wait"]
  /\ UNCHANGED <<ctxDone, mainVars, serverVars, outbox, cur, hal, tasks,
                 pluginVars, asked, batched, stale, effect>>

Ask(w) ==
  /\ client[w] = "idle" /\ conn[w] # "end" /\ asked[w] < MaxAsk
  /\ client' = [client EXCEPT ![w] = "wait"]
  /\ asked' = [asked EXCEPT ![w] = @ + 1]
  /\ LET n == asked[w] + 1
     IN  \/ /\ inbox' = [inbox EXCEPT ![w] = Append(@, Message("query", n))]
            /\ UNCHANGED batched
         \/ /\ inbox' = [inbox EXCEPT ![w] =
                           @ \o <<Message("extended", n), Message("extended", n)>>]
            /\ batched' = [batched EXCEPT ![w] = TRUE]
  /\ UNCHANGED <<ctxDone, mainVars, serverVars, conn, outbox, cur, hal, tasks,
                 pluginVars, stale, effect>>

\* The client reads up to the next ReadyForQuery.
Take(w) ==
  /\ client[w] \in {"wait", "idle"}
  /\ \E i \in DOMAIN outbox[w] :
       /\ outbox[w][i].kind = "ready"
       /\ \A j \in 1 .. (i - 1) : outbox[w][j].kind # "ready"
       /\ outbox' = [outbox EXCEPT ![w] = SubSeq(@, i + 1, Len(@))]
       /\ stale' = [stale EXCEPT ![w] = @ \/ outbox[w][i].id # asked[w]
                                                \/ client[w] = "idle"]
  /\ client' = [client EXCEPT ![w] = "idle"]
  /\ UNCHANGED <<ctxDone, mainVars, serverVars, conn, inbox, cur, hal, tasks,
                 pluginVars, asked, batched, effect>>

\* The client says goodbye, or disappears while it waits.
Leave(w) ==
  /\ client[w] \in {"wait", "idle"} /\ conn[w] # "end"
  /\ client' = [client EXCEPT ![w] = "gone"]
  /\ inbox' = [inbox EXCEPT ![w] =
       Append(@, Message(IF client[w] = "idle" THEN "terminate" ELSE "eof", 0))]
  /\ UNCHANGED <<ctxDone, mainVars, serverVars, conn, outbox, cur, hal, tasks,
                 pluginVars, asked, batched, stale, effect>>

-----------------------------------------------------------------------------
Init ==
  /\ ctxDone = FALSE /\ mainPc = "serve" /\ why = "none" /\ said = "none"
  /\ errCh = 0
  /\ srv = [s \in ServerNames |-> "listen"]
  /\ open = [s \in ServerNames |-> FALSE]
  /\ conn = [c \in Conns |-> "none"]
  /\ inbox = [c \in Conns |-> <<>>] /\ outbox = [c \in Conns |-> <<>>]
  /\ cur = [c \in Conns |-> 0] /\ hal = [c \in Conns |-> "none"]
  /\ tasks = <<>>
  /\ cmd = [k \in Cmds |-> "new"] /\ msg = [k \in Cmds |-> "none"]
  /\ told = [k \in Cmds |-> <<>>] /\ cut = [k \in Cmds |-> FALSE]
  /\ client = [w \in Wires |-> "off"] /\ asked = [w \in Wires |-> 0]
  /\ batched = [w \in Wires |-> FALSE] /\ stale = [w \in Wires |-> FALSE]
  /\ effect = [c \in Conns |-> [n \in 1 .. (MaxAsk + 1) |-> 0]]

Main == MainServerReturned \/ MainCancelled \/ MainDone \/ MainTimeout

Serve(s) == Listen(s) \/ CloseListener(s) \/ ServeReturns(s)

Handle(c) ==
  \/ Accept(c)
  \/ c \in Wires /\ (Startup(c) \/ ReadMessage(c) \/ AnswerQuery(c))
  \/ c \in Cmds /\ (ReadLine(c) \/ AnswerLine(c))

Command(k) == Connect(k) \/ ConnectFails(k) \/ ReadAnswer(k) \/ ReadTimeout(k)

Next ==
  \/ Signal \/ Main \/ RunTask
  \/ \E s \in ServerNames : Serve(s)
  \/ \E c \in Conns : Handle(c) \/ HalSilent(c) \/ HalFails(c)
  \/ \E k \in Cmds : onCommand(k) \/ Command(k) \/ Cut(k)
  \/ \E w \in Wires : Dial(w) \/ Ask(w) \/ Take(w) \/ Leave(w)

\* Goroutines, plugin threads and timers keep running, and clients read what
\* they are sent.  Signals, requests, failures and lost connections need not
\* happen.
Fairness ==
  /\ WF_vars(Main) /\ WF_vars(RunTask)
  /\ \A s \in ServerNames : WF_vars(Serve(s))
  /\ \A c \in Conns : WF_vars(Handle(c))
  /\ \A k \in Cmds : WF_vars(Command(k))
  /\ \A w \in Wires : WF_vars(Take(w))

Spec == Init /\ [][Next]_vars /\ Fairness

-----------------------------------------------------------------------------
(* Properties.                                                             *)

\* Every variable has a value of its type; errCh never holds more than its
\* capacity, so no ListenAndServe goroutine blocks on it.
TypeOK ==
  /\ ctxDone \in BOOLEAN /\ mainPc \in {"serve", "drain", "exited"}
  /\ why \in {"none", "signal", "server"} /\ said \in {"none", "stopped", "timeout"}
  /\ errCh \in 0 .. 2
  /\ srv \in [ServerNames -> {"listen", "accept", "gone"}]
  /\ open \in [ServerNames -> BOOLEAN]
  /\ conn \in [Conns -> {"none", "backlog", "startup", "read", "exec", "end"}]
  /\ cur \in [Conns -> 0 .. MaxAsk + 1]
  /\ hal \in [Conns -> {"none", "sent", "silent", "ok", "failed"}]
  /\ cmd \in [Cmds -> {"new", "dial", "wait", "tell", "told"}]
  /\ cut \in [Cmds -> BOOLEAN]
  /\ client \in [Wires -> {"off", "wait", "idle", "gone"}]
  /\ asked \in [Wires -> 0 .. MaxAsk]
  /\ batched \in [Wires -> BOOLEAN] /\ stale \in [Wires -> BOOLEAN]
  /\ \A c \in Conns : effect[c] \in [1 .. (MaxAsk + 1) -> Nat]

\* A success that a client or a player is told of is the statement's: it has
\* taken effect.  No statement takes effect twice, whatever times out.
SuccessIsTrue ==
  /\ \A c \in Conns : \A i \in DOMAIN outbox[c] :
       outbox[c][i].kind = "done" => effect[c][outbox[c][i].id] = 1
  /\ \A k \in Cmds : \A i \in DOMAIN told[k] : told[k][i] = "done" => effect[k][1] = 1
  /\ \A c \in Conns : \A n \in DOMAIN effect[c] : effect[c][n] <= 1

\* A wire client that keeps to simple queries never takes the end of one
\* answer for the end of another: the server sends exactly one ReadyForQuery
\* for the start and for every query, on every path.
InStep == \A w \in Wires : ~batched[w] => ~stale[w]

\* "all servers stopped" is true when a server's return started the shutdown;
\* after a signal main waits for one server only, and it holds for one.
StoppedTrue ==
  said = "stopped" =>
    /\ \E s \in ServerNames : srv[s] = "gone"
    /\ why = "server" => \A s \in ServerNames : srv[s] = "gone"

\* The player is told how a /sql command ended exactly once, even when the
\* engine, its host, the network or the plugin's answer to a HAL call goes silent.
CommandsAnswered == \A k \in Cmds : cmd[k] = "dial" ~> cmd[k] = "told" /\ Len(told[k]) = 1

\* A wire client that waits gets its ReadyForQuery or its connection is
\* closed, unless a HAL call is left without an answer: it then holds the
\* client's mutex, and every later statement waits with it.
QueriesAnswered ==
  \A w \in Wires :
    client[w] = "wait" ~> \/ client[w] # "wait" \/ conn[w] = "end"
                         \/ \E c \in Conns : hal[c] = "silent"

=============================================================================
