------------------------------- MODULE HalLink -------------------------------
(***************************************************************************)
(* The link between the engine and the Minecraft plugin: hal.Client with   *)
(* its mutex, its single connection and its redial loop; the plugin's      *)
(* handler thread per connection, the chunk futures and the task queue of  *)
(* the server thread; connections that break and engines that die.         *)
(*                                                                         *)
(* Source: internal/hal/client.go, TCPServer.java, BlockHandler.java.      *)
(*                                                                         *)
(* Granularity: the mutex, dialling, sending and receiving are separate    *)
(* steps of a caller; reading a packet (route), completing a chunk future  *)
(* and running one scheduled task are steps of the plugin.  A scheduled    *)
(* task runs alone on the server thread, whatever number of blocks it has. *)
(* Batch calls of zero blocks are left out: no code in the engine makes    *)
(* them.  So are the backoff delays, which only separate dial attempts.    *)
(***************************************************************************)
EXTENDS Naturals, Sequences

CONSTANTS
  Callers,     \* goroutines that use the client
  NoCaller,    \* the mutex is free
  Ops,         \* the operations that callers use
  MaxCalls,    \* bound: calls over the whole behaviour
  MaxConns,    \* bound: connections that are dialled
  MaxBreaks,   \* bound: connections that break
  MaxFails,    \* bound: plugin tasks that throw and are answered with ERROR
  MaxSilent,   \* bound: requests that the plugin never answers
  MaxCrashes,  \* bound: engine deaths
  MaxStops,    \* bound: times the plugin is disabled
  MayShutdown  \* whether SIGTERM may cancel the root context

ASSUME LinkAssumption ==
  /\ NoCaller \notin Callers
  /\ Ops \subseteq {"READ", "WRITE", "BATCH_READ", "BATCH_WRITE",
                    "FORCE_LOAD", "IS_CHUNK_LOADED"}
  /\ MaxConns # 0
  /\ {MaxCalls, MaxConns, MaxBreaks, MaxFails, MaxSilent, MaxCrashes,
      MaxStops} \subseteq Nat
  /\ MayShutdown \in BOOLEAN

VARIABLES
  \* the engine
  mu,       \* the holder of Client.mu
  conn,     \* Client.conn: the number of the connection, 0 for nil
  pc,       \* "idle", "lock", "dial", "send", "recv"
  call,     \* the call a caller is executing, 0 for none
  ctxDone,  \* the root context is cancelled
  \* the network
  broken,   \* connections that have failed
  net,      \* requests sent and not yet read by their handler thread
  resp,     \* resp[g]: the responses on connection g not yet received
  \* the plugin
  running,  \* TCPServer.running
  loading,  \* FORCE_LOAD requests whose chunk future is pending
  tasks,    \* the scheduler's queue for the server thread
  block, ticket,
  \* history and bounds
  op, stage, answer, result,
  ncalls, nconns, breaks, fails, silent, crashes, stops

client  == <<mu, conn, pc, call, ctxDone>>
network == <<broken, net, resp>>
work    == <<loading, tasks, block, ticket>>
plugin  == <<running, work>>
record  == <<op, stage, answer, result>>
bounds  == <<ncalls, nconns, breaks, fails, silent, crashes, stops>>
vars    == <<client, network, plugin, record, bounds>>

Calls == 1 .. MaxCalls
Conns == 1 .. MaxConns

NoAnswer == [kind |-> "NONE", vals |-> <<>>]
Error    == [kind |-> "ERROR", vals |-> <<>>]

-----------------------------------------------------------------------------
(* Responses.  A DATA frame is a length word and a body.                   *)

Ack          == [kind |-> "ACK", len |-> 0, body |-> <<>>]
Frame(vs)    == [kind |-> "DATA", len |-> Len(vs), body |-> vs]
ErrorFrame   == [kind |-> "ERROR", len |-> 0, body |-> <<>>]

\* The first byte of a big-endian 32-bit word.
FirstByte(n) == (n \div 16777216) % 256

\* What the client makes of a frame: parseDataResponse and
\* parseBatchDataResponse return the body, IsChunkLoaded tests data[0].
Decode(o, f) ==
  CASE f.kind = "ERROR"       -> Error
    [] f.kind = "ACK"         -> [kind |-> "ACK", vals |-> <<>>]
    [] f.kind = "DATA" /\ o = "IS_CHUNK_LOADED" ->
         [kind |-> "DATA", vals |-> <<IF FirstByte(f.len) = 1 THEN 1 ELSE 0>>]
    [] OTHER                  -> [kind |-> "DATA", vals |-> f.body]

-----------------------------------------------------------------------------
(* The client.                                                             *)

\* A method of Client is called.
Invoke(c, o) ==
  /\ pc[c] = "idle" /\ ncalls < MaxCalls
  /\ ncalls' = ncalls + 1
  /\ pc' = [pc EXCEPT ![c] = "lock"]
  /\ call' = [call EXCEPT ![c] = ncalls + 1]
  /\ op' = [op EXCEPT ![ncalls + 1] = o]
  /\ stage' = [stage EXCEPT ![ncalls + 1] = "invoked"]
  /\ UNCHANGED <<mu, conn, ctxDone, network, plugin, answer, result, nconns,
                 breaks, fails, silent, crashes, stops>>

MuFreeIgnored == TRUE
MuFree == mu = NoCaller

\* mu.Lock and the test of ensureConn.
Lock(c) ==
  /\ pc[c] = "lock" /\ MuFree
  /\ mu' = c
  /\ pc' = [pc EXCEPT ![c] = IF conn = 0 THEN "dial" ELSE "send"]
  /\ UNCHANGED <<conn, call, ctxDone, network, plugin, record, bounds>>

\* connect: a dial attempt succeeds.
Dial(c) ==
  /\ pc[c] = "dial" /\ ~ctxDone /\ running /\ nconns < MaxConns
  /\ nconns' = nconns + 1
  /\ conn' = nconns + 1
  /\ pc' = [pc EXCEPT ![c] = "send"]
  /\ UNCHANGED <<mu, call, ctxDone, network, plugin, record, ncalls, breaks,
                 fails, silent, crashes, stops>>

\* The method returns r and releases the mutex.
Finish(c, r) ==
  /\ mu' = NoCaller
  /\ pc' = [pc EXCEPT ![c] = "idle"]
  /\ call' = [call EXCEPT ![c] = 0]
  /\ result' = [result EXCEPT ![call[c]] = r]
  /\ UNCHANGED <<op, stage, answer>>

\* A dial attempt fails and connect sleeps before the next one.
DialRetry(c) == pc[c] = "dial" /\ UNCHANGED vars

GivesUpNever == FALSE
GivesUp == ctxDone

\* connect gives up when the context is cancelled.
DialCancelled(c) ==
  /\ pc[c] = "dial" /\ GivesUp
  /\ Finish(c, Error)
  /\ UNCHANGED <<conn, ctxDone, network, plugin, bounds>>

Send(c) ==
  /\ pc[c] = "send" /\ conn \notin broken
  /\ net' = net \cup {[conn |-> conn, call |-> call[c]]}
  /\ pc' = [pc EXCEPT ![c] = "recv"]
  /\ UNCHANGED <<mu, conn, call, ctxDone, broken, resp, plugin, record, bounds>>

\* A failed write or read on the socket: disconnect, return the error.
LinkFails(c) ==
  /\ pc[c] \in {"send", "recv"} /\ conn \in broken
  /\ conn' = 0
  /\ Finish(c, Error)
  /\ UNCHANGED <<ctxDone, network, plugin, bounds>>

\* The next response on the connection, taken to be the caller's own.
Recv(c) ==
  /\ pc[c] = "recv" /\ conn # 0 /\ resp[conn] # <<>>
  /\ resp' = [resp EXCEPT ![conn] = Tail(@)]
  /\ Finish(c, Decode(op[call[c]], Head(resp[conn])))
  /\ UNCHANGED <<conn, ctxDone, broken, net, plugin, bounds>>

-----------------------------------------------------------------------------
(* The plugin.                                                             *)

\* handleClient reads a packet and route hands it on.  What the engine sent
\* before a connection broke may still be read.
Route(m) ==
  /\ m \in net
  /\ net' = net \ {m}
  /\ IF op[m.call] = "FORCE_LOAD"
     THEN loading' = loading \cup {m} /\ UNCHANGED tasks
     ELSE tasks' = Append(tasks, m) /\ UNCHANGED loading
  /\ UNCHANGED <<client, broken, resp, running, block, ticket, record, bounds>>

\* A request that is lost with its connection.
Lose(m) ==
  /\ m \in net /\ m.conn \in broken
  /\ net' = net \ {m}
  /\ UNCHANGED <<client, broken, resp, plugin, record, bounds>>

\* getChunkAtAsync completes: the ticket is added, the ACK is scheduled.
ChunkLoaded(m) ==
  /\ m \in loading
  /\ loading' = loading \ {m}
  /\ ticket' = TRUE
  /\ tasks' = Append(tasks, m)
  /\ stage' = [stage EXCEPT ![m.call] = "applied"]
  /\ answer' = [answer EXCEPT ![m.call] = [kind |-> "ACK", vals |-> <<>>]]
  /\ UNCHANGED <<client, network, running, block, op, result, bounds>>

\* The future completes exceptionally: thenAccept never runs.
ChunkLost(m) ==
  /\ m \in loading /\ silent < MaxSilent
  /\ loading' = loading \ {m}
  /\ silent' = silent + 1
  /\ UNCHANGED <<client, network, running, tasks, block, ticket, record, ncalls,
                 nconns, breaks, fails, crashes, stops>>

\* A response goes out on the request's connection if that is still open.
Respond(m, f) ==
  resp' = IF m.conn = conn /\ m.conn \notin broken
          THEN [resp EXCEPT ![m.conn] = Append(@, f)] ELSE resp

CountShort(o) == IF o = "WRITE" THEN 1 ELSE IF o = "BATCH_WRITE" THEN 1 ELSE 0

\* The blocks a request writes, in the order of handleBatchWrite's loop.
Count(o) == CASE o = "WRITE" -> 1 [] o = "BATCH_WRITE" -> 2 [] OTHER -> 0

Place(k, j) == [i \in 1 .. 2 |-> IF i <= j THEN k ELSE block[i]]

\* The response of a task that runs to its end.
Handle(k) ==
  CASE op[k] = "READ"            -> Frame(<<block[1]>>)
    [] op[k] = "BATCH_READ"      -> Frame(<<block[1], block[2]>>)
    [] op[k] = "IS_CHUNK_LOADED" -> Frame(<<IF ticket THEN 1 ELSE 0>>)
    [] OTHER                     -> Ack

\* The server thread runs the next task to its end.
RunTask ==
  /\ tasks # <<>>
  /\ LET m == Head(tasks)
         k == m.call
     IN  /\ block' = Place(k, Count(op[k]))
         /\ Respond(m, Handle(k))
         /\ stage' = [stage EXCEPT ![k] = "applied"]
         /\ answer' = [answer EXCEPT ![k] =
                         [kind |-> Handle(k).kind, vals |-> Handle(k).body]]
  /\ tasks' = Tail(tasks)
  /\ UNCHANGED <<client, broken, net, running, loading, ticket, op, result, bounds>>

\* An exception after some of the blocks.
TaskThrows ==
  /\ tasks # <<>> /\ op[Head(tasks).call] # "FORCE_LOAD"
  /\ LET k == Head(tasks).call
     IN  /\ \E j \in 0 .. 1 : j <= Count(op[k]) /\ block' = Place(k, j)
         /\ stage' = [stage EXCEPT ![k] = "applied"]
         /\ answer' = [answer EXCEPT ![k] = Error]
  /\ tasks' = Tail(tasks)
  /\ UNCHANGED <<client, broken, net, running, loading, ticket, op, result, ncalls,
                 nconns, breaks, crashes, stops>>

\* The exception has a message, and writeError sends it.
TaskFails ==
  /\ fails < MaxFails /\ fails' = fails + 1 /\ UNCHANGED silent
  /\ TaskThrows
  /\ Respond(Head(tasks), ErrorFrame)

\* The exception has none: writeError itself throws and nothing is sent.
TaskSilent ==
  /\ silent < MaxSilent /\ silent' = silent + 1 /\ UNCHANGED fails
  /\ TaskThrows
  /\ UNCHANGED resp

-----------------------------------------------------------------------------
(* The environment.                                                        *)

Break ==
  /\ conn # 0 /\ conn \notin broken /\ breaks < MaxBreaks
  /\ breaks' = breaks + 1
  /\ broken' = broken \cup {conn}
  /\ UNCHANGED <<client, net, resp, plugin, record, ncalls, nconns, fails,
                 silent, crashes, stops>>

\* The engine dies and a new one starts; the requests of the old one are still
\* on their way.  NewClient's dial is folded into the first call's.
EngineCrash ==
  /\ crashes < MaxCrashes
  /\ crashes' = crashes + 1
  /\ mu' = NoCaller /\ conn' = 0 /\ ctxDone' = FALSE
  /\ pc' = [c \in Callers |-> "idle"]
  /\ call' = [c \in Callers |-> 0]
  /\ UNCHANGED <<network, plugin, record, ncalls, nconns, breaks, fails, silent,
                 stops>>

\* onDisable and stop: the listener and the connections are closed; packets
\* that no handler thread has read are lost with them, and the server cancels
\* the plugin's tasks and takes back its chunk tickets.  It runs on the server thread, so no task is half done.
Disable ==
  /\ running /\ stops < MaxStops
  /\ stops' = stops + 1
  /\ running' = FALSE
  /\ broken' = broken \cup ({conn} \ {0})
  /\ net' = {} /\ loading' = {} /\ tasks' = <<>> /\ ticket' = FALSE
  /\ UNCHANGED <<client, resp, block, record, ncalls, nconns, breaks, fails, silent,
                 crashes>>

\* onEnable and start.
Enable ==
  /\ ~running /\ running' = TRUE
  /\ UNCHANGED <<client, network, work, record, bounds>>

Shutdown ==
  /\ MayShutdown /\ ~ctxDone
  /\ ctxDone' = TRUE
  /\ UNCHANGED <<mu, conn, pc, call, network, plugin, record, bounds>>

\* All calls have been made; the engine waits for statements.
Quiet ==
  /\ ncalls = MaxCalls /\ \A c \in Callers : pc[c] = "idle"
  /\ UNCHANGED vars

-----------------------------------------------------------------------------
Init ==
  /\ mu = NoCaller /\ conn = 1 /\ ctxDone = FALSE
  /\ pc = [c \in Callers |-> "idle"]
  /\ call = [c \in Callers |-> 0]
  /\ broken = {} /\ net = {} /\ resp = [g \in Conns |-> <<>>]
  /\ running = TRUE /\ loading = {} /\ tasks = <<>>
  /\ block = [i \in 1 .. 2 |-> 0] /\ ticket = FALSE
  /\ op = [k \in Calls |-> "NONE"]
  /\ stage = [k \in Calls |-> "new"]
  /\ answer = [k \in Calls |-> NoAnswer]
  /\ result = [k \in Calls |-> NoAnswer]
  /\ ncalls = 0 /\ nconns = 1 /\ breaks = 0 /\ fails = 0 /\ silent = 0
  /\ crashes = 0 /\ stops = 0

Caller(c) ==
  \/ Lock(c) \/ Dial(c) \/ DialCancelled(c) \/ Send(c) \/ LinkFails(c) \/ Recv(c)

Plugin ==
  \/ \E m \in net : Route(m)
  \/ \E m \in loading : ChunkLoaded(m)
  \/ RunTask

Next ==
  \/ \E c \in Callers : \/ Caller(c) \/ DialRetry(c)
                          \/ \E o \in Ops : Invoke(c, o)
  \/ Plugin
  \/ \E m \in net : Lose(m)
  \/ \E m \in loading : ChunkLost(m)
  \/ TaskFails \/ TaskSilent \/ Break \/ EngineCrash \/ Disable \/ Enable
  \/ Shutdown \/ Quiet

Spec == Init /\ [][Next]_vars

\* Goroutines run, a dial attempt eventually succeeds, a disabled plugin comes
\* back, and the plugin reads its sockets, completes its chunk futures and
\* runs its queue.
FairSpec ==
  Spec /\ WF_vars(Plugin) /\ WF_vars(Enable) /\ \A c \in Callers : WF_vars(Caller(c))

-----------------------------------------------------------------------------
(* Properties.                                                             *)

Requests == [conn : Conns, call : Calls]
Answers  == [kind : {"NONE", "ERROR", "ACK", "DATA"},
             vals : UNION {[1 .. n -> 0 .. MaxCalls + 1] : n \in 0 .. 2}]

\* Every variable has a value of its type; in particular a caller that sends
\* or receives always has a connection.
TypeOK ==
  /\ mu \in Callers \cup {NoCaller}
  /\ conn \in 0 .. MaxConns /\ nconns \in 0 .. MaxConns
  /\ pc \in [Callers -> {"idle", "lock", "dial", "send", "recv"}]
  /\ \A c \in Callers : pc[c] \in {"send", "recv"} => conn # 0
  /\ call \in [Callers -> 0 .. MaxCalls]
  /\ broken \subseteq Conns /\ net \subseteq Requests /\ loading \subseteq Requests
  /\ \A i \in 1 .. Len(tasks) : tasks[i] \in Requests
  /\ block \in [1 .. 2 -> 0 .. MaxCalls] /\ ticket \in BOOLEAN /\ running \in BOOLEAN
  /\ answer \in [Calls -> Answers] /\ result \in [Calls -> Answers]

Device == INSTANCE BlockDevice WITH
  block <- block, ticket <- ticket, op <- op, stage <- stage,
  answer <- answer, result <- result

\* The link keeps hal.Storage's promise: each call of the client takes effect
\* at most once and atomically, and a caller gets the answer to its own
\* request or an error, through broken connections, redials, a plugin
\* that is disabled and enabled, and restarts of the engine.
ImplementsDevice == Device!Spec

\* Every call returns: nobody waits for ever for the mutex, for a connection
\* or for an answer.
CallsFinish == \A c \in Callers : pc[c] # "idle" ~> pc[c] = "idle"

=============================================================================
