------------------------------ MODULE Transport ------------------------------
(***************************************************************************)
(* The coordinator behind its TCP server, src/coordinator/                 *)
(* tcp_transport.cpp, with worker processes as clients (tools/fg_worker.cpp *)
(* and cuda/fg_cuda_worker.cu): the accept loop of serve(), one thread per *)
(* connection, stop(), and workers that are killed and started again.      *)
(*                                                                         *)
(* An incarnation <<w, b>> of a worker opens one connection, so it also    *)
(* names the connection.  A request travels as a whole (module Stream) and *)
(* a worker waits for each reply.  handle() and mark_worker_dead() are the *)
(* actions of Coordinator, under the mutex mu.                             *)
(***************************************************************************)
EXTENDS Coordinator

CONSTANTS
    Conns,         \* the incarnations <<worker, boot>> that are started
    Generations    \* the resource generations an incarnation may publish

ASSUME ConnAssumption ==
    /\ Conns \subseteq Workers \X Boots
    /\ Workers \subseteq ResourceIds
    /\ Generations \in [Conns -> SUBSET Nat]
    /\ \A c \in Conns : \A g \in Generations[c] :
          \E res \in ResourceMsgs : res.id = c[1] /\ res.gen = g

VARIABLES
    client,       \* where the program of a worker process is
    sent,         \* how many requests it has sent
    resGen,       \* the resource generation it publishes
    up,           \* the request on its way to the server: at most one
    down,         \* TRUE if a reply is on its way to the worker
    thread,       \* the server's side of a connection
    msg,          \* the message a connection's thread has taken from feed()
    sock,         \* TRUE while the server's socket of a connection is open
    connWorker,   \* conn_worker # 0
    serving,      \* TRUE until serve() returns
    stop,         \* how far stop() is
    missed        \* history: the connections serve() held when stop() closed the sockets

clientVars == <<client, sent, resGen>>
netVars    == <<up, down>>
serverVars == <<thread, msg, sock, connWorker, serving, stop, missed>>
tvars      == <<vars, clientVars, netVars, serverVars>>

(* The requests of a worker, in this order. *)
Program == <<"REGISTER", "PUBLISH_RESOURCE", "PUBLISH_LAYOUT">>

TInit ==
    /\ Init
    /\ client = [c \in Conns |-> "OFF"]
    /\ sent = [c \in Conns |-> 0]
    /\ resGen \in [Conns -> UNION {Generations[c] : c \in Conns}]
    /\ \A c \in Conns : resGen[c] \in Generations[c]
    /\ up = [c \in Conns |-> <<>>]
    /\ down = [c \in Conns |-> FALSE]
    /\ thread = [c \in Conns |-> "NONE"]
    /\ msg = [c \in Conns |-> <<>>]
    /\ sock = [c \in Conns |-> FALSE]
    /\ connWorker = [c \in Conns |-> FALSE]
    /\ serving = TRUE
    /\ stop = "NO"
    /\ missed = {}

running == stop = "NO"
listening == stop \in {"NO", "FLAGGED"}

-----------------------------------------------------------------------------
(* Worker processes. *)

(* TcpClient::connect by a new incarnation, started once its predecessors  *)
(* are dead.  A completed connection waits in the backlog; a refused one   *)
(* ends the process.                                                       *)
Start(c) ==
    /\ client[c] = "OFF"
    /\ \A d \in Conns : d[1] = c[1] /\ d[2] < c[2] => client[d] = "GONE"
    /\ client' = [client EXCEPT ![c] = IF listening THEN "SEND" ELSE "GONE"]
    /\ thread' = [thread EXCEPT ![c] = IF listening THEN "BACKLOG" ELSE "NONE"]
    /\ UNCHANGED <<vars, sent, resGen, netVars, sock, connWorker, serving, stop, msg, missed>>

(* The server's end is closed, or the connection was reset in the backlog. *)
Closed(c) ==
    \/ thread[c] = "RESET"
    \/ thread[c] \in {"PUSHED", "RECV", "HANDLE", "CLOSE", "DONE"} /\ ~sock[c]

(* send_frame, whose result no worker looks at *)
Send(c) ==
    /\ client[c] = "SEND"
    /\ sent' = [sent EXCEPT ![c] = @ + 1]
    /\ up' = [up EXCEPT ![c] = IF Closed(c) THEN <<>> ELSE <<Program[sent[c] + 1]>>]
    /\ client' = [client EXCEPT ![c] = "WAIT"]
    /\ UNCHANGED <<vars, resGen, down, serverVars>>

(* recv_frame returns, with a reply or because the connection is closed;   *)
(* the worker goes on in either case.                                      *)
Proceed(c) ==
    /\ client[c] = "WAIT"
    /\ down[c] \/ Closed(c)
    /\ down' = [down EXCEPT ![c] = FALSE]
    /\ client' = [client EXCEPT ![c] = IF sent[c] = Len(Program) THEN "READY" ELSE "SEND"]
    /\ UNCHANGED <<vars, sent, resGen, up, serverVars>>

(* The process is killed; what the server has not read yet may be lost. *)
Die(c) ==
    /\ client[c] \in {"SEND", "WAIT", "READY"}
    /\ client' = [client EXCEPT ![c] = "GONE"]
    /\ down' = [down EXCEPT ![c] = FALSE]
    /\ up' \in {up, [up EXCEPT ![c] = <<>>]}
    /\ UNCHANGED <<vars, sent, resGen, serverVars>>

-----------------------------------------------------------------------------
(* serve(): accept, remember the socket, start the thread, look at running. *)
Idle == \A c \in Conns : thread[c] \notin {"HELD", "PUSHED"}

Accept(c) ==
    /\ serving /\ listening /\ Idle
    /\ thread[c] = "BACKLOG"
    /\ thread' = [thread EXCEPT ![c] = "HELD"]
    /\ sock' = [sock EXCEPT ![c] = TRUE]
    /\ UNCHANGED <<vars, clientVars, netVars, connWorker, serving, stop, msg, missed>>

PushSocket(c) ==
    /\ thread[c] = "HELD"
    /\ thread' = [thread EXCEPT ![c] = "PUSHED"]
    /\ UNCHANGED <<vars, clientVars, netVars, sock, connWorker, serving, stop, msg, missed>>

StartThread(c) ==
    /\ thread[c] = "PUSHED"
    /\ thread' = [thread EXCEPT ![c] = "RECV"]
    /\ serving' = running
    /\ UNCHANGED <<vars, clientVars, netVars, sock, connWorker, stop, msg, missed>>

(* accept fails on the closed listening socket, after running was cleared. *)
LeaveServe ==
    /\ serving /\ ~listening /\ Idle
    /\ serving' = FALSE
    /\ UNCHANGED <<vars, clientVars, netVars, thread, sock, connWorker, stop, msg, missed>>

-----------------------------------------------------------------------------
(* A connection's thread. *)

(* Bug: the worker of a connection is noted only after handle(). *)
RecvUnnoted(c) ==
    /\ thread[c] = "RECV"
    /\ sock[c] /\ up[c] # <<>>
    /\ msg' = [msg EXCEPT ![c] = up[c]]
    /\ up' = [up EXCEPT ![c] = <<>>]
    /\ connWorker' = [connWorker EXCEPT ![c] = @ \/ up[c] = <<"PUBLISH_RESOURCE">>]
    /\ thread' = [thread EXCEPT ![c] = "HANDLE"]
    /\ UNCHANGED <<vars, clientVars, down, sock, serving, stop, missed>>

(* recv and feed return a message: a REGISTER binds the connection. *)
Recv(c) ==
    /\ thread[c] = "RECV"
    /\ sock[c] /\ up[c] # <<>>
    /\ msg' = [msg EXCEPT ![c] = up[c]]
    /\ up' = [up EXCEPT ![c] = <<>>]
    /\ connWorker' = [connWorker EXCEPT ![c] = @ \/ up[c] = <<"REGISTER">>]
    /\ thread' = [thread EXCEPT ![c] = "HANDLE"]
    /\ UNCHANGED <<vars, clientVars, down, sock, serving, stop, missed>>

(* handle() of a message; a refused one changes nothing. *)
Resource(c) == CHOOSE res \in ResourceMsgs : res.id = c[1] /\ res.gen = resGen[c]
Fresh(res) == Known(res.id) => resources[res.id].gen < res.gen
Acceptable(c, as) ==
    /\ OwnedBy(c[1], c[1])
    /\ resGen[c] >= resources[c[1]].gen
    /\ AllInserted(resources[c[1]].cap, as)

HandleRegister(c) == msg[c] = <<"REGISTER">> /\ Register(c[1], c[2])
HandleResource(c) ==
    /\ msg[c] = <<"PUBLISH_RESOURCE">>
    /\ IF Current(c[1], c[2]) /\ Fresh(Resource(c))
       THEN PublishResource(c[1], c[2], Resource(c)) ELSE UNCHANGED vars
HandleLayout(c) ==
    /\ msg[c] = <<"PUBLISH_LAYOUT">>
    /\ \E as \in LayoutMsgs :
          IF Current(c[1], c[2]) /\ Acceptable(c, as)
          THEN PublishLayout(c[1], c[2], c[1], resGen[c], as) ELSE UNCHANGED vars

(* Bug: a refused message gets no reply. *)
HandleAcceptedOnly(c) ==
    /\ thread[c] = "HANDLE"
    /\ HandleRegister(c) \/ HandleResource(c) \/ HandleLayout(c)
    /\ msg' = [msg EXCEPT ![c] = <<>>]
    /\ down' = [down EXCEPT ![c] = sock[c] /\ client[c] # "GONE" /\ vars' # vars]
    /\ thread' = [thread EXCEPT ![c] = "RECV"]
    /\ UNCHANGED <<clientVars, up, sock, connWorker, serving, stop, missed>>

(* handle() under mu, then send_all: the reply is lost if nobody is there. *)
Handle(c) ==
    /\ thread[c] = "HANDLE"
    /\ HandleRegister(c) \/ HandleResource(c) \/ HandleLayout(c)
    /\ msg' = [msg EXCEPT ![c] = <<>>]
    /\ down' = [down EXCEPT ![c] = sock[c] /\ client[c] # "GONE"]
    /\ thread' = [thread EXCEPT ![c] = "RECV"]
    /\ UNCHANGED <<clientVars, up, sock, connWorker, serving, stop, missed>>

(* recv returns 0 or an error: the thread closes its socket ... *)
HangUp(c) ==
    /\ thread[c] = "RECV"
    /\ ~sock[c] \/ (client[c] = "GONE" /\ up[c] = <<>>)
    /\ sock' = [sock EXCEPT ![c] = FALSE]
    /\ thread' = [thread EXCEPT ![c] = "CLOSE"]
    /\ UNCHANGED <<vars, clientVars, netVars, connWorker, serving, stop, msg, missed>>

(* Bug: conn_worker is never looked at. *)
EndThreadSilently(c) ==
    /\ thread[c] = "CLOSE"
    /\ UNCHANGED vars
    /\ thread' = [thread EXCEPT ![c] = "DONE"]
    /\ UNCHANGED <<clientVars, netVars, sock, connWorker, serving, stop, msg, missed>>

(* ... and declares the worker dead, if one registered here. *)
EndThread(c) ==
    /\ thread[c] = "CLOSE"
    /\ IF connWorker[c] THEN WorkerDied(c[1]) ELSE UNCHANGED vars
    /\ thread' = [thread EXCEPT ![c] = "DONE"]
    /\ UNCHANGED <<clientVars, netVars, sock, connWorker, serving, stop, msg, missed>>

-----------------------------------------------------------------------------
(* stop(), called from another thread than serve(). *)
StopFlag ==
    /\ stop = "NO"
    /\ stop' = "FLAGGED"
    /\ UNCHANGED <<vars, clientVars, netVars, thread, sock, connWorker, serving, msg, missed>>

(* closesocket(listen_sock) resets what was not accepted yet. *)
StopListening ==
    /\ stop = "FLAGGED"
    /\ stop' = "DEAF"
    /\ thread' = [c \in Conns |-> IF thread[c] = "BACKLOG" THEN "RESET" ELSE thread[c]]
    /\ UNCHANGED <<vars, clientVars, netVars, sock, connWorker, serving, msg, missed>>

(* Bug: the sockets are forgotten without being closed. *)
ClearSockets ==
    /\ stop = "DEAF"
    /\ stop' = "CUT"
    /\ UNCHANGED <<vars, clientVars, netVars, thread, sock, connWorker, serving, msg, missed>>

(* The sockets serve() has pushed so far are closed and forgotten. *)
CloseSockets ==
    /\ stop = "DEAF"
    /\ stop' = "CUT"
    /\ sock' = [c \in Conns |-> sock[c] /\ thread[c] = "HELD"]
    /\ missed' = {c \in Conns : thread[c] = "HELD"}
    /\ UNCHANGED <<vars, clientVars, netVars, thread, connWorker, serving, msg>>

(* Bug: the threads are not joined. *)
DetachThreads ==
    /\ stop = "CUT"
    /\ stop' = "STOPPED"
    /\ UNCHANGED <<vars, clientVars, netVars, thread, sock, connWorker, serving, msg, missed>>

(* join() of the threads started so far. *)
JoinThreads ==
    /\ stop = "CUT"
    /\ \A c \in Conns : thread[c] \notin {"RECV", "HANDLE", "CLOSE"}
    /\ stop' = "STOPPED"
    /\ UNCHANGED <<vars, clientVars, netVars, thread, sock, connWorker, serving, msg, missed>>

-----------------------------------------------------------------------------
ClientStep(c) == Send(c) \/ Proceed(c)
ServeStep     == (\E c \in Conns : Accept(c) \/ PushSocket(c) \/ StartThread(c)) \/ LeaveServe
ThreadStep(c) == Recv(c) \/ Handle(c) \/ HangUp(c) \/ EndThread(c)
StopStep      == StopListening \/ CloseSockets \/ JoinThreads

TNext ==
    \/ \E c \in Conns : Start(c) \/ Die(c) \/ ClientStep(c) \/ ThreadStep(c)
    \/ ServeStep
    \/ StopFlag \/ StopStep

(* Threads are scheduled, the mutex is held for one call only and a live   *)
(* worker runs its program.  Nothing obliges a worker to start or to die,  *)
(* nor anybody to call stop().                                             *)
TFairness ==
    /\ WF_tvars(ServeStep)
    /\ WF_tvars(StopStep)
    /\ \A c \in Conns : WF_tvars(ClientStep(c)) /\ WF_tvars(ThreadStep(c))

TSpec == TInit /\ [][TNext]_tvars /\ TFairness

-----------------------------------------------------------------------------
(***************************************************************************)
(* Correctness.                                                            *)
(***************************************************************************)
Of(w) == {c \in Conns : c[1] = w}
Unfinished(c) == thread[c] \in {"RECV", "HANDLE", "CLOSE"}

(* A worker that counts as alive has a thread that will declare it dead    *)
(* when its connection ends, and a record that counts as evidence is       *)
(* watched by the thread of the very incarnation that published it: no     *)
(* order of registrations, late closes and stop() leaves evidence that     *)
(* nothing can ever take back.                                             *)
Watched ==
    /\ \A w \in Workers : alive[w] => \E c \in Of(w) : connWorker[c] /\ Unfinished(c)
    /\ \A r \in LiveResources :
          LET c == <<resources[r].worker, resources[r].boot>>
          IN  connWorker[c] /\ Unfinished(c)

(* When all processes of a worker are gone, the coordinator finds out,     *)
(* unless another one is started meanwhile.                                *)
Absent(w) == \A c \in Of(w) : client[c] \in {"OFF", "GONE"}
DeathNoticed == \A w \in Workers : Absent(w) ~> (~alive[w] \/ ~Absent(w))

(* A worker never waits for ever: it gets a reply or its connection ends,  *)
(* also when stop() catches it in the backlog or between accept and the    *)
(* start of its thread.                                                    *)
NeverStuck == \A c \in Conns : client[c] = "WAIT" ~> client[c] # "WAIT"

(* stop() returns, although the threads may be inside recv or handle() and *)
(* no worker closes its connection, unless serve() was between accept and  *)
(* push_back when the sockets were closed: join() then waits for as long   *)
(* as that worker keeps its connection.                                    *)
StopReturns == stop = "FLAGGED" ~> (stop = "STOPPED" \/ \E c \in missed : sock[c])

(* After stop() no thread will call the coordinator again and no worker    *)
(* counts as alive, so the coordinator may be destroyed; the exception is  *)
(* again a connection that serve() had in its hands.                       *)
StoppedQuiet ==
    stop = "STOPPED" =>
        /\ \A c \in Conns : connWorker[c] /\ Unfinished(c) => c \in missed
        /\ \A w \in Workers : alive[w] => \E c \in Of(w) : c \in missed

-----------------------------------------------------------------------------
(* The record of the resource of c, as c published it, is evidence. *)
Evident(c) == c[1] \in LiveResources /\ resources[c[1]].boot = c[2]

(* tests/multiprocess/multiprocess_proof.cpp: "worker A' restart (fresh    *)
(* boot) and revalidation".  A worker that has carried out its program and *)
(* stays connected is, in the end, evidence.                               *)
Revalidated ==
    \A c \in Conns : <>[](client[c] = "READY" /\ running) => <>[]Evident(c)
=============================================================================
