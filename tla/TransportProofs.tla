--------------------------- MODULE TransportProofs ---------------------------
(***************************************************************************)
(* Proofs about the coordinator behind its TCP server: an inductive        *)
(* invariant says which thread watches which worker.  What it needs of the *)
(* coordinator, its types and LiveEvidence, is carried over from Spec.     *)
(***************************************************************************)
EXTENDS Transport, CoordinatorProofs

(***************************************************************************)
(* The server only sends messages of the coordinator's alphabet.           *)
(***************************************************************************)

(* The generation a connection publishes was fixed when it was started. *)
GenChosen == resGen \in [Conns -> Nat] /\ \A c \in Conns : resGen[c] \in Generations[c]

(* The resource message of a connection exists: it is its worker's         *)
(* resource, in the generation the connection publishes.                   *)
LEMMA ResourceOfConnection ==
  ASSUME GenChosen, NEW c \in Conns
  PROVE  Resource(c) \in ResourceMsgs /\ Resource(c).id = c[1] /\ Resource(c).gen = resGen[c]
<1>1. \E res \in ResourceMsgs : res.id = c[1] /\ res.gen = resGen[c]
  BY ConnAssumption DEF GenChosen
<1> QED BY <1>1 DEF Resource

(* A connection names a worker and a boot of the coordinator.              *)
LEMMA ConnectionIs ==
  ASSUME NEW c \in Conns
  PROVE  c[1] \in Workers /\ c[2] \in Boots /\ c = <<c[1], c[2]>> /\ c[1] \in ResourceIds
BY ConnAssumption

(* Whatever a step of the server or of a worker process does, it is one of *)
(* Coordinator::handle's messages, a death, or nothing to the coordinator. *)
LEMMA ServerStepIsCoordinatorStep ==
  ASSUME GenChosen, TNext
  PROVE  [Next]_vars
<1>1. ASSUME NEW c \in Conns, Handle(c) PROVE [Next]_vars
  <2>1. c[1] \in Workers /\ c[2] \in Boots /\ c[1] \in ResourceIds
    BY ConnectionIs
  <2>2. CASE HandleRegister(c)
    BY <2>1, <2>2 DEF HandleRegister, Next, WorkerStep
  <2>3. CASE HandleResource(c)
    <3>1. Resource(c) \in ResourceMsgs
      BY ResourceOfConnection
    <3>2. CASE PublishResource(c[1], c[2], Resource(c))
      BY <2>1, <3>1, <3>2 DEF Next, WorkerStep
    <3> QED BY <2>3, <3>2 DEF HandleResource
  <2>4. CASE HandleLayout(c)
    <3>1. Resource(c) \in ResourceMsgs /\ Resource(c).id = c[1] /\ Resource(c).gen = resGen[c]
      BY ResourceOfConnection
    <3>2. ASSUME NEW as \in LayoutMsgs, PublishLayout(c[1], c[2], c[1], resGen[c], as)
          PROVE  Next
      <4>1. PublishLayout(c[1], c[2], Resource(c).id, Resource(c).gen, as)
        BY <3>1, <3>2
      <4> QED BY <2>1, <3>1, <4>1 DEF Next, WorkerStep
    <3> QED BY <2>4, <3>2 DEF HandleLayout
  <2> QED BY <1>1, <2>2, <2>3, <2>4 DEF Handle
<1>2. ASSUME NEW c \in Conns, EndThread(c) PROVE [Next]_vars
  <2>1. c[1] \in Workers
    BY ConnectionIs
  <2>2. CASE WorkerDied(c[1])
    BY <2>1, <2>2 DEF Next, WorkerStep
  <2> QED BY <1>2, <2>2 DEF EndThread
<1>3. ASSUME NEW c \in Conns, Start(c) \/ Die(c) \/ ClientStep(c) \/ Recv(c) \/ HangUp(c)
      PROVE  UNCHANGED vars
  BY <1>3 DEF Start, Die, ClientStep, Send, Proceed, Recv, HangUp
<1>4. ASSUME ServeStep PROVE UNCHANGED vars
  BY <1>4 DEF ServeStep, Accept, PushSocket, StartThread, LeaveServe
<1>5. ASSUME StopFlag \/ StopStep PROVE UNCHANGED vars
  BY <1>5 DEF StopFlag, StopStep, StopListening, CloseSockets, JoinThreads
<1> QED BY <1>1, <1>2, <1>3, <1>4, <1>5 DEF TNext, ThreadStep

(* The generation of a connection stays as it was chosen.                  *)
LEMMA GenerationKept ==
  ASSUME GenChosen, [TNext]_tvars
  PROVE  GenChosen'
<1>1. resGen' = resGen
  BY DEF TNext, ThreadStep, ClientStep, ServeStep, StopStep, Start, Die, Send, Proceed,
         Recv, Handle, HangUp, EndThread, Accept, PushSocket, StartThread, LeaveServe,
         StopFlag, StopListening, CloseSockets, JoinThreads, clientVars, tvars
<1> QED BY <1>1 DEF GenChosen

(* The server's handle() and WorkerDied are the coordinator's actions, so  *)
(* that every behaviour of TSpec is one of Spec.  Only workers are clients *)
(* here: the lemma carries over what is proved of registrations,           *)
(* publications and deaths, and no plan is ever created.                   *)
LEMMA ServerImplementsCoordinator == TSpec => Spec
<1>1. TInit => Init /\ GenChosen
  <2> SUFFICES ASSUME TInit PROVE Init /\ GenChosen
    OBVIOUS
  <2>1. resGen \in [Conns -> UNION {Generations[c] : c \in Conns}]
    BY DEF TInit
  <2>2. \A c \in Conns : Generations[c] \subseteq Nat /\ resGen[c] \in Generations[c]
    BY ConnAssumption DEF TInit
  <2>3. resGen \in [Conns -> Nat]
    BY <2>1, <2>2
  <2> QED BY <2>2, <2>3 DEF TInit, GenChosen
<1>2. GenChosen /\ [TNext]_tvars => GenChosen'
  BY GenerationKept
<1>3. GenChosen /\ [TNext]_tvars => [Next]_vars
  BY ServerStepIsCoordinatorStep DEF tvars
<1> QED BY <1>1, <1>2, <1>3, PTL DEF TSpec, Spec

-----------------------------------------------------------------------------
(***************************************************************************)
(* The inductive invariant of the server.                                  *)
(***************************************************************************)
ThreadStates ==
    {"NONE", "BACKLOG", "RESET", "HELD", "PUSHED", "RECV", "HANDLE", "CLOSE", "DONE"}

(* The types of what a step of the server updates one connection at a time. *)
ServerTypes ==
    /\ thread \in [Conns -> ThreadStates]
    /\ sock \in [Conns -> BOOLEAN]
    /\ connWorker \in [Conns -> BOOLEAN]
    /\ DOMAIN msg = Conns
    /\ DOMAIN client = Conns
    /\ stop \in {"NO", "FLAGGED", "DEAF", "CUT", "STOPPED"}

(* A process that was not started has no connection, and a connection is   *)
(* bound to its worker only by the thread that serves it.                  *)
Unbound ==
    \A c \in Conns :
        /\ client[c] = "OFF" => thread[c] = "NONE"
        /\ connWorker[c] => thread[c] \in {"RECV", "HANDLE", "CLOSE", "DONE"}

(* A REGISTER is handled only after its connection was bound: conn_worker  *)
(* is set before handle() is called.                                       *)
BoundFirst == \A c \in Conns : msg[c] = <<"REGISTER">> => connWorker[c]

(* The incarnation that registered last watches its worker for as long as  *)
(* the worker counts as alive.                                             *)
Watcher(w) == <<w, boot[w]>>
LastWatches ==
    \A w \in Workers : alive[w] =>
        /\ Watcher(w) \in Conns
        /\ connWorker[Watcher(w)]
        /\ Unfinished(Watcher(w))

(* After the sockets were closed, the only open ones are those serve() had *)
(* not pushed yet, and once the threads are joined only such a connection  *)
(* can still declare a worker dead.                                        *)
OpenWereMissed ==
    /\ stop \in {"CUT", "STOPPED"} => \A c \in Conns : sock[c] => c \in missed
    /\ stop = "STOPPED" => \A c \in Conns : connWorker[c] /\ Unfinished(c) => c \in missed

ServerInv == ServerTypes /\ Unbound /\ BoundFirst /\ LastWatches /\ OpenWereMissed

(* A server that was just started watches nobody.                          *)
LEMMA InitServer == TInit => ServerInv
BY DEF TInit, Init, ServerInv, ServerTypes, ThreadStates, Unbound, BoundFirst, LastWatches,
       OpenWereMissed

(* Steps that do not touch the coordinator, and move one thread to a state *)
(* in which it watches exactly the workers it watched before, keep the     *)
(* last registration of every worker watched.                              *)
LEMMA WatchingKept ==
  ASSUME LastWatches, UNCHANGED <<boot, alive>>,
         \A c \in Conns : connWorker[c] => connWorker'[c],
         \A c \in Conns : connWorker[c] /\ Unfinished(c) => Unfinished(c)'
  PROVE  LastWatches'
BY DEF LastWatches, Watcher

(* The steps of the worker processes.                                      *)
LEMMA ClientPreserves ==
  ASSUME ServerInv, NEW c \in Conns, Start(c) \/ Die(c) \/ ClientStep(c)
  PROVE  ServerInv'
<1> USE DEF ServerInv
<1>1. UNCHANGED <<boot, alive, sock, connWorker, msg, stop, missed>>
  BY DEF Start, Die, ClientStep, Send, Proceed, vars, serverVars
<1>2. /\ thread' \in [Conns -> ThreadStates]
      /\ \A d \in Conns : thread'[d] # thread[d] =>
             d = c /\ client[c] = "OFF" /\ client'[c] # "OFF" /\ thread'[c] = "BACKLOG"
  BY DEF Start, Die, ClientStep, Send, Proceed, serverVars, ServerTypes, ThreadStates, Unbound
<1>3. /\ DOMAIN client' = Conns
      /\ \A d \in Conns : client'[d] = "OFF" => client[d] = "OFF" /\ d # c
  BY DEF Start, Die, ClientStep, Send, Proceed, ServerTypes
<1>4. ServerTypes'
  BY <1>1, <1>2, <1>3 DEF ServerTypes
<1>5. \A d \in Conns : connWorker[d] => thread'[d] = thread[d]
  BY <1>2 DEF Unbound
<1>6. Unbound'
  BY <1>1, <1>2, <1>3, <1>5 DEF Unbound
<1>7. BoundFirst'
  BY <1>1 DEF BoundFirst
<1>8. LastWatches'
  BY <1>1, <1>5, WatchingKept DEF Unfinished
<1>9. OpenWereMissed'
  BY <1>1, <1>5 DEF OpenWereMissed, Unfinished
<1> QED BY <1>4, <1>6, <1>7, <1>8, <1>9

(* The steps of serve().                                                   *)
LEMMA ServePreserves ==
  ASSUME ServerInv, ServeStep
  PROVE  ServerInv'
<1> USE DEF ServerInv
<1>1. UNCHANGED <<boot, alive, connWorker, msg, client, stop, missed>>
  BY DEF ServeStep, Accept, PushSocket, StartThread, LeaveServe, vars, clientVars
<1>2. /\ thread' \in [Conns -> ThreadStates]
      /\ \A d \in Conns : thread'[d] # thread[d] =>
             thread[d] \in {"BACKLOG", "HELD", "PUSHED"} /\ thread'[d] # "NONE"
  BY DEF ServeStep, Accept, PushSocket, StartThread, LeaveServe, ServerTypes, ThreadStates
<1>3. /\ sock' \in [Conns -> BOOLEAN]
      /\ stop \in {"CUT", "STOPPED"} => sock' = sock
  BY DEF ServeStep, Accept, PushSocket, StartThread, LeaveServe, ServerTypes, listening
<1>4. ServerTypes'
  BY <1>1, <1>2, <1>3 DEF ServerTypes
<1>5. \A d \in Conns : connWorker[d] => thread'[d] = thread[d]
  BY <1>2 DEF Unbound
<1>6. Unbound'
  BY <1>1, <1>2, <1>5 DEF Unbound
<1>7. BoundFirst'
  BY <1>1 DEF BoundFirst
<1>8. LastWatches'
  BY <1>1, <1>5, WatchingKept DEF Unfinished
<1>9. OpenWereMissed'
  BY <1>1, <1>3, <1>5 DEF OpenWereMissed, Unfinished
<1> QED BY <1>4, <1>6, <1>7, <1>8, <1>9

(* A thread that receives a message or notices the end of its connection.  *)
LEMMA ReceivePreserves ==
  ASSUME ServerInv, NEW c \in Conns, Recv(c) \/ HangUp(c)
  PROVE  ServerInv'
<1> USE DEF ServerInv
<1>1. UNCHANGED <<boot, alive, client, stop, missed>>
  BY DEF Recv, HangUp, vars, clientVars
<1>2. /\ thread' \in [Conns -> ThreadStates]
      /\ thread[c] = "RECV" /\ thread'[c] \in {"HANDLE", "CLOSE"}
      /\ \A d \in Conns : d # c => thread'[d] = thread[d]
  BY DEF Recv, HangUp, ServerTypes, ThreadStates
<1>3. /\ sock' \in [Conns -> BOOLEAN]
      /\ \A d \in Conns : sock'[d] => sock[d]
  BY DEF Recv, HangUp, ServerTypes
<1>4. /\ connWorker' \in [Conns -> BOOLEAN]
      /\ \A d \in Conns : connWorker[d] => connWorker'[d]
      /\ \A d \in Conns : connWorker'[d] => connWorker[d] \/ (d = c /\ sock[c])
  <2>1. CASE HangUp(c)
    BY <2>1 DEF HangUp, ServerTypes
  <2>2. CASE Recv(c)
    BY <2>2 DEF Recv, ServerTypes
  <2> QED BY <2>1, <2>2
<1>5. /\ DOMAIN msg' = Conns
      /\ \A d \in Conns : msg'[d] = <<"REGISTER">> => connWorker'[d]
  <2>1. CASE HangUp(c)
    BY <2>1 DEF HangUp, ServerTypes, BoundFirst
  <2>2. CASE Recv(c)
    BY <2>2 DEF Recv, ServerTypes, BoundFirst
  <2> QED BY <2>1, <2>2
<1>6. ServerTypes'
  BY <1>1, <1>2, <1>3, <1>4, <1>5 DEF ServerTypes
<1>7. Unbound'
  BY <1>1, <1>2, <1>4 DEF Unbound
<1>8. BoundFirst'
  BY <1>5 DEF BoundFirst
<1>9. \A d \in Conns : Unfinished(d)' <=> Unfinished(d)
  BY <1>2 DEF Unfinished
<1>10. LastWatches'
  BY <1>1, <1>4, <1>9, WatchingKept
<1>11. OpenWereMissed'
  BY <1>1, <1>3, <1>4, <1>9 DEF OpenWereMissed
<1> QED BY <1>6, <1>7, <1>8, <1>10, <1>11

(* handle(): a REGISTER makes its own connection the watcher; no other     *)
(* message of a worker touches the boots or the living.                    *)
LEMMA HandlePreserves ==
  ASSUME TypeOK, ServerInv, NEW c \in Conns, Handle(c)
  PROVE  ServerInv'
<1> USE DEF ServerInv
<1>1. UNCHANGED <<client, sock, connWorker, stop, missed>>
  BY DEF Handle, clientVars
<1>2. /\ thread' \in [Conns -> ThreadStates]
      /\ thread[c] = "HANDLE" /\ thread'[c] = "RECV"
      /\ \A d \in Conns : d # c => thread'[d] = thread[d]
  BY DEF Handle, ServerTypes, ThreadStates
<1>3. /\ DOMAIN msg' = Conns
      /\ \A d \in Conns : msg'[d] = <<"REGISTER">> => msg[d] = <<"REGISTER">>
  BY DEF Handle, ServerTypes
<1>4. ServerTypes'
  BY <1>1, <1>2, <1>3 DEF ServerTypes
<1>5. Unbound'
  BY <1>1, <1>2 DEF Unbound
<1>6. BoundFirst'
  BY <1>1, <1>3 DEF BoundFirst
<1>7. \A d \in Conns : Unfinished(d)' <=> Unfinished(d)
  BY <1>2 DEF Unfinished
<1>8. LastWatches'
  <2>1. CASE HandleRegister(c)
    <3>1. /\ c[1] \in Workers /\ c[2] \in Boots /\ c = <<c[1], c[2]>>
      BY ConnectionIs
    <3>2. /\ boot' = [boot EXCEPT ![c[1]] = c[2]]
          /\ alive' = [alive EXCEPT ![c[1]] = TRUE]
          /\ msg[c] = <<"REGISTER">>
      BY <2>1 DEF HandleRegister, Register
    <3>3. boot'[c[1]] = c[2] /\ \A w \in Workers \ {c[1]} : boot'[w] = boot[w] /\ alive'[w] = alive[w]
      BY <3>1, <3>2 DEF TypeOK
    <3>4. connWorker[c] /\ Unfinished(c)
      BY <1>2, <3>2 DEF BoundFirst, Unfinished
    <3>5. Watcher(c[1])' = c
      BY <3>1, <3>3 DEF Watcher
    <3>6. \A w \in Workers \ {c[1]} : Watcher(w)' = Watcher(w)
      BY <3>3 DEF Watcher
    <3> SUFFICES ASSUME NEW w \in Workers, alive'[w]
                 PROVE  (Watcher(w) \in Conns /\ connWorker[Watcher(w)] /\ Unfinished(Watcher(w)))'
      BY DEF LastWatches
    <3>7. CASE w = c[1]
      BY <1>1, <1>7, <3>4, <3>5, <3>7
    <3>8. CASE w # c[1]
      BY <1>1, <1>7, <3>3, <3>6, <3>8 DEF LastWatches
    <3> QED BY <3>7, <3>8
  <2>2. CASE HandleResource(c) \/ HandleLayout(c)
    <3>1. UNCHANGED <<boot, alive>>
      BY <2>2 DEF HandleResource, HandleLayout, PublishResource, PublishLayout, vars, workerVars
    <3> QED BY <1>1, <1>7, <3>1, WatchingKept
  <2> QED BY <2>1, <2>2 DEF Handle
<1>9. OpenWereMissed'
  BY <1>1, <1>7 DEF OpenWereMissed
<1> QED BY <1>4, <1>5, <1>6, <1>8, <1>9

(* A bound thread that ends leaves its worker dead, whoever watched it.    *)
LEMMA EndPreserves ==
  ASSUME TypeOK, ServerInv, NEW c \in Conns, EndThread(c)
  PROVE  ServerInv'
<1> USE DEF ServerInv
<1>1. UNCHANGED <<client, sock, connWorker, msg, stop, missed>>
  BY DEF EndThread, clientVars
<1>2. /\ thread' \in [Conns -> ThreadStates]
      /\ thread[c] = "CLOSE" /\ thread'[c] = "DONE"
      /\ \A d \in Conns : d # c => thread'[d] = thread[d]
  BY DEF EndThread, ServerTypes, ThreadStates
<1>3. ServerTypes'
  BY <1>1, <1>2 DEF ServerTypes
<1>4. Unbound'
  BY <1>1, <1>2 DEF Unbound
<1>5. BoundFirst'
  BY <1>1 DEF BoundFirst
<1>6. \A d \in Conns : (Unfinished(d)' => Unfinished(d)) /\ (d # c => (Unfinished(d) => Unfinished(d)'))
  BY <1>2 DEF Unfinished
<1>7. LastWatches'
  <2>1. CASE connWorker[c]
    <3>1. c[1] \in Workers /\ c = <<c[1], c[2]>>
      BY ConnectionIs
    <3>2. boot' = boot /\ alive' = [alive EXCEPT ![c[1]] = FALSE]
      BY <2>1 DEF EndThread, WorkerDied
    <3>3. ~alive'[c[1]] /\ \A w \in Workers \ {c[1]} : alive'[w] = alive[w]
      BY <3>1, <3>2 DEF TypeOK
    <3>4. \A w \in Workers \ {c[1]} : Watcher(w) # c
      BY <3>1 DEF Watcher
    <3>5. \A w : Watcher(w)' = Watcher(w)
      BY <3>2 DEF Watcher
    <3> QED BY <1>1, <1>6, <3>3, <3>4, <3>5 DEF LastWatches
  <2>2. CASE ~connWorker[c]
    <3>1. UNCHANGED <<boot, alive>>
      BY <2>2 DEF EndThread, vars
    <3> QED BY <1>1, <1>6, <2>2, <3>1, WatchingKept
  <2> QED BY <2>1, <2>2
<1>8. OpenWereMissed'
  BY <1>1, <1>6 DEF OpenWereMissed
<1> QED BY <1>3, <1>4, <1>5, <1>7, <1>8

(* The steps of stop().                                                    *)
LEMMA StopPreserves ==
  ASSUME ServerInv, StopFlag \/ StopStep
  PROVE  ServerInv'
<1> USE DEF ServerInv
<1>1. UNCHANGED <<boot, alive, client, connWorker, msg>>
  BY DEF StopFlag, StopStep, StopListening, CloseSockets, JoinThreads, vars, clientVars
<1>2. /\ thread' \in [Conns -> ThreadStates]
      /\ \A d \in Conns : thread'[d] # thread[d] => thread[d] = "BACKLOG" /\ thread'[d] = "RESET"
  BY DEF StopFlag, StopStep, StopListening, CloseSockets, JoinThreads, ServerTypes, ThreadStates
<1>3. sock' \in [Conns -> BOOLEAN] /\ stop' \in {"NO", "FLAGGED", "DEAF", "CUT", "STOPPED"}
  BY DEF StopFlag, StopStep, StopListening, CloseSockets, JoinThreads, ServerTypes
<1>4. ServerTypes'
  BY <1>1, <1>2, <1>3 DEF ServerTypes
<1>5. \A d \in Conns : connWorker[d] => thread'[d] = thread[d]
  BY <1>2 DEF Unbound
<1>6. Unbound'
  BY <1>1, <1>2, <1>5 DEF Unbound
<1>7. BoundFirst'
  BY <1>1 DEF BoundFirst
<1>8. LastWatches'
  BY <1>1, <1>5, WatchingKept DEF Unfinished
<1>9. OpenWereMissed'
  <2>1. CASE StopFlag \/ StopListening
    BY <2>1 DEF StopFlag, StopListening, OpenWereMissed
  <2>2. CASE CloseSockets
    BY <2>2 DEF CloseSockets, OpenWereMissed
  <2>3. CASE JoinThreads
    BY <2>3 DEF JoinThreads, OpenWereMissed, Unfinished
  <2> QED BY <2>1, <2>2, <2>3 DEF StopStep
<1> QED BY <1>4, <1>6, <1>7, <1>8, <1>9

(* The server's invariant holds throughout.                                *)
LEMMA ServerInvariant == TSpec => [](TypeOK /\ LiveEvidence /\ ServerInv)
<1>1. TInit => ServerInv
  BY InitServer
<1>2. TypeOK /\ ServerInv /\ [TNext]_tvars => ServerInv'
  <2> SUFFICES ASSUME TypeOK, ServerInv, [TNext]_tvars PROVE ServerInv'
    OBVIOUS
  <2>1. CASE UNCHANGED tvars
    BY <2>1 DEF tvars, vars, clientVars, serverVars, ServerInv, ServerTypes, Unbound,
                BoundFirst, LastWatches, Watcher, OpenWereMissed, Unfinished
  <2>2. CASE TNext
    BY <2>2, ClientPreserves, ServePreserves, ReceivePreserves, HandlePreserves, EndPreserves,
       StopPreserves DEF TNext, ThreadStep
  <2> QED BY <2>1, <2>2
<1>3. TSpec => []TypeOK /\ []LiveEvidence
  BY ServerImplementsCoordinator, TypeCorrect, EvidenceAlwaysLive, PTL
<1> QED BY <1>1, <1>2, <1>3, PTL DEF TSpec

-----------------------------------------------------------------------------
(* No order of connections, registrations, late closes, deaths and stop()  *)
(* leaves a worker alive, or evidence in place, that no thread of the      *)
(* server will ever take back: for any number of workers and incarnations. *)
THEOREM WorkersAlwaysWatched == TSpec => []Watched
<1>1. TypeOK /\ LiveEvidence /\ ServerInv => Watched
  <2> SUFFICES ASSUME TypeOK, LiveEvidence, ServerInv PROVE Watched
    OBVIOUS
  <2>1. ASSUME NEW w \in Workers, alive[w]
        PROVE  \E c \in Of(w) : connWorker[c] /\ Unfinished(c)
    <3>1. Watcher(w) \in Conns /\ connWorker[Watcher(w)] /\ Unfinished(Watcher(w))
      BY <2>1 DEF ServerInv, LastWatches
    <3>2. Watcher(w) \in Of(w)
      BY <3>1 DEF Of, Watcher
    <3> QED BY <3>1, <3>2
  <2>2. ASSUME NEW r \in LiveResources
        PROVE  LET c == <<resources[r].worker, resources[r].boot>>
               IN  connWorker[c] /\ Unfinished(c)
    <3>1. alive[resources[r].worker] /\ boot[resources[r].worker] = resources[r].boot
      BY <2>2 DEF LiveEvidence
    <3>2. resources[r] \in Record
      BY <2>2 DEF LiveResources, Known, TypeOK, Partial
    <3>3. resources[r].worker \in Workers
      BY <3>2 DEF Record
    <3>4. Watcher(resources[r].worker) = <<resources[r].worker, resources[r].boot>>
      BY <3>1 DEF Watcher
    <3> QED BY <3>1, <3>3, <3>4 DEF ServerInv, LastWatches
  <2> QED BY <2>1, <2>2 DEF Watched
<1> QED BY <1>1, ServerInvariant, PTL

(* When stop() has returned, no joined thread calls the coordinator again  *)
(* and no worker counts as alive, except through a connection that serve() *)
(* had accepted and not yet remembered when the sockets were closed.       *)
THEOREM StopLeavesQuiet == TSpec => []StoppedQuiet
<1>1. ServerInv => StoppedQuiet
  <2> SUFFICES ASSUME ServerInv, stop = "STOPPED"
               PROVE  /\ \A c \in Conns : connWorker[c] /\ Unfinished(c) => c \in missed
                      /\ \A w \in Workers : alive[w] => \E c \in Of(w) : c \in missed
    BY DEF StoppedQuiet
  <2>1. \A c \in Conns : connWorker[c] /\ Unfinished(c) => c \in missed
    BY DEF ServerInv, OpenWereMissed
  <2>2. ASSUME NEW w \in Workers, alive[w] PROVE \E c \in Of(w) : c \in missed
    <3>1. Watcher(w) \in Conns /\ connWorker[Watcher(w)] /\ Unfinished(Watcher(w))
      BY <2>2 DEF ServerInv, LastWatches
    <3>2. Watcher(w) \in Of(w)
      BY <3>1 DEF Of, Watcher
    <3> QED BY <2>1, <3>1, <3>2
  <2> QED BY <2>1, <2>2
<1> QED BY <1>1, ServerInvariant, PTL
=============================================================================
