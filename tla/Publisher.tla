------------------------------ MODULE Publisher ------------------------------
(***************************************************************************)
(* nadjieb::net::Publisher and Topic of stream/mjpeg_streamer.hpp, opened  *)
(* up: the threads that call enqueue(), the workers that take payloads and *)
(* send pictures, and stop(); the listener thread, which adds and removes  *)
(* clients and closes their sockets, is any that keeps to ClientTable.     *)
(*                                                                         *)
(* There is one topic, /stream, the only path the program publishes.       *)
(* Pictures are numbered by the setBuffer() call that stores them.  A      *)
(* payload also carries, for the properties only, the number of the        *)
(* picture it was pushed for.                                              *)
(***************************************************************************)
EXTENDS Integers, SequencesExt, FiniteSets

CONSTANTS
    Fd,           \* socket descriptors the kernel gives to HTTP clients
    Workers,      \* worker threads; main starts 4
    Publishers,   \* threads that call enqueue(): encode and broadcast
    Limit,        \* LIMIT_QUEUE_PER_CLIENT, 5 in the code
    MaxPictures   \* bound: calls of enqueue()

Unlocked == "unlocked"

ASSUME PublisherAssumption ==
    /\ Unlocked \notin Workers
    /\ Limit \in Nat
    /\ MaxPictures \in Nat
    /\ IsFiniteSet(Publishers)

VARIABLES
    (* the topic *)
    buffer,                \* number of the last picture stored
    client_by_sockfd,      \* the descriptors that have joined
    queue_size_by_sockfd,  \* the counter of each, 0 where the map has none
    (* enqueue(), per publishing thread *)
    enqueueAt,
    picture,               \* the picture it publishes
    todo,                  \* clients still to be visited
    target,                \* the client being visited
    (* the workers *)
    payloads,
    cv_mtx,                \* its holder
    workerAt,
    payload,               \* the payload in hand
    chunk,                 \* the picture read for it
    (* sockets and the listener thread *)
    socket,                \* "closed", "open", "reset" by the peer
    closing,               \* removed as a client, closed in a moment
    adding,                \* add() has found the publisher running
    joined,                \* the descriptors whose path_by_client_ is the topic's
    (* stop() and the process *)
    end_publisher,
    stopAt,
    running                \* FALSE: an exception has ended it

topicVars == <<buffer, client_by_sockfd, queue_size_by_sockfd>>
enqueueVars == <<enqueueAt, picture, todo, target>>
workerVars == <<cv_mtx, workerAt, payload, chunk>>
socketVars == <<socket, closing, adding, joined>>
stopVars == <<end_publisher, stopAt>>
vars == <<topicVars, enqueueVars, payloads, workerVars, socketVars, stopVars, running>>

NoFd == "none"
NoPayload == [fd |-> NoFd, picture |-> 0]

Init ==
    /\ buffer = 0
    /\ client_by_sockfd = {}
    /\ queue_size_by_sockfd = [fd \in Fd |-> 0]
    /\ enqueueAt = [p \in Publishers |-> "idle"]
    /\ picture = [p \in Publishers |-> 0]
    /\ todo = [p \in Publishers |-> {}]
    /\ target = [p \in Publishers |-> NoFd]
    /\ payloads = <<>>
    /\ cv_mtx = Unlocked
    /\ workerAt = [w \in Workers |-> "top"]
    /\ payload = [w \in Workers |-> NoPayload]
    /\ chunk = [w \in Workers |-> 0]
    /\ socket = [fd \in Fd |-> "closed"]
    /\ closing = {}
    /\ adding = {}
    /\ joined = {}
    /\ end_publisher = FALSE
    /\ stopAt = "idle"
    /\ running = TRUE

-----------------------------------------------------------------------------
(* enqueue() *)

(* The flag is looked at once, and may be raised before the picture is set. *)
EnqueueBegins(p) ==
    /\ enqueueAt[p] = "idle"
    /\ ~end_publisher
    /\ buffer < MaxPictures
    /\ enqueueAt' = [enqueueAt EXCEPT ![p] = "set"]
    /\ UNCHANGED <<topicVars, picture, todo, target, payloads, workerVars, socketVars,
                   stopVars, running>>

(* Fault: the picture is stored only if somebody is there to see it. *)
SetBuffer_IfClients(p) ==
    /\ enqueueAt[p] = "set"
    /\ buffer < MaxPictures
    /\ buffer' = IF client_by_sockfd = {} THEN buffer ELSE buffer + 1
    /\ picture' = [picture EXCEPT ![p] = buffer + 1]
    /\ enqueueAt' = [enqueueAt EXCEPT ![p] = "clients"]
    /\ UNCHANGED <<client_by_sockfd, queue_size_by_sockfd, todo, target,
                   payloads, workerVars, socketVars, stopVars, running>>

SetBuffer(p) ==
    /\ enqueueAt[p] = "set"
    /\ buffer < MaxPictures
    /\ buffer' = buffer + 1
    /\ picture' = [picture EXCEPT ![p] = buffer + 1]
    /\ enqueueAt' = [enqueueAt EXCEPT ![p] = "clients"]
    /\ UNCHANGED <<client_by_sockfd, queue_size_by_sockfd, todo, target,
                   payloads, workerVars, socketVars, stopVars, running>>

(* getClients() copies the clients; the loop then works on the copy. *)
GetClients(p) ==
    /\ enqueueAt[p] = "clients"
    /\ todo' = [todo EXCEPT ![p] = client_by_sockfd]
    /\ enqueueAt' = [enqueueAt EXCEPT ![p] = "loop"]
    /\ UNCHANGED <<topicVars, picture, target, payloads, workerVars,
                   socketVars, stopVars, running>>

(* Fault: the limit is not looked at. *)
HasRoom_Always(fd) == TRUE

HasRoom(fd) == queue_size_by_sockfd[fd] <= Limit

NextClient(p) ==
    /\ enqueueAt[p] = "loop"
    /\ \E fd \in todo[p] :
         /\ todo' = [todo EXCEPT ![p] = @ \ {fd}]
         /\ IF HasRoom(fd)
            THEN /\ target' = [target EXCEPT ![p] = fd]
                 /\ enqueueAt' = [enqueueAt EXCEPT ![p] = "push"]
            ELSE UNCHANGED <<target, enqueueAt>>
    /\ UNCHANGED <<topicVars, picture, payloads, workerVars, socketVars,
                   stopVars, running>>

(* increaseQueue() and decreaseQueue() create a missing counter at 0. *)
Increase(fd) ==
    queue_size_by_sockfd' = [queue_size_by_sockfd EXCEPT ![fd] = @ + 1]

(* Fault: the counter only grows. *)
Decrease_Not(fd) == UNCHANGED queue_size_by_sockfd

(* Fault: the counter is erased and not lowered. *)
Decrease_Erases(fd) ==
    queue_size_by_sockfd' = [f \in Fd \ {fd} |-> queue_size_by_sockfd[f]]

Decrease(fd) ==
    queue_size_by_sockfd' = [queue_size_by_sockfd EXCEPT ![fd] = @ - 1]

(* Under payloads_mtx_, which a worker holds for one step of its own only. *)
Push(p) ==
    /\ enqueueAt[p] = "push"
    /\ payloads' = Append(payloads, [fd |-> target[p], picture |-> picture[p]])
    /\ Increase(target[p])
    /\ enqueueAt' = [enqueueAt EXCEPT ![p] = "notify"]
    /\ UNCHANGED <<buffer, client_by_sockfd, picture, todo, target,
                   workerVars, socketVars, stopVars, running>>

(* Fault: nobody is notified. *)
NotifyOne_Lost(p) ==
    /\ enqueueAt[p] = "notify"
    /\ target' = [target EXCEPT ![p] = NoFd]
    /\ enqueueAt' = [enqueueAt EXCEPT ![p] = "loop"]
    /\ UNCHANGED <<topicVars, picture, todo, payloads, workerVars,
                   socketVars, stopVars, running>>

(* notify_one() reaches a worker that is asleep, or nobody. *)
NotifyOne(p) ==
    /\ enqueueAt[p] = "notify"
    /\ LET asleep == {w \in Workers : workerAt[w] = "asleep"}
       IN  IF asleep = {} THEN UNCHANGED workerAt
           ELSE \E w \in asleep : workerAt' = [workerAt EXCEPT ![w] = "lock"]
    /\ target' = [target EXCEPT ![p] = NoFd]
    /\ enqueueAt' = [enqueueAt EXCEPT ![p] = "loop"]
    /\ UNCHANGED <<topicVars, picture, todo, payloads, cv_mtx, payload,
                   chunk, socketVars, stopVars, running>>

EnqueueReturns(p) ==
    /\ enqueueAt[p] = "loop"
    /\ todo[p] = {}
    /\ picture' = [picture EXCEPT ![p] = 0]
    /\ enqueueAt' = [enqueueAt EXCEPT ![p] = "idle"]
    /\ UNCHANGED <<topicVars, todo, target, payloads, workerVars, socketVars,
                   stopVars, running>>

Enqueue(p) ==
    \/ SetBuffer(p)
    \/ GetClients(p)
    \/ NextClient(p)
    \/ Push(p)
    \/ NotifyOne(p)
    \/ EnqueueReturns(p)

-----------------------------------------------------------------------------
(* worker() *)

WorkerTop(w) ==
    /\ workerAt[w] = "top"
    /\ workerAt' = [workerAt EXCEPT ![w] = IF end_publisher THEN "returned" ELSE "lock"]
    /\ UNCHANGED <<topicVars, enqueueVars, payloads, cv_mtx, payload, chunk,
                   socketVars, stopVars, running>>

(* Fault: the predicate is evaluated without cv_mtx_. *)
CvFree_NotAsked == TRUE

CvFree == cv_mtx = Unlocked

(* cv_mtx_ is taken and the predicate of condition_.wait() evaluated; it is *)
(* kept until the worker has popped, or is asleep.                          *)
WorkerTest(w) ==
    /\ workerAt[w] = "lock"
    /\ CvFree
    /\ cv_mtx' = w
    /\ workerAt' = [workerAt EXCEPT ![w] =
                      IF end_publisher \/ payloads # <<>> THEN "pop" ELSE "tested"]
    /\ UNCHANGED <<topicVars, enqueueVars, payloads, payload, chunk,
                   socketVars, stopVars, running>>

WorkerSleep(w) ==
    /\ workerAt[w] = "tested"
    /\ cv_mtx' = Unlocked
    /\ workerAt' = [workerAt EXCEPT ![w] = "asleep"]
    /\ UNCHANGED <<topicVars, enqueueVars, payloads, payload, chunk,
                   socketVars, stopVars, running>>

SpuriousWakeup(w) ==
    /\ workerAt[w] = "asleep"
    /\ workerAt' = [workerAt EXCEPT ![w] = "lock"]
    /\ UNCHANGED <<topicVars, enqueueVars, payloads, cv_mtx, payload, chunk,
                   socketVars, stopVars, running>>

WorkerPop(w) ==
    /\ workerAt[w] = "pop"
    /\ cv_mtx' = Unlocked
    /\ IF end_publisher
       THEN /\ workerAt' = [workerAt EXCEPT ![w] = "returned"]
            /\ UNCHANGED <<payloads, payload, queue_size_by_sockfd>>
       ELSE /\ payloads # <<>>
            /\ payload' = [payload EXCEPT ![w] = Head(payloads)]
            /\ payloads' = Tail(payloads)
            /\ Decrease(Head(payloads).fd)
            /\ workerAt' = [workerAt EXCEPT ![w] = "read"]
    /\ UNCHANGED <<buffer, client_by_sockfd, enqueueVars, chunk, socketVars,
                   stopVars, running>>

(* getBuffer(): the picture of now, not the one the payload was made for. *)
WorkerRead(w) ==
    /\ workerAt[w] = "read"
    /\ chunk' = [chunk EXCEPT ![w] = buffer]
    /\ workerAt' = [workerAt EXCEPT ![w] = "poll"]
    /\ UNCHANGED <<topicVars, enqueueVars, payloads, cv_mtx, payload,
                   socketVars, stopVars, running>>

NextRound(w) ==
    /\ workerAt' = [workerAt EXCEPT ![w] = "top"]
    /\ payload' = [payload EXCEPT ![w] = NoPayload]
    /\ chunk' = [chunk EXCEPT ![w] = 0]

(* pollSockets() with a timeout of 1 ms: the socket cannot be written to,   *)
(* it can, it is not what it was, or poll() fails.  The last two are        *)
(* exceptions that nobody catches: they end the process.                    *)
WorkerPoll(w) ==
    /\ workerAt[w] = "poll"
    /\ \/ /\ socket[payload[w].fd] = "open"
          /\ \/ NextRound(w)
             \/ /\ workerAt' = [workerAt EXCEPT ![w] = "send"]
                /\ UNCHANGED <<payload, chunk>>
          /\ UNCHANGED running
       \/ /\ workerAt' = [workerAt EXCEPT
                             ![w] = IF socket[payload[w].fd] = "open" THEN "failed" ELSE "threw"]
          /\ running' = FALSE
          /\ UNCHANGED <<payload, chunk>>
    /\ UNCHANGED <<topicVars, enqueueVars, payloads, cv_mtx, socketVars, stopVars>>

(* send() on a socket the peer has reset fails, and nobody looks: the        *)
(* listener ignores SIGPIPE before the first client comes.                  *)
WorkerSend(w) ==
    /\ workerAt[w] = "send"
    /\ NextRound(w)
    /\ UNCHANGED <<topicVars, enqueueVars, payloads, cv_mtx, socketVars,
                   stopVars, running>>

Worker(w) ==
    \/ WorkerTop(w)
    \/ WorkerTest(w)
    \/ WorkerSleep(w)
    \/ WorkerPop(w)
    \/ WorkerRead(w)
    \/ WorkerPoll(w)
    \/ WorkerSend(w)

-----------------------------------------------------------------------------
(* The listener thread and the peers: the steps of ClientTable, with what   *)
(* add() and removeClient() do to the counters.                             *)

Table == INSTANCE ClientTable WITH clients <- client_by_sockfd, stopped <- end_publisher

Accept(fd) ==
    /\ Table!Accept(fd)
    /\ UNCHANGED <<buffer, queue_size_by_sockfd, enqueueVars, payloads, workerVars,
                   stopAt, running>>

Admit(fd) ==
    /\ Table!Admit(fd)
    /\ UNCHANGED <<buffer, queue_size_by_sockfd, enqueueVars, payloads, workerVars,
                   stopAt, running>>

(* addClient() starts the counter at 0. *)
AddClient(fd) ==
    /\ Table!AddClient(fd)
    /\ queue_size_by_sockfd' = [queue_size_by_sockfd EXCEPT ![fd] = 0]
    /\ UNCHANGED <<buffer, enqueueVars, payloads, workerVars, stopAt, running>>

JoinAnother(fd) ==
    /\ Table!JoinAnother(fd)
    /\ UNCHANGED <<buffer, queue_size_by_sockfd, enqueueVars, payloads, workerVars,
                   stopAt, running>>

PeerResets(fd) ==
    /\ Table!PeerResets(fd)
    /\ UNCHANGED <<buffer, queue_size_by_sockfd, enqueueVars, payloads, workerVars,
                   stopAt, running>>

(* For a client that never joined, or joined another topic since, the       *)
(* counter of its descriptor, which may still count payloads, is left alone. *)
RemoveClient(fd) ==
    /\ Table!RemoveClient(fd)
    /\ queue_size_by_sockfd' =
         IF fd \in joined
         THEN [queue_size_by_sockfd EXCEPT ![fd] = 0] ELSE queue_size_by_sockfd
    /\ UNCHANGED <<buffer, enqueueVars, payloads, workerVars, stopAt, running>>

CloseSocket(fd) ==
    /\ Table!CloseSocket(fd)
    /\ UNCHANGED <<buffer, queue_size_by_sockfd, enqueueVars, payloads, workerVars,
                   stopAt, running>>

Clients(fd) ==
    \/ Accept(fd)
    \/ Admit(fd)
    \/ AddClient(fd)
    \/ JoinAnother(fd)
    \/ PeerResets(fd)
    \/ RemoveClient(fd)
    \/ CloseSocket(fd)

-----------------------------------------------------------------------------
(* stop() *)

Stop ==
    /\ stopAt = "idle"
    /\ end_publisher' = TRUE
    /\ stopAt' = "notify"
    /\ UNCHANGED <<topicVars, enqueueVars, payloads, workerVars, socketVars, running>>

(* Fault: one worker is told, and not all. *)
NotifyAll_One ==
    /\ stopAt = "notify"
    /\ LET asleep == {w \in Workers : workerAt[w] = "asleep"}
       IN  IF asleep = {} THEN UNCHANGED workerAt
           ELSE \E w \in asleep : workerAt' = [workerAt EXCEPT ![w] = "lock"]
    /\ stopAt' = "join"
    /\ UNCHANGED <<topicVars, enqueueVars, payloads, cv_mtx, payload, chunk,
                   socketVars, end_publisher, running>>

(* notify_all(), without cv_mtx_ *)
NotifyAll ==
    /\ stopAt = "notify"
    /\ workerAt' = [w \in Workers |->
                      IF workerAt[w] = "asleep" THEN "lock" ELSE workerAt[w]]
    /\ stopAt' = "join"
    /\ UNCHANGED <<topicVars, enqueueVars, payloads, cv_mtx, payload, chunk,
                   socketVars, end_publisher, running>>

(* Once every worker is joined, topics_ and payloads_ are cleared. *)
JoinWorkers ==
    /\ stopAt = "join"
    /\ \A w \in Workers : workerAt[w] = "returned"
    /\ Table!Clear
    /\ buffer' = 0
    /\ queue_size_by_sockfd' = [fd \in Fd |-> 0]
    /\ payloads' = <<>>
    /\ stopAt' = "terminated"
    /\ UNCHANGED <<enqueueVars, workerVars, running>>

Stopping == Stop \/ NotifyAll \/ JoinWorkers

Next ==
    /\ running
    /\ \/ \E p \in Publishers : EnqueueBegins(p) \/ Enqueue(p)
       \/ \E w \in Workers : Worker(w) \/ SpuriousWakeup(w)
       \/ \E fd \in Fd : Clients(fd)
       \/ Stopping

Spec == Init /\ [][Next]_vars

(* Threads keep running: enqueue() and stop() go on once begun, and so does *)
(* a worker unless it is asleep.                                            *)
Fairness ==
    /\ \A p \in Publishers : WF_vars(running /\ Enqueue(p))
    /\ \A w \in Workers : WF_vars(running /\ Worker(w))
    /\ WF_vars(running /\ (NotifyAll \/ JoinWorkers))

FairSpec == Spec /\ Fairness

-----------------------------------------------------------------------------
(* Properties *)

Payload == [fd : Fd, picture : 1..MaxPictures]

(* Every variable stays in its range; a payload always has a picture. *)
TypeOK ==
    /\ buffer \in 0..MaxPictures
    /\ client_by_sockfd \subseteq Fd
    /\ queue_size_by_sockfd \in [Fd -> Int]
    /\ enqueueAt \in [Publishers -> {"idle", "set", "clients", "loop", "push", "notify"}]
    /\ picture \in [Publishers -> 0..MaxPictures]
    /\ todo \in [Publishers -> SUBSET Fd]
    /\ target \in [Publishers -> Fd \cup {NoFd}]
    /\ payloads \in Seq(Payload)
    /\ cv_mtx \in Workers \cup {Unlocked}
    /\ workerAt \in [Workers -> {"top", "lock", "tested", "asleep", "pop", "read",
                                 "poll", "send", "threw", "failed", "returned"}]
    /\ payload \in [Workers -> Payload \cup {NoPayload}]
    /\ chunk \in [Workers -> 0..MaxPictures]
    /\ socket \in [Fd -> {"closed", "open", "reset"}]
    /\ closing \subseteq Fd
    /\ adding \subseteq Fd
    /\ joined \subseteq Fd
    /\ end_publisher \in BOOLEAN
    /\ stopAt \in {"idle", "notify", "join", "terminated"}
    /\ running \in BOOLEAN

(* The limit is tested in one critical section and the counter raised in    *)
(* another: each publishing thread can exceed it by one, and no more.       *)
CounterBound ==
    \A fd \in Fd : queue_size_by_sockfd[fd] <= Limit + Cardinality(Publishers)

(* A client is never refused pictures for a backlog it does not have, even  *)
(* when its descriptor was used by another client with payloads in the      *)
(* queue: its counter claims no more than the queue holds for it.           *)
QueuedFor(fd) == {k \in DOMAIN payloads : payloads[k].fd = fd}
NoPhantomBacklog ==
    \A fd \in Fd : queue_size_by_sockfd[fd] <= Cardinality(QueuedFor(fd))

(* A client that is passed over because its counter is full has a payload   *)
(* in the queue, for which the worker that takes it reads this picture or a *)
(* later one: however the limit falls, nobody is left without the last      *)
(* picture for it.                                                          *)
PassedOverIsQueued ==
    [][\A p \in Publishers : \A fd \in todo[p] \ todo'[p] :
         enqueueAt'[p] # "push" => QueuedFor(fd) # {}]_vars

(* payloads_.front() is never taken of an empty queue, though publishers    *)
(* push without cv_mtx_ and several workers are woken for one payload.      *)
PopNonEmpty ==
    \A w \in Workers : workerAt[w] = "pop" /\ ~end_publisher => payloads # <<>>

IsAwake(w) == workerAt[w] \notin {"tested", "asleep", "threw", "failed", "returned"}

(* notify_one() is called without cv_mtx_ and may fall between a worker's   *)
(* test of the queue and its sleep.  With two or more workers no payload is *)
(* left behind all the same: while the queue is not empty, a notification   *)
(* is on its way or a worker is awake.                                      *)
NoStall ==
    running /\ ~end_publisher /\ payloads # <<>> =>
      \/ \E p \in Publishers : enqueueAt[p] = "notify"
      \/ \E w \in Workers : IsAwake(w)

(* What a worker sends for a payload is at least as new as the picture the  *)
(* payload was pushed for.                                                  *)
FreshPicture ==
    \A w \in Workers :
      workerAt[w] \in {"poll", "send"} => chunk[w] >= payload[w].picture

(* The events of poll() are those of a socket that can be written to        *)
(* (mjpeg_streamer.hpp:802).                                                *)
PollFindsWritable == \A w \in Workers : workerAt[w] # "threw"

(* Every payload is taken from the queue, unless stop() is called or the    *)
(* process ends.                                                            *)
IsQueued(n) == \E i \in DOMAIN payloads : payloads[i].picture = n
PayloadsAreTaken ==
    \A n \in 1..MaxPictures :
      IsQueued(n) ~> ~IsQueued(n) \/ end_publisher \/ ~running

(* notify_all() is called without cv_mtx_ either: of the workers that found *)
(* the flag down one may still be on its way to sleep, and stop() joins it  *)
(* for ever.  It is the only one: all others return.                        *)
Missed(w) == workerAt[w] \in {"tested", "asleep"}
StopMissesOne ==
    stopAt \in {"join", "terminated"} =>
      \A v, w \in Workers : Missed(v) /\ Missed(w) => v = w

(* stop() returns if no worker is between its test and its sleep when it    *)
(* notifies them; otherwise it returns, or comes to wait for this one       *)
(* alone, asleep, after all others have returned.                           *)
NoneTested == \A w \in Workers : workerAt[w] # "tested"
WaitsForOne ==
    /\ stopAt = "join"
    /\ \E w \in Workers : /\ workerAt[w] = "asleep"
                         /\ \A v \in Workers \ {w} : workerAt[v] = "returned"
StopReturns ==
    /\ stopAt = "notify" /\ NoneTested ~> stopAt = "terminated" \/ ~running
    /\ stopAt = "notify" ~> stopAt = "terminated" \/ ~running \/ WaitsForOne
=============================================================================
