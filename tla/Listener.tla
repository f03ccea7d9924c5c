------------------------------- MODULE Listener -------------------------------
(***************************************************************************)
(* nadjieb::net::Listener of stream/mjpeg_streamer.hpp with the callbacks  *)
(* MJPEGStreamer gives it: the thread that polls the sockets, accepts and  *)
(* reads connections, answers requests, and adds and removes the           *)
(* publisher's clients; and start() and stop() of the streamer.            *)
(*                                                                         *)
(* A request is what HTTPRequest::parse sees of it: its target, and        *)
(* whether the data holds the empty line that ends it.  Of the publisher   *)
(* there is what the listener and stop() change (Publisher opens it up):   *)
(* its stop() raises a flag, joins the workers, which may never end, and   *)
(* clears its maps.                                                        *)
(***************************************************************************)
EXTENDS Integers, SequencesExt

CONSTANTS
    Fd,           \* descriptors the kernel has for connections
    Peers,        \* HTTP clients, with one connection at a time each
    Targets,      \* what they ask for
    MaxPieces     \* bound: pieces of requests they send, together

Published == "/stream"           \* the one path of streamer.publish()
NoPath == ""                     \* of a client that is not in path_by_client_
shutdown_target == "/shutdown"
Post == "POST"                   \* a request of another method, whatever its path
Paths == (Targets \ {shutdown_target, Post}) \cup {Published, NoPath}

listen_sd == "listen"
InvalidSocket == "invalid"
NoPeer == "nobody"

ASSUME ListenerAssumption ==
    /\ {listen_sd, InvalidSocket} \cap Fd = {}
    /\ NoPeer \notin Peers
    /\ MaxPieces \in Nat

VARIABLES
    (* Listener *)
    state,            \* Runnable::state_
    end_listener,
    fds,              \* the poll array: fd and revents
    at,               \* where the listener thread is
    i,                \* the entry it is at
    current_size,
    compress_array,
    data,             \* what was read from fds[i].fd
    (* the publisher, as far as the listener changes it *)
    end_publisher,
    topics,           \* the paths that exist
    clients,          \* client_by_sockfd_ of each topic
    path_by_client,
    mainAt,           \* the thread that runs start() and, on exit, stop()
    (* kernel and peers *)
    conn,             \* conn[fd]: the peer at the other end, NoPeer: fd is closed
    backlog,          \* peers to be accepted
    peer,             \* "away", "up", "closed" or "reset" by it
    rx,               \* pieces of requests received and not yet read
    pieces            \* how many they have sent

scanVars == <<i, current_size, compress_array, data>>
listenerVars == <<state, end_listener, fds, at, scanVars>>
publisherVars == <<end_publisher, topics, clients, path_by_client>>
peerVars == <<conn, backlog, peer, rx, pieces>>
vars == <<listenerVars, publisherVars, mainAt, peerVars>>

Init ==
    /\ state = "NEW"
    /\ end_listener = TRUE
    /\ fds = <<>>
    /\ at = "boot"
    /\ i = 1
    /\ current_size = 0
    /\ compress_array = FALSE
    /\ data = <<>>
    /\ end_publisher = FALSE
    /\ topics = {}
    /\ clients = [t \in Paths |-> {}]
    /\ path_by_client = [fd \in Fd |-> NoPath]
    /\ mainAt = "starting"
    /\ conn = [fd \in Fd |-> NoPeer]
    /\ backlog = <<>>
    /\ peer = [c \in Peers |-> "away"]
    /\ rx = [c \in Peers |-> <<>>]
    /\ pieces = 0

(* An exception of the thread ends the process: "aborted" without a cleanup *)
running == at \notin {"threw", "aborted"}

-----------------------------------------------------------------------------
(* run(): start-up *)

Boot ==
    /\ at = "boot"
    /\ state' = "BOOTING"
    /\ end_listener' = FALSE
    /\ at' = "listen"
    /\ UNCHANGED <<fds, scanVars, publisherVars, mainAt, peerVars>>

(* Fault: the state is not advanced before the loop is entered. *)
Listen_StaysBooting ==
    /\ at = "listen"
    /\ fds' = <<[fd |-> listen_sd, revents |-> "none"]>>
    /\ at' = "poll"
    /\ UNCHANGED <<state, end_listener, scanVars, publisherVars, mainAt, peerVars>>

Listen ==
    /\ at = "listen"
    /\ fds' = <<[fd |-> listen_sd, revents |-> "none"]>>
    /\ state' = "RUNNING"
    /\ at' = "poll"
    /\ UNCHANGED <<end_listener, scanVars, publisherVars, mainAt, peerVars>>

(* Any of the socket calls fails, bind() when the port is taken. *)
ListenFails ==
    /\ at = "listen"
    /\ at' = "threw"
    /\ UNCHANGED <<state, end_listener, fds, scanVars, publisherVars, mainAt, peerVars>>

-----------------------------------------------------------------------------
(* run(): the loop *)

(* What poll() says of an entry: "error" is POLLERR, POLLHUP or POLLNVAL.   *)
Revents(fd) ==
    IF fd = listen_sd THEN IF backlog # <<>> THEN "read" ELSE "none"
    ELSE IF conn[fd] = NoPeer \/ peer[conn[fd]] = "reset" THEN "error"
    ELSE IF rx[conn[fd]] # <<>> \/ peer[conn[fd]] = "closed" THEN "read"
    ELSE "none"

(* A poll() that finds nothing within 100 ms is repeated. *)
Poll ==
    /\ at = "poll"
    /\ ~end_listener
    /\ \E k \in DOMAIN fds : Revents(fds[k].fd) # "none"
    /\ fds' = [k \in DOMAIN fds |-> [fds[k] EXCEPT !.revents = Revents(fds[k].fd)]]
    /\ current_size' = Len(fds)
    /\ at' = "scan"
    /\ UNCHANGED <<state, end_listener, i, compress_array, data, publisherVars,
                   mainAt, peerVars>>

(* panicIfUnexpected() closes everything and throws, and nobody catches it. *)
Panic ==
    /\ state' = "TERMINATING"
    /\ i' = 1
    /\ at' = "panic"
    /\ UNCHANGED <<end_listener, fds, current_size, compress_array, data,
                   publisherVars, mainAt, peerVars>>

PollFails ==
    /\ at = "poll"
    /\ ~end_listener
    /\ Panic

LoopEnds ==
    /\ at = "poll"
    /\ end_listener
    /\ state' = "TERMINATING"
    /\ at' = "closeAll"
    /\ UNCHANGED <<end_listener, fds, scanVars, publisherVars, mainAt, peerVars>>

(* Fault: the last entry is not looked at. *)
InScan_ButLast == i < current_size

InScan == i <= current_size

(* data belongs to one round of the loop, and i, current_size,              *)
(* compress_array and revents to one scan: they are cleared where it ends.  *)
NextEntry ==
    /\ at' = "scan"
    /\ i' = i + 1
    /\ data' = <<>>

(* The entry has nothing to be done, is broken, is the listening socket, or *)
(* can be read.                                                             *)
ScanEntry ==
    /\ at = "scan"
    /\ InScan
    /\ IF fds[i].revents = "none" THEN i' = i + 1 /\ UNCHANGED at
       ELSE /\ at' = IF fds[i].revents = "error" THEN "beforeClose"
                     ELSE IF fds[i].fd = listen_sd THEN "accept" ELSE "read"
            /\ UNCHANGED i
    /\ UNCHANGED <<state, end_listener, fds, current_size, compress_array, data,
                   publisherVars, mainAt, peerVars>>

(* accept(): the connection has the lowest free descriptor; any will do.    *)
Accept(fd) ==
    /\ at = "accept"
    /\ backlog # <<>>
    /\ conn[fd] = NoPeer
    /\ conn' = [conn EXCEPT ![fd] = Head(backlog)]
    /\ backlog' = Tail(backlog)
    /\ fds' = Append(fds, [fd |-> fd, revents |-> "none"])
    /\ UNCHANGED <<state, end_listener, at, scanVars, publisherVars, mainAt,
                   peer, rx, pieces>>

AcceptWouldBlock ==
    /\ at = "accept"
    /\ backlog = <<>>
    /\ NextEntry
    /\ UNCHANGED <<state, end_listener, fds, current_size, compress_array,
                   publisherVars, mainAt, peerVars>>

(* No descriptor is left, or accept() fails for another reason. *)
AcceptFails ==
    /\ at = "accept"
    /\ Panic

(* recv() until it would block.  A connection that the peer has closed or   *)
(* reset is closed, whatever was read before that.                          *)
Read ==
    /\ at = "read"
    /\ LET c == conn[fds[i].fd]
       IN  /\ data' = rx[c]
           /\ rx' = [rx EXCEPT ![c] = <<>>]
           /\ at' = IF peer[c] = "up" THEN "message" ELSE "beforeClose"
    /\ UNCHANGED <<state, end_listener, fds, i, current_size, compress_array,
                   publisherVars, mainAt, conn, backlog, peer, pieces>>

-----------------------------------------------------------------------------
(* on_message_cb_ *)

Target == data[1].target

(* HTTPRequest::parse reads lines until it finds an empty one, also past    *)
(* the end of the data.  Where a cut request was cut shows only then.       *)
IsWhole == \E k \in DOMAIN data : data[k].ends

ParseForEver ==
    /\ at = "message"
    /\ ~IsWhole
    /\ at' = "hung"
    /\ UNCHANGED <<state, end_listener, fds, scanVars, publisherVars, mainAt, peerVars>>

(* A request cut after the return of its empty line passes the loop, but    *)
(* leaves the stream at its end: tellg() is -1, and substr() throws.        *)
ParseThrows ==
    /\ at = "message"
    /\ ~IsWhole
    /\ at' = "aborted"
    /\ UNCHANGED <<state, end_listener, fds, scanVars, publisherVars, mainAt, peerVars>>

(* publisher_.stop() begins, and clears its maps once the workers ended. *)
ShutDown ==
    /\ at = "message"
    /\ IsWhole /\ Target = shutdown_target
    /\ end_publisher' = TRUE
    /\ at' = "stop"
    /\ UNCHANGED <<state, end_listener, fds, scanVars, topics, clients, path_by_client,
                   mainAt, peerVars>>

PublisherCleared ==
    /\ topics' = {}
    /\ clients' = [t \in Paths |-> {}]
    /\ path_by_client' = [fd \in Fd |-> NoPath]
    /\ UNCHANGED end_publisher

(* Fault: the flag is not raised, and only the publisher stops. *)
ShutDownReturns_PublisherOnly ==
    /\ at = "stop"
    /\ PublisherCleared
    /\ NextEntry
    /\ UNCHANGED <<state, end_listener, fds, current_size, compress_array,
                   mainAt, peerVars>>

ShutDownReturns ==
    /\ at = "stop"
    /\ PublisherCleared
    /\ end_listener' = TRUE
    /\ NextEntry
    /\ UNCHANGED <<state, fds, current_size, compress_array, mainAt, peerVars>>

(* 405, or 404 where nothing was published under the path. *)
Refuse ==
    /\ at = "message"
    /\ IsWhole /\ Target # shutdown_target
    /\ Target = Post \/ Target \notin topics
    /\ at' = "beforeClose"
    /\ UNCHANGED <<state, end_listener, fds, scanVars, publisherVars, mainAt, peerVars>>

(* Fault: the branches before it do not return. *)
Welcome_Always ==
    /\ at = "message"
    /\ IsWhole
    /\ at' = "add"
    /\ UNCHANGED <<state, end_listener, fds, scanVars, publisherVars, mainAt, peerVars>>

(* 200: the header is sent, then the client added. *)
Welcome ==
    /\ at = "message"
    /\ IsWhole /\ Target \in topics \ {shutdown_target, Post}
    /\ at' = "add"
    /\ UNCHANGED <<state, end_listener, fds, scanVars, publisherVars, mainAt, peerVars>>

(* add() looks at end_publisher_ once, and stop() may raise it after that. *)
AdmitClient ==
    /\ at = "add"
    /\ IF end_publisher THEN NextEntry
       ELSE at' = "adding" /\ UNCHANGED <<i, data>>
    /\ UNCHANGED <<state, end_listener, fds, current_size, compress_array,
                   publisherVars, mainAt, peerVars>>

AddClient ==
    /\ at = "adding"
    /\ topics' = topics \cup {Target}
    /\ clients' = [clients EXCEPT ![Target] = @ \cup {fds[i].fd}]
    /\ path_by_client' = [path_by_client EXCEPT ![fds[i].fd] = Target]
    /\ NextEntry
    /\ UNCHANGED <<state, end_listener, fds, current_size, compress_array,
                   end_publisher, mainAt, peerVars>>

-----------------------------------------------------------------------------
(* Closing a connection *)

(* topics_[...] creates the topic it does not find, that of the empty path  *)
(* for a client that never joined.                                          *)
Removed(fd) ==
    LET path == path_by_client[fd]
    IN  /\ topics' = topics \cup {path}
        /\ clients' = [clients EXCEPT ![path] = @ \ {fd}]
        /\ path_by_client' = [path_by_client EXCEPT ![fd] = NoPath]

Closed(fd) ==
    /\ conn' = [conn EXCEPT ![fd] = NoPeer]
    /\ peer' = [peer EXCEPT ![conn[fd]] = "away"]
    /\ rx' = [rx EXCEPT ![conn[fd]] = <<>>]
    /\ UNCHANGED <<backlog, pieces>>

(* Fault: the publisher is not told of a connection that broke. *)
BeforeClose_ReadOnly ==
    /\ at = "beforeClose"
    /\ IF fds[i].revents = "error" THEN UNCHANGED <<topics, clients, path_by_client>>
       ELSE Removed(fds[i].fd)
    /\ at' = "close"
    /\ UNCHANGED <<state, end_listener, fds, scanVars, end_publisher, mainAt, peerVars>>

(* on_before_close_cb_ *)
BeforeClose ==
    /\ at = "beforeClose"
    /\ Removed(fds[i].fd)
    /\ at' = "close"
    /\ UNCHANGED <<state, end_listener, fds, scanVars, end_publisher, mainAt, peerVars>>

CloseConnection ==
    /\ at = "close"
    /\ Closed(fds[i].fd)
    /\ fds' = [fds EXCEPT ![i].fd = InvalidSocket]
    /\ compress_array' = TRUE
    /\ NextEntry
    /\ UNCHANGED <<state, end_listener, current_size, publisherVars, mainAt>>

Unmarked == [k \in DOMAIN fds |-> [fds[k] EXCEPT !.revents = "none"]]

ScanEnds ==
    /\ at = "scan"
    /\ ~InScan
    /\ fds' = Unmarked
    /\ i' = 1
    /\ current_size' = 0
    /\ compress_array' = FALSE
    /\ at' = IF compress_array THEN "compress" ELSE "poll"
    /\ UNCHANGED <<state, end_listener, data, publisherVars, mainAt, peerVars>>

(* Fault: the entry that takes the place of an erased one is passed over. *)
CompressEntry_SkipsNext ==
    /\ at = "compress"
    /\ i <= Len(fds)
    /\ fds' = IF fds[i].fd = InvalidSocket THEN RemoveAt(fds, i) ELSE fds
    /\ i' = i + 1
    /\ UNCHANGED <<state, end_listener, at, current_size, compress_array, data,
                   publisherVars, mainAt, peerVars>>

(* compress(): an entry is erased, or passed. *)
CompressEntry ==
    /\ at = "compress"
    /\ i <= Len(fds)
    /\ IF fds[i].fd = InvalidSocket
       THEN fds' = RemoveAt(fds, i) /\ UNCHANGED i
       ELSE i' = i + 1 /\ UNCHANGED fds
    /\ UNCHANGED <<state, end_listener, at, current_size, compress_array, data,
                   publisherVars, mainAt, peerVars>>

CompressEnds ==
    /\ at = "compress"
    /\ i > Len(fds)
    /\ i' = 1
    /\ at' = "poll"
    /\ UNCHANGED <<state, end_listener, fds, current_size, compress_array, data,
                   publisherVars, mainAt, peerVars>>

(* closeAll(), entry by entry: none is invalid, the listening socket being  *)
(* looked at first and the array compressed after each scan.  The publisher *)
(* is told of the listening socket too, which it does not know.             *)
CloseNext ==
    /\ at \in {"closeAll", "panic"}
    /\ i <= Len(fds)
    /\ \/ /\ fds[i].fd \in Fd
          /\ Removed(fds[i].fd)
          /\ at' = IF at = "panic" THEN "panicClose" ELSE "closeAllClose"
          /\ UNCHANGED i
       \/ /\ fds[i].fd = listen_sd
          /\ topics' = topics \cup {NoPath}
          /\ i' = i + 1
          /\ UNCHANGED <<at, clients, path_by_client>>
    /\ UNCHANGED <<state, end_listener, fds, current_size, compress_array, data,
                   end_publisher, mainAt, peerVars>>

CloseNextSocket ==
    /\ at \in {"closeAllClose", "panicClose"}
    /\ Closed(fds[i].fd)
    /\ i' = i + 1
    /\ at' = IF at = "panicClose" THEN "panic" ELSE "closeAll"
    /\ UNCHANGED <<state, end_listener, fds, current_size, compress_array, data,
                   publisherVars, mainAt>>

CloseAllEnds ==
    /\ at \in {"closeAll", "panic"}
    /\ i > Len(fds)
    /\ fds' = <<>>
    /\ state' = "TERMINATED"
    /\ at' = IF at = "panic" THEN "threw" ELSE "returned"
    /\ UNCHANGED <<end_listener, scanVars, publisherVars, mainAt, peerVars>>

Run ==
    \/ Boot \/ Listen
    \/ Poll \/ LoopEnds \/ ScanEntry \/ ScanEnds \/ CompressEntry \/ CompressEnds
    \/ (\E fd \in Fd : Accept(fd)) \/ AcceptWouldBlock \/ AcceptFails
    \/ Read
    \/ ParseForEver \/ ParseThrows \/ ShutDown \/ Refuse \/ Welcome
    \/ AdmitClient \/ AddClient
    \/ BeforeClose \/ CloseConnection
    \/ CloseNext \/ CloseNextSocket \/ CloseAllEnds

-----------------------------------------------------------------------------
(* The rest of the process: publish(), start() and stop(). *)

(* A call that has found end_publisher_ down may create the topic after     *)
(* stop() has cleared them.                                                 *)
Publish ==
    /\ mainAt # "starting"
    /\ topics' = topics \cup {Published}
    /\ UNCHANGED <<listenerVars, end_publisher, clients, path_by_client, mainAt, peerVars>>

(* Fault: only the publisher is looked at. *)
StartReturns_AtOnce ==
    /\ mainAt = "starting"
    /\ ~end_publisher
    /\ mainAt' = "started"
    /\ UNCHANGED <<listenerVars, publisherVars, peerVars>>

(* start() looks every 10 ms whether publisher and listener run. *)
StartReturns ==
    /\ mainAt = "starting"
    /\ state = "RUNNING" /\ ~end_publisher
    /\ mainAt' = "started"
    /\ UNCHANGED <<listenerVars, publisherVars, peerVars>>

(* exit() destroys the streamer: stop(). *)
StopPublisher ==
    /\ mainAt = "started"
    /\ end_publisher' = TRUE
    /\ mainAt' = "publisher"
    /\ UNCHANGED <<listenerVars, topics, clients, path_by_client, peerVars>>

PublisherReturns ==
    /\ mainAt = "publisher"
    /\ PublisherCleared
    /\ mainAt' = "stopping"
    /\ UNCHANGED <<listenerVars, peerVars>>

(* A request and exit() are in publisher_.stop() at once, and join one      *)
(* worker twice.                                                            *)
StopsCollide ==
    /\ mainAt = "publisher"
    /\ at = "stop"
    /\ at' = "aborted"
    /\ UNCHANGED <<state, end_listener, fds, scanVars, publisherVars, mainAt, peerVars>>

StopListener ==
    /\ mainAt = "stopping"
    /\ end_listener' = TRUE
    /\ mainAt' = "joining"
    /\ UNCHANGED <<state, fds, at, scanVars, publisherVars, peerVars>>

JoinListener ==
    /\ mainAt = "joining"
    /\ at = "returned"
    /\ mainAt' = "stopped"
    /\ UNCHANGED <<listenerVars, publisherVars, peerVars>>

Main == StartReturns \/ StopListener \/ JoinListener

-----------------------------------------------------------------------------
(* The peers. *)

Connect(c) ==
    /\ peer[c] = "away"
    /\ state = "RUNNING"
    /\ peer' = [peer EXCEPT ![c] = "up"]
    /\ backlog' = Append(backlog, c)
    /\ UNCHANGED <<listenerVars, publisherVars, mainAt, conn, rx, pieces>>

(* A request arrives in one piece or in two. *)
IsCut(c) == rx[c] # <<>> /\ ~Last(rx[c]).ends

Send(c, target, ends) ==
    /\ peer[c] = "up"
    /\ pieces < MaxPieces
    /\ IsCut(c) => ends /\ target = Last(rx[c]).target
    /\ rx' = [rx EXCEPT ![c] = Append(@, [target |-> target, ends |-> ends])]
    /\ pieces' = pieces + 1
    /\ UNCHANGED <<listenerVars, publisherVars, mainAt, conn, backlog, peer>>

(* The peer closes its end, or resets the connection. *)
Leave(c, how) ==
    /\ peer[c] = "up"
    /\ peer' = [peer EXCEPT ![c] = how]
    /\ UNCHANGED <<listenerVars, publisherVars, mainAt, conn, backlog, rx, pieces>>

Next ==
    /\ running
    /\ \/ Run \/ ListenFails \/ PollFails
       \/ Main \/ Publish \/ StopPublisher
       \/ ShutDownReturns \/ PublisherReturns \/ StopsCollide
       \/ \E c \in Peers :
            \/ Connect(c)
            \/ \E target \in Targets, ends \in BOOLEAN : Send(c, target, ends)
            \/ \E how \in {"closed", "reset"} : Leave(c, how)

Spec == Init /\ [][Next]_vars

(* The listener thread and the thread in start() or stop() run, but for the *)
(* join of the workers, which may last for ever.                            *)
FairSpec == Spec /\ WF_vars(running /\ Run) /\ WF_vars(running /\ Main)

-----------------------------------------------------------------------------
(* Properties *)

Piece == [target : Targets, ends : BOOLEAN]
Entry == [fd : Fd \cup {listen_sd, InvalidSocket}, revents : {"none", "read", "error"}]

(* Every variable stays in its range. *)
TypeOK ==
    /\ state \in {"NEW", "BOOTING", "RUNNING", "TERMINATING", "TERMINATED"}
    /\ end_listener \in BOOLEAN
    /\ fds \in Seq(Entry)
    /\ at \in {"boot", "listen", "poll", "scan", "accept", "read", "message", "stop", "add",
               "adding", "hung", "beforeClose", "close", "compress", "closeAll", "closeAllClose", "panic",
               "panicClose", "returned", "threw", "aborted"}
    /\ i \in Nat /\ current_size \in Nat
    /\ compress_array \in BOOLEAN
    /\ data \in Seq(Piece)
    /\ end_publisher \in BOOLEAN
    /\ topics \subseteq Paths
    /\ clients \in [Paths -> SUBSET Fd]
    /\ path_by_client \in [Fd -> Paths]
    /\ mainAt \in {"starting", "started", "publisher", "stopping", "joining", "stopped"}
    /\ conn \in [Fd -> Peers \cup {NoPeer}]
    /\ backlog \in Seq(Peers)
    /\ peer \in [Peers -> {"away", "up", "closed", "reset"}]
    /\ rx \in [Peers -> Seq(Piece)]
    /\ pieces \in 0..MaxPieces

(* Whenever the listener polls, its array holds the listening socket first  *)
(* and every open connection exactly once, whatever was accepted and closed *)
(* in one scan and whichever descriptors were used again; and when it has   *)
(* ended, no connection is open.                                            *)
PollArrayIsExact ==
    /\ at = "poll" =>
         /\ fds[1].fd = listen_sd
         /\ \A k, l \in DOMAIN fds : fds[k].fd = fds[l].fd => k = l
         /\ {fds[k].fd : k \in 2..Len(fds)} = {fd \in Fd : conn[fd] # NoPeer}
    /\ at \in {"returned", "threw"} => \A fd \in Fd : conn[fd] = NoPeer

(* Where the publisher has a path for a descriptor, its connection is open  *)
(* and, until stop(), it is a client of this path: whatever topics its peer *)
(* asked for, it leaves path_by_client_ and the topic of its last request   *)
(* before it is closed, and a connection that is given the descriptor later *)
(* has no path until it joins.  The topics it joined before that keep it,   *)
(* and pass it on with the descriptor.                                      *)
JoinedAreConnected ==
    \A fd \in Fd : path_by_client[fd] # NoPath =>
      conn[fd] # NoPeer /\ (end_publisher \/ fd \in clients[path_by_client[fd]])

(* The publisher is given what Publisher assumes of its listener: whatever  *)
(* ends a connection, a request, its peer, a panic or closeAll(), its       *)
(* descriptor is removed from the topic of its path, then closed, and not   *)
(* made a client between the two, or by a request that comes once the       *)
(* publisher is being stopped.                                              *)
Socket(fd) ==
    IF conn[fd] = NoPeer THEN "closed" ELSE IF peer[conn[fd]] = "reset" THEN "reset" ELSE "open"
Removing == IF at \in {"close", "closeAllClose", "panicClose"} THEN {fds[i].fd} ELSE {}
Adding == IF at = "adding" THEN {fds[i].fd} ELSE {}
Joined == {fd \in Fd : path_by_client[fd] = Published}

Table == INSTANCE ClientTable WITH
    socket <- [fd \in Fd |-> Socket(fd)], closing <- Removing, adding <- Adding,
    clients <- clients[Published], joined <- Joined, stopped <- end_publisher

KeepsClientTable == Table!Spec

(* run() lowers end_listener when it starts, on a thread of its own: it     *)
(* never lowers one that stop() or a request has raised, and once they stop *)
(* the publisher the listener is told, or about to be when that returns.    *)
StopIsNotLost ==
    end_publisher => end_listener \/ mainAt \in {"publisher", "stopping"} \/ at = "stop"

(* start() looks at the listener's state every 10 ms, and not at whether it *)
(* has passed: the listener has left RUNNING before start() returns only if *)
(* a request has shut it down or an exception is about to end the process.  *)
StartSeesRunning ==
    mainAt = "starting" /\ state \in {"TERMINATING", "TERMINATED"} =>
      end_publisher \/ at \in {"panic", "panicClose", "threw"}

(* What a peer sends is read, unless the listener has ended or is about to, *)
(* is caught in a request that came in two pieces, or undone by it, or waits *)
(* for a worker: no entry of the array is passed over for good.             *)
RequestsAreRead ==
    \A c \in Peers :
      rx[c] # <<>> ~> \/ rx[c] = <<>>
                      \/ at \in {"stop", "hung", "closeAll", "returned", "panic", "threw", "aborted"}

(* A shutdown, asked for by a request or by stop(), ends the listener       *)
(* thread once the publisher's stop() has returned, unless it is caught in  *)
(* a request or calls it again: StopReturns of Publisher says when that     *)
(* waits for ever for a worker.                                             *)
InPublisherStop == at = "stop" \/ mainAt = "publisher"

ShutdownEnds ==
    end_publisher /\ ~InPublisherStop ~>
      at \in {"returned", "hung", "threw", "aborted"} \/ InPublisherStop

(* start() returns, unless a shutdown request was faster.                   *)
StartDoesReturn == mainAt = "starting" ~> mainAt # "starting" \/ end_publisher \/ ~running
=============================================================================
