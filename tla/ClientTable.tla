----------------------------- MODULE ClientTable -----------------------------
(***************************************************************************)
(* What the listener thread and the publisher share: the descriptors of    *)
(* the HTTP connections, and which of them are clients of the topic that   *)
(* workers send to.  A connection becomes a client while it is open, and   *)
(* has ceased to be one before its descriptor is closed, unless it asked   *)
(* for another topic after this one: then it stays a client, and so may    *)
(* the connection that is given its descriptor.                            *)
(*                                                                         *)
(* The listener of Publisher takes these steps; Listener is shown to take  *)
(* no others.                                                              *)
(***************************************************************************)
CONSTANT Fd        \* socket descriptors the kernel gives to HTTP clients

VARIABLES
    socket,        \* "closed", "open", "reset" by the peer
    closing,       \* removed as a client, closed in a moment
    adding,        \* add() has found the publisher running
    clients,       \* the descriptors workers may send to
    joined,        \* those whose last topic is this one
    stopped        \* the publisher has been told to take no more clients

vars == <<socket, closing, adding, clients, joined, stopped>>

Init ==
    /\ socket = [fd \in Fd |-> "closed"]
    /\ closing = {}
    /\ adding = {}
    /\ clients = {}
    /\ joined = {}
    /\ stopped = FALSE

(* The peer may have reset the connection before it is accepted. *)
Accept(fd) ==
    /\ socket[fd] = "closed"
    /\ \E how \in {"open", "reset"} : socket' = [socket EXCEPT ![fd] = how]
    /\ UNCHANGED <<closing, adding, clients, joined, stopped>>

(* add(), also on a later request of a client that has joined: it looks at  *)
(* the flag first, and stop() may raise it before the client is added.      *)
Admit(fd) ==
    /\ socket[fd] # "closed" /\ fd \notin closing \cup adding
    /\ ~stopped
    /\ adding' = adding \cup {fd}
    /\ UNCHANGED <<socket, closing, clients, joined, stopped>>

AddClient(fd) ==
    /\ fd \in adding
    /\ adding' = adding \ {fd}
    /\ clients' = clients \cup {fd}
    /\ joined' = joined \cup {fd}
    /\ UNCHANGED <<socket, closing, stopped>>

(* Added to another topic: it remains a client of this one. *)
JoinAnother(fd) ==
    /\ fd \in adding
    /\ adding' = adding \ {fd}
    /\ joined' = joined \ {fd}
    /\ UNCHANGED <<socket, closing, clients, stopped>>

PeerResets(fd) ==
    /\ socket[fd] = "open"
    /\ socket' = [socket EXCEPT ![fd] = "reset"]
    /\ UNCHANGED <<closing, adding, clients, joined, stopped>>

(* removeClient() and then closeSocket(), in any state of the connection,   *)
(* and whether or not it had joined.                                        *)
RemoveClient(fd) ==
    /\ socket[fd] # "closed" /\ fd \notin closing \cup adding
    /\ clients' = IF fd \in joined THEN clients \ {fd} ELSE clients
    /\ joined' = joined \ {fd}
    /\ closing' = closing \cup {fd}
    /\ UNCHANGED <<socket, adding, stopped>>

CloseSocket(fd) ==
    /\ fd \in closing
    /\ closing' = closing \ {fd}
    /\ socket' = [socket EXCEPT ![fd] = "closed"]
    /\ UNCHANGED <<adding, clients, joined, stopped>>

(* stop() raises its flag, and forgets the clients at its end.  *)
Stop ==
    /\ stopped' = TRUE
    /\ UNCHANGED <<socket, closing, adding, clients, joined>>

Clear ==
    /\ stopped
    /\ clients' = {}
    /\ joined' = {}
    /\ UNCHANGED <<socket, closing, adding, stopped>>

Next ==
    \/ \E fd \in Fd : \/ Accept(fd) \/ Admit(fd) \/ AddClient(fd) \/ JoinAnother(fd)
                      \/ PeerResets(fd) \/ RemoveClient(fd) \/ CloseSocket(fd)
    \/ Stop
    \/ Clear

Spec == Init /\ [][Next]_vars
=============================================================================
