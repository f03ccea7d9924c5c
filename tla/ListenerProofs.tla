---------------------------- MODULE ListenerProofs ----------------------------
(***************************************************************************)
(* The poll array of Listener is exact, the publisher's clients are        *)
(* connected, and the publisher is given what it assumes of its listener,  *)
(* for any number of descriptors, peers and requests; and what start() and *)
(* stop() rely on holds.                                                   *)
(***************************************************************************)
EXTENDS Listener, TLAPS

(* The listener thread is at an entry of the array: any, or a connection.   *)
AtConnection == {"read", "message", "stop", "add", "adding", "beforeClose", "close"}
AtEntry == {"accept"} \cup AtConnection
Scanning == {"scan"} \cup AtEntry
Looping == {"poll", "compress"} \cup Scanning
Closing == {"closeAll", "panic"}
ClosingOne == {"closeAllClose", "panicClose"}

IsOpen(fd) == fd \in Fd /\ conn[fd] # NoPeer
IsInvalid(k) == fds[k].fd = InvalidSocket

(* The listening socket, every open connection once, and invalid entries.   *)
EntriesInv ==
    /\ Len(fds) >= 1
    /\ fds[1].fd = listen_sd /\ fds[1].revents # "error"
    /\ \A k \in DOMAIN fds : k = 1 \/ IsInvalid(k) \/ IsOpen(fds[k].fd)
    /\ \A k, l \in DOMAIN fds : fds[k].fd = fds[l].fd => k = l \/ IsInvalid(k)
    /\ \A fd \in Fd : IsOpen(fd) => \E k \in DOMAIN fds : fds[k].fd = fd

(* Where entries may be invalid: before the one that is scanned, and after  *)
(* the ones that compress() has passed.                                     *)
ScanInv ==
    /\ at \in {"boot", "listen", "poll", "compress"} => ~compress_array
    /\ at \in {"boot", "listen", "poll"} => i = 1
    /\ at = "poll" => \A k \in DOMAIN fds : ~IsInvalid(k)
    /\ at \in Scanning =>
         /\ i >= 1 /\ current_size <= Len(fds)
         /\ \A k \in DOMAIN fds : IsInvalid(k) => k < i /\ compress_array
    /\ at \in AtEntry => i <= current_size
    /\ at = "accept" => i = 1
    /\ at \in AtConnection => IsOpen(fds[i].fd)
    /\ at = "compress" => i >= 1 /\ \A k \in DOMAIN fds : IsInvalid(k) => k >= i

(* closeAll() has yet to come to every connection that is open, and to no   *)
(* entry that is not one but the listening socket's.                        *)
CloseInv ==
    /\ at \in Closing \cup ClosingOne =>
         /\ i >= 1
         /\ \A fd \in Fd : IsOpen(fd) => \E k \in DOMAIN fds : k >= i /\ fds[k].fd = fd
         /\ fds[1].fd = listen_sd
         /\ \A k \in DOMAIN fds : k >= i => k = 1 \/ IsOpen(fds[k].fd)
         /\ \A k, l \in DOMAIN fds : fds[k].fd = fds[l].fd => k = l
    /\ at \in ClosingOne => i \in DOMAIN fds /\ IsOpen(fds[i].fd)
    /\ at \in {"boot", "listen", "returned", "threw"} => \A fd \in Fd : ~IsOpen(fd)

ArrayInv == (at \in Looping => EntriesInv) /\ ScanInv /\ CloseInv

(* TypeOK, by whom the variables belong to.                                 *)
Ats == Looping \cup Closing \cup ClosingOne \cup {"boot", "listen", "hung", "returned", "threw", "aborted"}
ListenerTyped ==
    /\ state \in {"NEW", "BOOTING", "RUNNING", "TERMINATING", "TERMINATED"}
    /\ end_listener \in BOOLEAN
    /\ fds \in Seq(Entry)
    /\ at \in Ats
    /\ i \in Nat /\ current_size \in Nat
    /\ compress_array \in BOOLEAN
    /\ data \in Seq(Piece)
    /\ mainAt \in {"starting", "started", "publisher", "stopping", "joining", "stopped"}
PublisherTyped ==
    /\ end_publisher \in BOOLEAN
    /\ topics \subseteq Paths
    /\ clients \in [Paths -> SUBSET Fd]
    /\ path_by_client \in [Fd -> Paths]
PeersTyped ==
    /\ conn \in [Fd -> Peers \cup {NoPeer}]
    /\ backlog \in Seq(Peers)
    /\ peer \in [Peers -> {"away", "up", "closed", "reset"}]
    /\ rx \in [Peers -> Seq(Piece)]
    /\ pieces \in 0..MaxPieces

(* A client that is about to be added asked for a topic. *)
AddInv == at \in {"add", "adding"} => data # <<>> /\ Target \in Paths

ListenerInv == ListenerTyped /\ PublisherTyped /\ PeersTyped /\ ArrayInv /\ AddInv

LEMMA Typed == TypeOK <=> ListenerTyped /\ PublisherTyped /\ PeersTyped
  BY DEF TypeOK, ListenerTyped, PublisherTyped, PeersTyped, Ats, Looping, Scanning, AtEntry,
         AtConnection, Closing, ClosingOne

-----------------------------------------------------------------------------
(* Sequences.                                                               *)

LEMMA AppendOf ==
    ASSUME NEW S, NEW s \in Seq(S), NEW e \in S
    PROVE  /\ Append(s, e) \in Seq(S)
           /\ Len(Append(s, e)) = Len(s) + 1
           /\ DOMAIN Append(s, e) = 1..Len(s) + 1
           /\ \A k \in DOMAIN s : Append(s, e)[k] = s[k]
           /\ Append(s, e)[Len(s) + 1] = e
  OBVIOUS

LEMMA ErasedAt ==
    ASSUME NEW S, NEW s \in Seq(S), NEW n \in 1..Len(s)
    PROVE  /\ RemoveAt(s, n) \in Seq(S)
           /\ Len(RemoveAt(s, n)) = Len(s) - 1
           /\ DOMAIN RemoveAt(s, n) = 1..Len(s) - 1
           /\ \A k \in 1..Len(s) - 1 : RemoveAt(s, n)[k] = IF k < n THEN s[k] ELSE s[k + 1]
<1> DEFINE a == SubSeq(s, 1, n - 1)
           b == SubSeq(s, n + 1, Len(s))
<1>1. /\ a \in Seq(S) /\ Len(a) = n - 1
      /\ \A k \in 1..n - 1 : a[k] = s[k]
  OBVIOUS
<1>2. /\ b \in Seq(S) /\ Len(b) = Len(s) - n
      /\ \A k \in 1..Len(s) - n : b[k] = s[k + n]
  OBVIOUS
<1>3. RemoveAt(s, n) = a \o b
  BY DEF RemoveAt
<1>4. Len(s) \in Nat /\ n \in Nat
  OBVIOUS
<1> HIDE DEF a, b
<1>5. a \o b \in Seq(S) /\ Len(a \o b) = Len(s) - 1
  <2>1. a \in Seq(S) /\ b \in Seq(S)
    BY <1>1, <1>2
  <2>2. a \o b \in Seq(S) /\ Len(a \o b) = Len(a) + Len(b)
    BY <2>1
  <2>3. (n - 1) + (Len(s) - n) = Len(s) - 1
    BY <1>4
  <2> QED
    BY <1>1, <1>2, <2>2, <2>3
<1>6. ASSUME NEW k \in 1..Len(s) - 1 PROVE (a \o b)[k] = IF k < n THEN s[k] ELSE s[k + 1]
  <2>1. CASE k < n
    BY <2>1, <1>1, <1>2, <1>4
  <2>2. CASE ~(k < n)
    <3>1. (a \o b)[k] = b[k - (n - 1)]
      BY <2>2, <1>1, <1>2, <1>4
    <3>2. k - (n - 1) \in 1..Len(s) - n /\ k - (n - 1) + n = k + 1
      BY <2>2, <1>4
    <3> QED
      BY <2>2, <3>1, <3>2, <1>2
  <2> QED
    BY <2>1, <2>2
<1> QED
  BY <1>3, <1>5, <1>6, <1>4

(* An array whose entries are marked anew is one of entries.                *)
Marked(s, r) == [k \in DOMAIN s |-> [s[k] EXCEPT !.revents = r[k]]]

LEMMA MarkedTyped ==
    ASSUME NEW s \in Seq(Entry), NEW r, \A k \in DOMAIN s : r[k] \in {"none", "read", "error"}
    PROVE  /\ Marked(s, r) \in Seq(Entry)
           /\ Len(Marked(s, r)) = Len(s) /\ DOMAIN Marked(s, r) = DOMAIN s
           /\ \A k \in DOMAIN s : Marked(s, r)[k].fd = s[k].fd /\ Marked(s, r)[k].revents = r[k]
<1>1. \A k \in DOMAIN s : s[k] \in Entry
  OBVIOUS
<1>2. \A k \in DOMAIN s :
         /\ [s[k] EXCEPT !.revents = r[k]] \in Entry
         /\ [s[k] EXCEPT !.revents = r[k]].fd = s[k].fd
         /\ [s[k] EXCEPT !.revents = r[k]].revents = r[k]
  BY <1>1 DEF Entry
<1>3. DOMAIN s = 1..Len(s) /\ Len(s) \in Nat
  OBVIOUS
<1>4. Marked(s, r) \in [1..Len(s) -> Entry]
  BY <1>2, <1>3 DEF Marked
<1>5. Marked(s, r) \in Seq(Entry) /\ Len(Marked(s, r)) = Len(s)
  BY <1>3, <1>4
<1> QED
  BY <1>2, <1>3, <1>5 DEF Marked

-----------------------------------------------------------------------------
(* Types.                                                                   *)

LEMMA PathsHold == Published \in Paths /\ NoPath \in Paths
  BY DEF Paths, Published, NoPath

(* Actions that leave the publisher's variables, or the peers', alone.      *)
QuietForPublisher ==
    \/ Boot \/ Listen \/ ListenFails
    \/ Poll \/ PollFails \/ LoopEnds \/ ScanEntry \/ ScanEnds \/ CompressEntry \/ CompressEnds
    \/ (\E fd \in Fd : Accept(fd)) \/ AcceptWouldBlock \/ AcceptFails
    \/ Read \/ ParseForEver \/ ParseThrows \/ Refuse \/ Welcome \/ AdmitClient
    \/ CloseConnection \/ CloseNextSocket \/ CloseAllEnds
    \/ StopsCollide \/ StartReturns \/ StopListener \/ JoinListener

PeerActs ==
    \E c \in Peers :
      \/ Connect(c)
      \/ \E target \in Targets, ends \in BOOLEAN : Send(c, target, ends)
      \/ \E how \in {"closed", "reset"} : Leave(c, how)

LEMMA NextSplit ==
    [Next]_vars =>
      \/ QuietForPublisher \/ PeerActs \/ UNCHANGED vars
      \/ ShutDown \/ ShutDownReturns \/ AddClient \/ BeforeClose \/ CloseNext
      \/ Publish \/ StopPublisher \/ PublisherReturns
  BY DEF Next, Run, Main, QuietForPublisher, PeerActs

LEMMA PeersAct ==
    PeerActs => UNCHANGED <<listenerVars, publisherVars, mainAt>>
  BY DEF PeerActs, Connect, Send, Leave

LEMMA QuietPublisher ==
    QuietForPublisher \/ PeerActs \/ UNCHANGED vars => UNCHANGED publisherVars
<1> USE DEF scanVars
<1>1. QuietForPublisher => UNCHANGED publisherVars
  BY DEF QuietForPublisher, Boot, Listen, ListenFails, Poll, PollFails, Panic, LoopEnds,
         ScanEntry, ScanEnds, CompressEntry, CompressEnds, Accept, AcceptWouldBlock, AcceptFails,
         Read, ParseForEver, ParseThrows, Refuse, Welcome, AdmitClient, CloseConnection,
         CloseNextSocket, CloseAllEnds, StopsCollide, StartReturns, StopListener, JoinListener
<1>2. PeerActs => UNCHANGED publisherVars
  BY PeersAct
<1>3. UNCHANGED vars => UNCHANGED publisherVars
  BY DEF vars
<1> QED
  BY <1>1, <1>2, <1>3

LEMMA RemovedTyped ==
    ASSUME PublisherTyped, NEW fd \in Fd, Removed(fd)
    PROVE  topics' \subseteq Paths /\ clients' \in [Paths -> SUBSET Fd]
           /\ path_by_client' \in [Fd -> Paths]
  BY PathsHold DEF PublisherTyped, Removed

LEMMA ClearedTyped ==
    ASSUME PublisherTyped, PublisherCleared
    PROVE  PublisherTyped'
  BY PathsHold DEF PublisherCleared, PublisherTyped

LEMMA PublisherTypeStep == ListenerInv /\ [Next]_vars => PublisherTyped'
<1> SUFFICES ASSUME ListenerInv, [Next]_vars PROVE PublisherTyped'
  OBVIOUS
<1>0. PublisherTyped /\ ListenerTyped
  BY DEF ListenerInv
<1>1. CASE QuietForPublisher \/ PeerActs \/ UNCHANGED vars
  BY <1>1, <1>0, QuietPublisher DEF publisherVars, PublisherTyped
<1>2. CASE ShutDown \/ StopPublisher
  <2>1. end_publisher' \in BOOLEAN
    BY <1>2, Zenon DEF ShutDown, StopPublisher
  <2> QED
    BY <1>2, <2>1, <1>0 DEF ShutDown, StopPublisher, PublisherTyped
<1>7. CASE ShutDownReturns \/ PublisherReturns
  BY <1>7, <1>0, ClearedTyped DEF ShutDownReturns, PublisherReturns
<1>3. CASE AddClient
  <2>1. fds[i].fd \in Fd /\ Target \in Paths
    BY <1>3 DEF AddClient, ListenerInv, ArrayInv, ScanInv, AddInv, AtConnection, IsOpen
  <2> QED
    BY <1>3, <2>1, <1>0 DEF AddClient, PublisherTyped
<1>4. CASE BeforeClose
  <2>1. fds[i].fd \in Fd
    BY <1>4 DEF BeforeClose, ListenerInv, ArrayInv, ScanInv, AtConnection, IsOpen
  <2> QED
    BY <1>4, <2>1, <1>0, RemovedTyped DEF BeforeClose, PublisherTyped
<1>5. CASE CloseNext
  <2>1. end_publisher' = end_publisher
    BY <1>5 DEF CloseNext
  <2>2. CASE fds[i].fd \in Fd /\ Removed(fds[i].fd)
    BY <2>1, <2>2, <1>0, RemovedTyped DEF PublisherTyped
  <2>3. CASE topics' = topics \cup {NoPath} /\ UNCHANGED <<clients, path_by_client>>
    BY <2>1, <2>3, <1>0, PathsHold DEF PublisherTyped
  <2> QED
    BY <1>5, <2>2, <2>3 DEF CloseNext
<1>6. CASE Publish
  BY <1>6, <1>0, PathsHold DEF Publish, PublisherTyped
<1> QED
  BY <1>1, <1>2, <1>3, <1>4, <1>5, <1>6, <1>7, NextSplit

LEMMA ClosedTyped ==
    ASSUME PeersTyped, NEW fd \in Fd, conn[fd] # NoPeer, Closed(fd)
    PROVE  PeersTyped'
  BY DEF PeersTyped, Closed

LEMMA PeersTypeStep == ListenerInv /\ [Next]_vars => PeersTyped'
<1> SUFFICES ASSUME ListenerInv, [Next]_vars PROVE PeersTyped'
  OBVIOUS
<1>0. PeersTyped
  BY DEF ListenerInv
<1>u. ASSUME UNCHANGED peerVars PROVE PeersTyped'
  BY <1>u, <1>0 DEF peerVars, PeersTyped
<1>1. ASSUME NEW fd \in Fd, Accept(fd) PROVE PeersTyped'
  <2>1. Head(backlog) \in Peers /\ Tail(backlog) \in Seq(Peers)
    BY <1>1, <1>0 DEF Accept, PeersTyped
  <2> QED
    BY <1>1, <2>1, <1>0 DEF Accept, PeersTyped
<1>2. CASE Read
  <2>1. conn[fds[i].fd] \in Peers /\ <<>> \in Seq(Piece)
    BY <1>2, <1>0 DEF Read, ListenerInv, ArrayInv, ScanInv, AtConnection, IsOpen, PeersTyped
  <2> QED
    BY <1>2, <2>1, <1>0 DEF Read, PeersTyped
<1>3. CASE CloseConnection
  <2>1. IsOpen(fds[i].fd)
    BY <1>3 DEF CloseConnection, ListenerInv, ArrayInv, ScanInv, AtConnection
  <2> QED
    BY <1>3, <2>1, <1>0, ClosedTyped DEF CloseConnection, IsOpen
<1>4. CASE CloseNextSocket
  <2>1. IsOpen(fds[i].fd)
    BY <1>4 DEF CloseNextSocket, ListenerInv, ArrayInv, CloseInv, ClosingOne
  <2> QED
    BY <1>4, <2>1, <1>0, ClosedTyped DEF CloseNextSocket, IsOpen
<1>5. ASSUME NEW c \in Peers, Connect(c) PROVE PeersTyped'
  BY <1>5, <1>0 DEF Connect, PeersTyped
<1>6. ASSUME NEW c \in Peers, NEW target \in Targets, NEW ends \in BOOLEAN, Send(c, target, ends)
      PROVE  PeersTyped'
  <2>1. [target |-> target, ends |-> ends] \in Piece
    BY DEF Piece
  <2>2. Append(rx[c], [target |-> target, ends |-> ends]) \in Seq(Piece)
    BY <2>1, <1>0 DEF PeersTyped
  <2>3. pieces + 1 \in 0..MaxPieces
    BY <1>6, <1>0, ListenerAssumption DEF Send, PeersTyped
  <2> QED
    BY <1>6, <2>2, <2>3, <1>0 DEF Send, PeersTyped
<1>7. ASSUME NEW c \in Peers, NEW how \in {"closed", "reset"}, Leave(c, how) PROVE PeersTyped'
  BY <1>7, <1>0 DEF Leave, PeersTyped
<1>8. CASE UNCHANGED vars
  BY <1>8, <1>u DEF vars
<1>9. CASE Boot \/ Listen \/ ListenFails \/ Poll \/ PollFails \/ LoopEnds \/ ScanEntry
           \/ ScanEnds \/ CompressEntry \/ CompressEnds \/ AcceptWouldBlock \/ AcceptFails
  BY <1>9, <1>u DEF Boot, Listen, ListenFails, Poll, PollFails, Panic, LoopEnds, ScanEntry,
                    ScanEnds, CompressEntry, CompressEnds, AcceptWouldBlock, AcceptFails
<1>10. CASE ParseForEver \/ ParseThrows \/ ShutDown \/ ShutDownReturns \/ Refuse \/ Welcome
            \/ AdmitClient \/ AddClient \/ BeforeClose \/ CloseNext \/ CloseAllEnds
  BY <1>10, <1>u DEF ParseForEver, ParseThrows, ShutDown, ShutDownReturns, Refuse, Welcome,
                     AdmitClient, AddClient, BeforeClose, CloseNext, CloseAllEnds
<1>11. CASE Main \/ Publish \/ StopPublisher \/ PublisherReturns \/ StopsCollide
  BY <1>11, <1>u DEF Main, StartReturns, StopListener, JoinListener, Publish, StopPublisher,
                     PublisherReturns, StopsCollide
<1> QED
  BY <1>1, <1>2, <1>3, <1>4, <1>5, <1>6, <1>7, <1>8, <1>9, <1>10, <1>11 DEF Next, Run

LEMMA ReventsTyped == ASSUME NEW fd PROVE Revents(fd) \in {"none", "read", "error"}
  BY DEF Revents

LEMMA PolledTyped ==
    ASSUME fds \in Seq(Entry),
           fds' = [k \in DOMAIN fds |-> [fds[k] EXCEPT !.revents = Revents(fds[k].fd)]]
    PROVE  /\ fds' \in Seq(Entry) /\ Len(fds') = Len(fds) /\ DOMAIN fds' = DOMAIN fds
           /\ \A k \in DOMAIN fds :
                fds'[k].fd = fds[k].fd /\ fds'[k].revents = Revents(fds[k].fd)
<1> DEFINE r == [k \in DOMAIN fds |-> Revents(fds[k].fd)]
<1>1. \A k \in DOMAIN fds : r[k] = Revents(fds[k].fd) /\ r[k] \in {"none", "read", "error"}
  BY ReventsTyped
<1>2. fds' = Marked(fds, r)
  BY <1>1 DEF Marked
<1> HIDE DEF r
<1>3. \A k \in DOMAIN fds : r[k] \in {"none", "read", "error"}
  BY <1>1
<1>4. /\ Marked(fds, r) \in Seq(Entry)
      /\ Len(Marked(fds, r)) = Len(fds) /\ DOMAIN Marked(fds, r) = DOMAIN fds
      /\ \A k \in DOMAIN fds :
           Marked(fds, r)[k].fd = fds[k].fd /\ Marked(fds, r)[k].revents = r[k]
  BY <1>3, MarkedTyped
<1> QED
  BY <1>1, <1>2, <1>4

LEMMA UnmarkedTyped ==
    ASSUME fds \in Seq(Entry)
    PROVE  /\ Unmarked \in Seq(Entry) /\ Len(Unmarked) = Len(fds)
           /\ DOMAIN Unmarked = DOMAIN fds
           /\ \A k \in DOMAIN fds :
                Unmarked[k].fd = fds[k].fd /\ Unmarked[k].revents = "none"
<1> DEFINE r == [k \in DOMAIN fds |-> "none"]
<1>1. \A k \in DOMAIN fds : r[k] = "none"
  OBVIOUS
<1>2. Unmarked = Marked(fds, r)
  BY <1>1 DEF Unmarked, Marked
<1> HIDE DEF r
<1>3. /\ Unmarked \in Seq(Entry) /\ Len(Unmarked) = Len(fds) /\ DOMAIN Unmarked = DOMAIN fds
      /\ \A k \in DOMAIN fds : Unmarked[k].fd = fds[k].fd /\ Unmarked[k].revents = r[k]
  BY <1>1, <1>2, MarkedTyped
<1> QED
  BY <1>1, <1>3

LEMMA ListenerTypeStep == ListenerInv /\ [Next]_vars => ListenerTyped'
<1> SUFFICES ASSUME ListenerInv, [Next]_vars PROVE ListenerTyped'
  OBVIOUS
<1> USE DEF Ats, Looping, Scanning, AtEntry, AtConnection, Closing, ClosingOne
<1>0. ListenerTyped
  BY DEF ListenerInv
<1>e. <<>> \in Seq(Entry) /\ <<>> \in Seq(Piece)
  OBVIOUS
<1>n. i + 1 \in Nat /\ 1 \in Nat
  BY <1>0 DEF ListenerTyped
<1>1. CASE Boot
  <2>1. end_listener' \in BOOLEAN
    BY <1>1, Zenon DEF Boot
  <2> QED
    BY <1>1, <2>1, <1>0 DEF Boot, scanVars, ListenerTyped
<1>2. CASE Listen
  <2>1. [fd |-> listen_sd, revents |-> "none"] \in Entry
    BY DEF Entry
  <2>2. fds' \in Seq(Entry)
    BY <1>2, <2>1 DEF Listen
  <2> QED
    BY <1>2, <2>2, <1>0 DEF Listen, scanVars, ListenerTyped
<1>3. CASE ListenFails \/ LoopEnds \/ ParseForEver \/ ParseThrows \/ ShutDown \/ Refuse
           \/ Welcome \/ StopsCollide
  BY <1>3, <1>0 DEF ListenFails, LoopEnds, ParseForEver, ParseThrows, ShutDown, Refuse, Welcome,
                    StopsCollide, scanVars, ListenerTyped
<1>4. CASE Poll
  <2>1. fds' \in Seq(Entry) /\ current_size' \in Nat
    BY <1>4, <1>0, PolledTyped DEF Poll, ListenerTyped
  <2> QED
    BY <1>4, <2>1, <1>0 DEF Poll, ListenerTyped
<1>5. CASE ScanEntry
  BY <1>5, <1>0, <1>n DEF ScanEntry, ListenerTyped
<1>6. CASE ScanEnds
  <2>1. compress_array' \in BOOLEAN
    BY <1>6, Zenon DEF ScanEnds
  <2>2. fds' \in Seq(Entry)
    BY <1>6, <1>0, UnmarkedTyped DEF ScanEnds, ListenerTyped
  <2> QED
    BY <1>6, <2>1, <2>2, <1>0, <1>n DEF ScanEnds, ListenerTyped
<1>7. CASE CompressEntry
  <2>1. fds' \in Seq(Entry)
    BY <1>7, <1>0, ErasedAt DEF CompressEntry, ListenerInv, ArrayInv, ScanInv, ListenerTyped
  <2> QED
    BY <1>7, <2>1, <1>0, <1>n DEF CompressEntry, ListenerTyped
<1>8. CASE CompressEnds \/ PollFails \/ AcceptFails
  BY <1>8, <1>0, <1>n DEF CompressEnds, PollFails, AcceptFails, Panic, ListenerTyped
<1>9. ASSUME NEW fd \in Fd, Accept(fd) PROVE ListenerTyped'
  <2>1. [fd |-> fd, revents |-> "none"] \in Entry
    BY DEF Entry
  <2>2. fds' \in Seq(Entry)
    BY <1>9, <2>1, <1>0, AppendOf DEF Accept, ListenerTyped
  <2> QED
    BY <1>9, <2>2, <1>0 DEF Accept, scanVars, ListenerTyped
<1>10. CASE AcceptWouldBlock
  BY <1>10, <1>0, <1>e, <1>n DEF AcceptWouldBlock, NextEntry, ListenerTyped
<1>11. CASE Read
  <2>1. conn[fds[i].fd] \in Peers
    BY <1>11 DEF Read, ListenerInv, ArrayInv, ScanInv, AtConnection, IsOpen, PeersTyped
  <2>2. data' \in Seq(Piece)
    BY <1>11, <2>1 DEF Read, ListenerInv, PeersTyped
  <2> QED
    BY <1>11, <2>2, <1>0 DEF Read, ListenerTyped
<1>12. CASE ShutDownReturns
  <2>1. end_listener' \in BOOLEAN
    BY <1>12, Zenon DEF ShutDownReturns
  <2> QED
    BY <1>12, <2>1, <1>0, <1>e, <1>n DEF ShutDownReturns, NextEntry, ListenerTyped
<1>13. CASE AddClient
  BY <1>13, <1>0, <1>e, <1>n DEF AddClient, NextEntry, ListenerTyped
<1>22. CASE AdmitClient
  <2>1. CASE end_publisher
    BY <1>22, <2>1, <1>0, <1>e, <1>n DEF AdmitClient, NextEntry, ListenerTyped
  <2>2. CASE ~end_publisher
    BY <1>22, <2>2, <1>0 DEF AdmitClient, ListenerTyped
  <2> QED
    BY <2>1, <2>2
<1>14. CASE BeforeClose
  BY <1>14, <1>0 DEF BeforeClose, scanVars, ListenerTyped
<1>15. CASE CloseConnection
  <2>1. compress_array' \in BOOLEAN
    BY <1>15, Zenon DEF CloseConnection
  <2>2. fds' \in Seq(Entry)
    <3>1. i \in DOMAIN fds /\ fds[i] \in Entry
      BY <1>15, <1>0 DEF CloseConnection, ListenerInv, ArrayInv, ScanInv, ListenerTyped
    <3>2. [fds[i] EXCEPT !.fd = InvalidSocket] \in Entry
      BY <3>1 DEF Entry
    <3>3. fds' = [fds EXCEPT ![i] = [fds[i] EXCEPT !.fd = InvalidSocket]]
      BY <1>15 DEF CloseConnection
    <3> QED
      BY <3>1, <3>2, <3>3, <1>0 DEF ListenerTyped
  <2> QED
    BY <1>15, <2>1, <2>2, <1>0, <1>e, <1>n DEF CloseConnection, NextEntry, ListenerTyped
<1>16. CASE CloseNext \/ CloseNextSocket
  BY <1>16, <1>0, <1>n DEF CloseNext, CloseNextSocket, ListenerTyped
<1>17. CASE CloseAllEnds
  BY <1>17, <1>0, <1>e DEF CloseAllEnds, scanVars, ListenerTyped
<1>18. CASE Publish \/ StartReturns \/ StopPublisher \/ PublisherReturns \/ JoinListener
  BY <1>18, <1>0 DEF Publish, StartReturns, StopPublisher, PublisherReturns, JoinListener,
                     listenerVars, scanVars, ListenerTyped
<1>19. CASE StopListener
  <2>1. end_listener' \in BOOLEAN
    BY <1>19, Zenon DEF StopListener
  <2> QED
    BY <1>19, <2>1, <1>0 DEF StopListener, scanVars, ListenerTyped
<1>20. CASE PeerActs
  BY <1>20, <1>0, PeersAct DEF listenerVars, scanVars, ListenerTyped
<1>21. CASE UNCHANGED vars
  BY <1>21, <1>0 DEF vars, listenerVars, scanVars, ListenerTyped
<1> QED
  BY <1>1, <1>2, <1>3, <1>4, <1>5, <1>6, <1>7, <1>8, <1>9, <1>10, <1>11, <1>12, <1>13, <1>14,
     <1>15, <1>16, <1>17, <1>18, <1>19, <1>20, <1>21, <1>22 DEF Next, Run, Main, PeerActs

-----------------------------------------------------------------------------
(* The array.                                                               *)

(* The same entries, marked anew or not, while no connection is opened or   *)
(* closed.                                                                  *)
LEMMA EntriesKept ==
    ASSUME EntriesInv, Len(fds') = Len(fds), DOMAIN fds' = DOMAIN fds, UNCHANGED conn,
           \A k \in DOMAIN fds : fds'[k].fd = fds[k].fd,
           fds'[1].revents # "error", 1 \in DOMAIN fds
    PROVE  EntriesInv' /\ \A k \in DOMAIN fds' : IsInvalid(k)' => IsInvalid(k)
<1>1. \A k \in DOMAIN fds' : IsInvalid(k)' <=> IsInvalid(k)
  BY DEF IsInvalid
<1>2. \A fd : IsOpen(fd)' <=> IsOpen(fd)
  BY DEF IsOpen
<1> QED
  BY <1>1, <1>2 DEF EntriesInv

LEMMA Firsts ==
    ASSUME ListenerTyped, EntriesInv
    PROVE  1 \in DOMAIN fds /\ DOMAIN fds = 1..Len(fds) /\ Len(fds) \in Nat
  BY DEF ListenerTyped, EntriesInv

LEMMA SockNames == listen_sd \notin Fd /\ InvalidSocket \notin Fd /\ listen_sd # InvalidSocket
  BY ListenerAssumption DEF listen_sd, InvalidSocket

(* A connection is accepted at the first entry, where nothing is invalid.   *)
LEMMA AcceptStep ==
    ASSUME ListenerInv, NEW fd \in Fd, Accept(fd)
    PROVE  ArrayInv'
<1> USE DEF Looping, Scanning, AtEntry, AtConnection, Closing, ClosingOne
<1> DEFINE entry == [fd |-> fd, revents |-> "none"]
<1>0. /\ at = "accept" /\ UNCHANGED <<at, i, current_size, compress_array>>
      /\ conn[fd] = NoPeer /\ conn' = [conn EXCEPT ![fd] = Head(backlog)]
      /\ Head(backlog) \in Peers /\ fds' = Append(fds, entry)
  BY DEF Accept, scanVars, ListenerInv, PeersTyped
<1>1. EntriesInv /\ ScanInv /\ ListenerTyped /\ conn \in [Fd -> Peers \cup {NoPeer}]
  BY <1>0 DEF ListenerInv, ArrayInv, PeersTyped
<1>2. 1 \in DOMAIN fds /\ DOMAIN fds = 1..Len(fds) /\ Len(fds) \in Nat
  BY <1>1, Firsts
<1>3. entry \in Entry /\ entry.fd = fd
  BY DEF Entry
<1>4. /\ Len(fds') = Len(fds) + 1 /\ DOMAIN fds' = 1..Len(fds) + 1
      /\ \A k \in DOMAIN fds : fds'[k] = fds[k]
      /\ fds'[Len(fds) + 1].fd = fd
  BY <1>0, <1>1, <1>3, AppendOf DEF ListenerTyped
<1> HIDE DEF entry
<1>5. i = 1 /\ \A k \in DOMAIN fds : ~IsInvalid(k)
  BY <1>0, <1>1, <1>2 DEF ScanInv
<1>6. \A f \in Fd : IsOpen(f)' <=> IsOpen(f) \/ f = fd
  BY <1>0, <1>1, ListenerAssumption DEF IsOpen
<1>7. \A k \in DOMAIN fds : k = 1 \/ IsOpen(fds[k].fd)
  BY <1>1, <1>5 DEF EntriesInv
<1>8. \A k \in DOMAIN fds : fds[k].fd # fd
  BY <1>0, <1>1, <1>7, SockNames DEF EntriesInv, IsOpen
<1>9. \A k \in DOMAIN fds' : k \in DOMAIN fds \/ k = Len(fds) + 1
  BY <1>2, <1>4
<1>10. \A k \in DOMAIN fds' : ~IsInvalid(k)'
  BY <1>4, <1>5, <1>9, SockNames DEF IsInvalid
<1>11. \A k \in DOMAIN fds' : k = 1 \/ IsOpen(fds[k].fd)'
  <2>1. \A k \in DOMAIN fds : k # 1 => fds'[k].fd \in Fd /\ conn'[fds'[k].fd] # NoPeer
    BY <1>4, <1>6, <1>7 DEF IsOpen
  <2>2. fds'[Len(fds) + 1].fd \in Fd /\ conn'[fds'[Len(fds) + 1].fd] # NoPeer
    BY <1>4, <1>6 DEF IsOpen
  <2> QED
    BY <2>1, <2>2, <1>9 DEF IsOpen
<1>12. \A k, l \in DOMAIN fds' : fds'[k].fd = fds'[l].fd => k = l
  BY <1>1, <1>4, <1>5, <1>8, <1>9 DEF EntriesInv
<1>13. \A f \in Fd : IsOpen(f)' => \E k \in DOMAIN fds' : fds'[k].fd = f
  <2>1. Len(fds) + 1 \in DOMAIN fds' /\ \A k \in DOMAIN fds : k \in DOMAIN fds'
    BY <1>2, <1>4
  <2> QED
    BY <2>1, <1>1, <1>4, <1>6 DEF EntriesInv
<1>14. EntriesInv'
  BY <1>1, <1>2, <1>4, <1>11, <1>12, <1>13 DEF EntriesInv
<1>15. ScanInv'
  BY <1>0, <1>1, <1>2, <1>4, <1>5, <1>10 DEF ScanInv, ListenerTyped
<1> QED
  BY <1>0, <1>14, <1>15 DEF ArrayInv, CloseInv

(* A connection is closed and its entry made invalid; no other entry has    *)
(* its descriptor.                                                          *)
LEMMA CloseStep ==
    ASSUME ListenerInv, CloseConnection
    PROVE  ArrayInv'
<1> USE DEF Looping, Scanning, AtEntry, AtConnection, Closing, ClosingOne
<1>0. /\ at = "close" /\ at' = "scan" /\ i' = i + 1 /\ compress_array'
      /\ current_size' = current_size
      /\ conn' = [conn EXCEPT ![fds[i].fd] = NoPeer]
      /\ fds' = [fds EXCEPT ![i].fd = InvalidSocket]
  BY DEF CloseConnection, Closed, NextEntry
<1>1. EntriesInv /\ ScanInv /\ ListenerTyped /\ conn \in [Fd -> Peers \cup {NoPeer}]
  BY <1>0 DEF ListenerInv, ArrayInv, PeersTyped
<1>2. 1 \in DOMAIN fds /\ DOMAIN fds = 1..Len(fds) /\ Len(fds) \in Nat
  BY <1>1, Firsts
<1>3. /\ IsOpen(fds[i].fd) /\ i \in DOMAIN fds
      /\ \A k \in DOMAIN fds : IsInvalid(k) => k < i
      /\ i \in Nat /\ current_size \in Nat /\ current_size <= Len(fds)
  BY <1>0, <1>1, <1>2 DEF ScanInv, ListenerTyped
<1>4. i # 1 /\ ~IsInvalid(i)
  BY <1>1, <1>3, SockNames DEF EntriesInv, IsOpen, IsInvalid
<1>5. /\ DOMAIN fds' = DOMAIN fds /\ Len(fds') = Len(fds)
      /\ \A k \in DOMAIN fds : k # i => fds'[k] = fds[k]
      /\ fds'[i].fd = InvalidSocket
  <2>1. fds[i] \in Entry
    BY <1>1, <1>3 DEF ListenerTyped
  <2>2. fds'[i].fd = InvalidSocket
    BY <1>0, <1>3, <2>1 DEF Entry
  <2> QED
    BY <1>0, <1>1, <1>3, <2>2 DEF ListenerTyped
<1>6. \A f \in Fd : IsOpen(f)' <=> IsOpen(f) /\ f # fds[i].fd
  BY <1>0, <1>1, <1>3 DEF IsOpen
<1>7. \A k \in DOMAIN fds : IsInvalid(k)' <=> IsInvalid(k) \/ k = i
  BY <1>5 DEF IsInvalid
<1>8. \A k \in DOMAIN fds : fds[k].fd = fds[i].fd => k = i
  BY <1>1, <1>3, <1>4 DEF EntriesInv
<1>9. \A k \in DOMAIN fds' : k = 1 \/ IsInvalid(k)' \/ IsOpen(fds[k].fd)'
  <2> SUFFICES ASSUME NEW k \in DOMAIN fds, k # 1, ~IsInvalid(k), k # i PROVE IsOpen(fds[k].fd)'
    BY <1>5, <1>7
  <2>1. IsOpen(fds[k].fd) /\ fds[k].fd # fds[i].fd
    BY <1>1, <1>8 DEF EntriesInv
  <2> QED
    BY <2>1, <1>5, <1>6 DEF IsOpen
<1>10. \A k, l \in DOMAIN fds' : fds'[k].fd = fds'[l].fd => k = l \/ IsInvalid(k)'
  BY <1>1, <1>5, <1>7 DEF EntriesInv, IsInvalid
<1>11. \A f \in Fd : IsOpen(f)' => \E k \in DOMAIN fds' : fds'[k].fd = f
  BY <1>1, <1>5, <1>6 DEF EntriesInv
<1>12. EntriesInv'
  BY <1>1, <1>2, <1>4, <1>5, <1>9, <1>10, <1>11 DEF EntriesInv
<1>13. ScanInv'
  BY <1>0, <1>3, <1>5, <1>7 DEF ScanInv
<1> QED
  BY <1>0, <1>12, <1>13 DEF ArrayInv, CloseInv

(* compress() erases an invalid entry; those behind it move up.             *)
LEMMA EraseStep ==
    ASSUME ListenerInv, CompressEntry, IsInvalid(i)
    PROVE  ArrayInv'
<1> USE DEF Looping, Scanning, AtEntry, AtConnection, Closing, ClosingOne
<1>0. /\ at = "compress" /\ i <= Len(fds) /\ fds' = RemoveAt(fds, i)
      /\ UNCHANGED <<at, i, current_size, compress_array, conn>>
  BY DEF CompressEntry, peerVars, IsInvalid
<1>1. EntriesInv /\ ScanInv /\ ListenerTyped
  BY <1>0 DEF ListenerInv, ArrayInv
<1>2. 1 \in DOMAIN fds /\ DOMAIN fds = 1..Len(fds) /\ Len(fds) \in Nat
  BY <1>1, Firsts
<1>3. i \in 1..Len(fds) /\ i # 1
  BY <1>0, <1>1, <1>2, SockNames DEF ScanInv, ListenerTyped, EntriesInv, IsInvalid
<1> DEFINE was(k) == IF k < i THEN k ELSE k + 1
<1>4. /\ Len(fds') = Len(fds) - 1 /\ DOMAIN fds' = 1..Len(fds) - 1
      /\ \A k \in 1..Len(fds) - 1 : fds'[k] = fds[was(k)]
  BY <1>0, <1>1, <1>3, ErasedAt DEF ListenerTyped
<1>5. /\ \A k \in DOMAIN fds' : was(k) \in DOMAIN fds /\ (was(k) = 1 => k = 1)
      /\ \A k, l \in DOMAIN fds' : was(k) = was(l) => k = l
      /\ was(1) = 1
      /\ \A k \in DOMAIN fds' : k < i => was(k) = k
  BY <1>2, <1>3, <1>4
<1>6. \A l \in DOMAIN fds : l # i => \E k \in DOMAIN fds' : was(k) = l
  <2> SUFFICES ASSUME NEW l \in DOMAIN fds, l # i PROVE \E k \in DOMAIN fds' : was(k) = l
    OBVIOUS
  <2>1. CASE l < i
    <3>1. l \in DOMAIN fds' /\ was(l) = l
      BY <2>1, <1>2, <1>3, <1>4
    <3> QED
      BY <3>1
  <2>2. CASE l > i
    <3>1. l - 1 \in DOMAIN fds' /\ was(l - 1) = l
      BY <2>2, <1>2, <1>3, <1>4
    <3> QED
      BY <3>1
  <2> QED
    BY <2>1, <2>2, <1>2, <1>3
<1>7. \A k \in DOMAIN fds' : fds'[k] = fds[was(k)]
  BY <1>4
<1>8. \A f : IsOpen(f)' <=> IsOpen(f)
  BY <1>0 DEF IsOpen
<1>9. \A k \in DOMAIN fds' : IsInvalid(k)' <=> IsInvalid(was(k))
  BY <1>7 DEF IsInvalid
<1>13. Len(fds') >= 1 /\ 1 \in DOMAIN fds'
  BY <1>2, <1>3, <1>4
<1> HIDE DEF was
<1>10. \A k \in DOMAIN fds' : k = 1 \/ IsInvalid(k)' \/ IsOpen(fds[k].fd)'
  BY <1>1, <1>5, <1>7, <1>8, <1>9 DEF EntriesInv
<1>11. \A k, l \in DOMAIN fds' : fds'[k].fd = fds'[l].fd => k = l \/ IsInvalid(k)'
  BY <1>1, <1>5, <1>7, <1>9 DEF EntriesInv
<1>12. \A f \in Fd : IsOpen(f)' => \E k \in DOMAIN fds' : fds'[k].fd = f
  <2> SUFFICES ASSUME NEW f \in Fd, IsOpen(f) PROVE \E k \in DOMAIN fds' : fds'[k].fd = f
    BY <1>8
  <2>1. PICK l \in DOMAIN fds : fds[l].fd = f
    BY <1>1 DEF EntriesInv
  <2>2. l # i
    BY <2>1, SockNames DEF IsInvalid
  <2> QED
    BY <2>1, <2>2, <1>6, <1>7
<1>14. EntriesInv'
  BY <1>1, <1>5, <1>7, <1>10, <1>11, <1>12, <1>13 DEF EntriesInv
<1>15. ScanInv'
  <2>1. \A k \in DOMAIN fds' : IsInvalid(k)' => k >= i
    <3> SUFFICES ASSUME NEW k \in DOMAIN fds', IsInvalid(was(k)), k < i PROVE FALSE
      BY <1>9, <1>3, <1>4
    <3>1. was(k) = k /\ k \in DOMAIN fds
      BY <1>5
    <3> QED
      BY <3>1, <1>0, <1>1, <1>2, <1>3 DEF ScanInv
  <2> QED
    BY <2>1, <1>0, <1>1 DEF ScanInv
<1> QED
  BY <1>0, <1>14, <1>15 DEF ArrayInv, CloseInv

(* closeAll() has come to a connection, or passes the listening socket.     *)
LEMMA CloseNextStep ==
    ASSUME ListenerInv, CloseNext
    PROVE  ArrayInv'
<1> USE DEF Looping, Scanning, AtEntry, AtConnection, Closing, ClosingOne
<1>0. /\ at \in Closing /\ i <= Len(fds)
      /\ UNCHANGED <<fds, conn, current_size, compress_array>>
      /\ \/ fds[i].fd \in Fd /\ at' \in ClosingOne /\ i' = i
         \/ fds[i].fd = listen_sd /\ at' = at /\ i' = i + 1
  BY DEF CloseNext, peerVars
<1>1. CloseInv /\ ListenerTyped
  BY DEF ListenerInv, ArrayInv
<1>2. i \in DOMAIN fds /\ 1 \in DOMAIN fds /\ i \in Nat /\ i >= 1 /\ DOMAIN fds \subseteq Nat
  BY <1>0, <1>1 DEF CloseInv, ListenerTyped
<1>3. \A f : IsOpen(f)' <=> IsOpen(f)
  BY <1>0 DEF IsOpen
<1>4. \A k : IsOpen(fds[k].fd)' <=> IsOpen(fds[k].fd)
  BY <1>0 DEF IsOpen
<1>5. CASE fds[i].fd \in Fd /\ at' \in ClosingOne /\ i' = i
  <2>1. i # 1
    BY <1>0, <1>1, <1>5, SockNames DEF CloseInv
  <2>2. IsOpen(fds[i].fd)
    BY <1>0, <1>1, <1>2, <2>1 DEF CloseInv
  <2>3. CloseInv'
    BY <1>0, <1>1, <1>2, <1>3, <1>4, <1>5, <2>2 DEF CloseInv
  <2> QED
    BY <1>5, <2>3 DEF ArrayInv, ScanInv
<1>6. CASE fds[i].fd = listen_sd /\ at' = at /\ i' = i + 1
  <2>1. \A f \in Fd : IsOpen(f)' => \E k \in DOMAIN fds' : k >= i' /\ fds'[k].fd = f
    <3> SUFFICES ASSUME NEW f \in Fd, IsOpen(f)
                 PROVE  \E k \in DOMAIN fds : k >= i + 1 /\ fds[k].fd = f
      BY <1>0, <1>3, <1>6
    <3>1. PICK k \in DOMAIN fds : k >= i /\ fds[k].fd = f
      BY <1>0, <1>1 DEF CloseInv
    <3>2. k # i
      BY <3>1, <1>6, SockNames
    <3> QED
      BY <3>1, <3>2, <1>2
  <2>2. \A k \in DOMAIN fds' : k >= i' => k = 1 \/ IsOpen(fds[k].fd)'
    BY <1>0, <1>1, <1>2, <1>4, <1>6 DEF CloseInv
  <2>3. CloseInv'
    BY <1>0, <1>1, <1>2, <1>6, <2>1, <2>2 DEF CloseInv
  <2> QED
    BY <1>0, <1>6, <2>3 DEF ArrayInv, ScanInv
<1> QED
  BY <1>0, <1>5, <1>6

(* closeAll() closes the connection it has come to, and no other.           *)
LEMMA CloseNextSocketStep ==
    ASSUME ListenerInv, CloseNextSocket
    PROVE  ArrayInv'
<1> USE DEF Looping, Scanning, AtEntry, AtConnection, Closing, ClosingOne
<1>0. /\ at \in ClosingOne /\ at' \in Closing /\ i' = i + 1
      /\ UNCHANGED <<fds, current_size, compress_array>>
      /\ conn' = [conn EXCEPT ![fds[i].fd] = NoPeer]
  BY DEF CloseNextSocket, Closed
<1>1. CloseInv /\ ListenerTyped /\ conn \in [Fd -> Peers \cup {NoPeer}]
  BY DEF ListenerInv, ArrayInv, PeersTyped
<1>2. i \in DOMAIN fds /\ i \in Nat /\ i >= 1 /\ DOMAIN fds \subseteq Nat
  BY <1>0, <1>1 DEF CloseInv, ListenerTyped
<1>3. \A f : IsOpen(f)' <=> IsOpen(f) /\ f # fds[i].fd
  BY <1>0, <1>1 DEF IsOpen
<1>4. \A k \in DOMAIN fds : IsOpen(fds[k].fd)' <=> IsOpen(fds[k].fd) /\ k # i
  <2>1. \A k \in DOMAIN fds : fds[k].fd = fds[i].fd <=> k = i
    BY <1>0, <1>1, <1>2 DEF CloseInv
  <2> QED
    BY <1>0, <1>1, <2>1 DEF IsOpen
<1>5. \A f \in Fd : IsOpen(f)' => \E k \in DOMAIN fds' : k >= i' /\ fds'[k].fd = f
  <2> SUFFICES ASSUME NEW f \in Fd, IsOpen(f), f # fds[i].fd
               PROVE  \E k \in DOMAIN fds : k >= i + 1 /\ fds[k].fd = f
    BY <1>0, <1>3
  <2>1. PICK k \in DOMAIN fds : k >= i /\ fds[k].fd = f
    BY <1>0, <1>1 DEF CloseInv
  <2> QED
    BY <2>1, <1>2
<1>6. \A k \in DOMAIN fds' : k >= i' => k = 1 \/ IsOpen(fds[k].fd)'
  BY <1>0, <1>1, <1>2, <1>4 DEF CloseInv
<1>7. CloseInv'
  BY <1>0, <1>1, <1>2, <1>5, <1>6 DEF CloseInv
<1> QED
  BY <1>0, <1>7 DEF ArrayInv, ScanInv

LEMMA ArrayStep == ListenerInv /\ [Next]_vars => ArrayInv'
<1> SUFFICES ASSUME ListenerInv, [Next]_vars PROVE ArrayInv'
  OBVIOUS
<1> USE DEF Looping, Scanning, AtEntry, AtConnection, Closing, ClosingOne
<1>0. ArrayInv /\ ListenerTyped /\ i \in Nat /\ current_size \in Nat
  BY DEF ListenerInv, ListenerTyped
<1>d. /\ at \in Looping => EntriesInv
      /\ at \in Looping => 1 \in DOMAIN fds /\ DOMAIN fds = 1..Len(fds) /\ Len(fds) \in Nat
  BY <1>0, Firsts DEF ArrayInv
<1>f. ASSUME UNCHANGED <<fds, conn>>, at \in Looping PROVE EntriesInv'
  BY <1>f, <1>d DEF EntriesInv, IsOpen, IsInvalid
<1>s. ASSUME UNCHANGED <<fds, conn>>
      PROVE  /\ \A k : IsInvalid(k)' <=> IsInvalid(k)
             /\ \A f : IsOpen(f)' <=> IsOpen(f)
             /\ \A k : IsOpen(fds[k].fd)' <=> IsOpen(fds[k].fd)
  BY <1>s DEF IsOpen, IsInvalid
<1>u. ASSUME UNCHANGED <<fds, conn, at, i, current_size, compress_array>> PROVE ArrayInv'
  BY <1>u, <1>0, <1>f, <1>s DEF ArrayInv, ScanInv, CloseInv
(* The next entry, with nothing opened or closed at this one.               *)
<1>n. ASSUME at \in AtEntry, at' = "scan", i' = i + 1,
             UNCHANGED <<fds, conn, current_size, compress_array>>
      PROVE  ArrayInv'
  <2>1. ScanInv'
    BY <1>n, <1>0, <1>d, <1>s DEF ArrayInv, ScanInv
  <2> QED
    BY <1>n, <2>1, <1>f DEF ArrayInv, CloseInv
(* On with the connection of this entry.                                    *)
<1>c. ASSUME at \in AtConnection, at' \in AtConnection \cup {"hung", "aborted"},
             UNCHANGED <<fds, conn, i, current_size, compress_array>>
      PROVE  ArrayInv'
  <2>1. ScanInv'
    BY <1>c, <1>0, <1>s DEF ArrayInv, ScanInv
  <2> QED
    BY <1>c, <2>1, <1>f DEF ArrayInv, CloseInv
<1>1. CASE Boot \/ ListenFails
  <2>1. /\ UNCHANGED <<fds, conn, i, current_size, compress_array>>
        /\ at \in {"boot", "listen"} /\ at' \in {"listen", "threw"}
    BY <1>1 DEF Boot, ListenFails, scanVars, peerVars
  <2> QED
    BY <2>1, <1>0, <1>s DEF ArrayInv, ScanInv, CloseInv
<1>2. CASE Listen
  <2>1. /\ at = "listen" /\ at' = "poll" /\ UNCHANGED <<conn, i, current_size, compress_array>>
        /\ fds' = <<[fd |-> listen_sd, revents |-> "none"]>>
    BY <1>2 DEF Listen, scanVars, peerVars
  <2>2. /\ Len(fds') = 1 /\ DOMAIN fds' = {1}
        /\ fds'[1].fd = listen_sd /\ fds'[1].revents = "none"
    BY <2>1
  <2>3. \A f \in Fd : ~IsOpen(f)'
    BY <2>1, <1>0 DEF ArrayInv, CloseInv, IsOpen
  <2>4. EntriesInv'
    BY <2>2, <2>3 DEF EntriesInv
  <2>5. ScanInv'
    BY <2>1, <2>2, <1>0, SockNames DEF ArrayInv, ScanInv, IsInvalid
  <2> QED
    BY <2>1, <2>4, <2>5 DEF ArrayInv, CloseInv
<1>3. CASE Poll
  <2>1. /\ at = "poll" /\ at' = "scan" /\ UNCHANGED <<conn, i, compress_array>>
        /\ current_size' = Len(fds)
        /\ fds' = [k \in DOMAIN fds |-> [fds[k] EXCEPT !.revents = Revents(fds[k].fd)]]
    BY <1>3 DEF Poll, peerVars
  <2>2. /\ Len(fds') = Len(fds) /\ DOMAIN fds' = DOMAIN fds
        /\ \A k \in DOMAIN fds : fds'[k].fd = fds[k].fd
        /\ fds'[1].revents = Revents(fds[1].fd)
    BY <2>1, <1>0, <1>d, PolledTyped DEF ListenerTyped
  <2>3. fds'[1].revents # "error"
    <3>1. Revents(listen_sd) # "error"
      BY DEF Revents
    <3> QED
      BY <3>1, <2>1, <2>2, <1>d DEF EntriesInv
  <2>4. EntriesInv' /\ \A k \in DOMAIN fds' : IsInvalid(k)' => IsInvalid(k)
    BY <2>1, <2>2, <2>3, <1>d, EntriesKept
  <2>5. ScanInv'
    BY <2>1, <2>2, <2>4, <1>0, <1>d DEF ArrayInv, ScanInv
  <2> QED
    BY <2>1, <2>4, <2>5 DEF ArrayInv, CloseInv
<1>4. CASE LoopEnds
  <2>1. /\ at = "poll" /\ at' = "closeAll"
        /\ UNCHANGED <<fds, conn, i, current_size, compress_array>>
    BY <1>4 DEF LoopEnds, scanVars, peerVars
  <2>2. /\ \A k \in DOMAIN fds : k = 1 \/ IsOpen(fds[k].fd)
        /\ \A k, l \in DOMAIN fds : fds[k].fd = fds[l].fd => k = l
        /\ \A fd \in Fd : IsOpen(fd) => \E k \in DOMAIN fds : k >= 1 /\ fds[k].fd = fd
    BY <2>1, <1>0, <1>d DEF ArrayInv, ScanInv, EntriesInv
  <2>3. CloseInv'
    BY <2>1, <2>2, <1>0, <1>d, <1>s DEF ArrayInv, ScanInv, EntriesInv, CloseInv
  <2> QED
    BY <2>1, <2>3 DEF ArrayInv, ScanInv
<1>5. CASE ScanEntry
  <2>1. /\ at = "scan" /\ i <= current_size
        /\ UNCHANGED <<fds, conn, current_size, compress_array>>
    BY <1>5 DEF ScanEntry, InScan, peerVars
  <2>2. CASE fds[i].revents = "none"
    <3>1. i' = i + 1 /\ at' = "scan"
      BY <1>5, <2>2, <2>1 DEF ScanEntry
    <3>2. ScanInv'
      BY <2>1, <3>1, <1>0, <1>d, <1>s DEF ArrayInv, ScanInv
    <3> QED
      BY <2>1, <3>1, <3>2, <1>f DEF ArrayInv, CloseInv
  <2>3. CASE fds[i].revents # "none"
    <3>1. /\ i' = i
          /\ at' = IF fds[i].revents = "error" THEN "beforeClose"
                   ELSE IF fds[i].fd = listen_sd THEN "accept" ELSE "read"
      BY <1>5, <2>3 DEF ScanEntry
    <3>2. i \in DOMAIN fds /\ ~IsInvalid(i)
      BY <2>1, <1>0, <1>d DEF ArrayInv, ScanInv
    <3>3. fds[i].fd = listen_sd => i = 1
      BY <3>2, <2>1, <1>d DEF EntriesInv
    <3>4. at' # "accept" => IsOpen(fds[i].fd)
      <4>1. at' # "accept" => i # 1
        BY <3>1, <2>1, <1>d DEF EntriesInv
      <4> QED
        BY <4>1, <3>2, <2>1, <1>d DEF EntriesInv
    <3>5. ScanInv'
      BY <2>1, <3>1, <3>3, <3>4, <1>0, <1>s DEF ArrayInv, ScanInv
    <3> QED
      BY <2>1, <3>1, <3>5, <1>f DEF ArrayInv, CloseInv
  <2> QED
    BY <2>2, <2>3
<1>6. CASE ScanEnds
  <2>1. /\ at = "scan" /\ i > current_size /\ i' = 1 /\ ~compress_array'
        /\ at' = IF compress_array THEN "compress" ELSE "poll"
        /\ fds' = Unmarked /\ conn' = conn
    BY <1>6, <1>0 DEF ScanEnds, InScan, peerVars
  <2>2. /\ Len(fds') = Len(fds) /\ DOMAIN fds' = DOMAIN fds
        /\ \A k \in DOMAIN fds : fds'[k].fd = fds[k].fd
        /\ fds'[1].revents = "none"
    BY <2>1, <1>0, <1>d, UnmarkedTyped DEF ListenerTyped
  <2>3. EntriesInv' /\ \A k \in DOMAIN fds' : IsInvalid(k)' => IsInvalid(k)
    BY <2>1, <2>2, <1>d, EntriesKept
  <2>4. ScanInv'
    BY <2>1, <2>2, <2>3, <1>0, <1>d DEF ArrayInv, ScanInv
  <2> QED
    BY <2>1, <2>3, <2>4 DEF ArrayInv, CloseInv
<1>7. CASE CompressEntry
  <2>1. CASE IsInvalid(i)
    BY <1>7, <2>1, EraseStep
  <2>2. CASE ~IsInvalid(i)
    <3>1. /\ at = "compress" /\ i' = i + 1
          /\ UNCHANGED <<at, fds, conn, current_size, compress_array>>
      BY <1>7, <2>2 DEF CompressEntry, IsInvalid, peerVars
    <3>2. \A k \in DOMAIN fds : IsInvalid(k) => k >= i + 1
      BY <3>1, <2>2, <1>0, <1>d DEF ArrayInv, ScanInv
    <3>3. ScanInv'
      BY <3>1, <3>2, <1>0, <1>s DEF ArrayInv, ScanInv
    <3> QED
      BY <3>1, <3>3, <1>f DEF ArrayInv, CloseInv
  <2> QED
    BY <2>1, <2>2
<1>8. CASE CompressEnds
  <2>1. /\ at = "compress" /\ i > Len(fds) /\ i' = 1 /\ at' = "poll"
        /\ UNCHANGED <<fds, conn, current_size, compress_array>>
    BY <1>8 DEF CompressEnds, peerVars
  <2>2. \A k \in DOMAIN fds : ~IsInvalid(k)
    BY <2>1, <1>0, <1>d DEF ArrayInv, ScanInv
  <2>3. ScanInv'
    BY <2>1, <2>2, <1>0, <1>s DEF ArrayInv, ScanInv
  <2> QED
    BY <2>1, <2>3, <1>f DEF ArrayInv, CloseInv
<1>9. ASSUME NEW fd \in Fd, Accept(fd) PROVE ArrayInv'
  BY <1>9, AcceptStep
<1>10. CASE AcceptWouldBlock \/ ShutDownReturns \/ AddClient \/ (AdmitClient /\ end_publisher)
  BY <1>10, <1>n DEF AcceptWouldBlock, ShutDownReturns, AddClient, AdmitClient, NextEntry,
                     peerVars
<1>11. CASE PollFails \/ AcceptFails
  <2>1. /\ at \in {"poll", "accept"} /\ at' = "panic" /\ i' = 1 /\ UNCHANGED <<fds, conn>>
    BY <1>11 DEF PollFails, AcceptFails, Panic, peerVars
  <2>2. \A k \in DOMAIN fds : ~IsInvalid(k)
    BY <2>1, <1>0, <1>d DEF ArrayInv, ScanInv
  <2>3. /\ \A k \in DOMAIN fds : k = 1 \/ IsOpen(fds[k].fd)
        /\ \A k, l \in DOMAIN fds : fds[k].fd = fds[l].fd => k = l
        /\ \A fd \in Fd : IsOpen(fd) => \E k \in DOMAIN fds : k >= 1 /\ fds[k].fd = fd
    BY <2>1, <2>2, <1>d DEF EntriesInv
  <2>4. CloseInv'
    BY <2>1, <2>3, <1>d, <1>s DEF EntriesInv, CloseInv
  <2> QED
    BY <2>1, <2>4 DEF ArrayInv, ScanInv
<1>12. CASE Read \/ ParseForEver \/ ParseThrows \/ ShutDown \/ Refuse \/ Welcome
            \/ (AdmitClient /\ ~end_publisher) \/ BeforeClose \/ StopsCollide
  BY <1>12, <1>c DEF Read, ParseForEver, ParseThrows, ShutDown, Refuse, Welcome, AdmitClient,
                     BeforeClose, StopsCollide, scanVars, peerVars
<1>13. CASE CloseConnection
  BY <1>13, CloseStep
<1>14. CASE CloseNext \/ CloseNextSocket
  BY <1>14, CloseNextStep, CloseNextSocketStep
<1>15. CASE CloseAllEnds
  <2>1. /\ at \in Closing /\ i > Len(fds) /\ at' \in {"threw", "returned"} /\ conn' = conn
    BY <1>15 DEF CloseAllEnds, peerVars
  <2>2. \A f \in Fd : ~IsOpen(f)
    <3>1. DOMAIN fds = 1..Len(fds) /\ Len(fds) \in Nat
      BY <1>0 DEF ListenerTyped
    <3> QED
      BY <2>1, <3>1, <1>0 DEF ArrayInv, CloseInv
  <2>3. \A f \in Fd : ~IsOpen(f)'
    BY <2>1, <2>2 DEF IsOpen
  <2> QED
    BY <2>1, <2>3 DEF ArrayInv, ScanInv, CloseInv
<1>16. CASE Main \/ Publish \/ StopPublisher \/ PublisherReturns
  BY <1>16, <1>u DEF Main, StartReturns, StopListener, JoinListener, Publish, StopPublisher,
                     PublisherReturns, listenerVars, scanVars, peerVars
<1>17. CASE PeerActs
  <2>1. conn' = conn
    BY <1>17 DEF PeerActs, Connect, Send, Leave
  <2> QED
    BY <1>17, <2>1, <1>u, PeersAct DEF listenerVars, scanVars
<1>18. CASE UNCHANGED vars
  BY <1>18, <1>u DEF vars, listenerVars, scanVars, peerVars
<1> QED
  BY <1>1, <1>2, <1>3, <1>4, <1>5, <1>6, <1>7, <1>8, <1>9, <1>10, <1>11, <1>12, <1>13, <1>14,
     <1>15, <1>16, <1>17, <1>18 DEF Next, Run, PeerActs

-----------------------------------------------------------------------------
(* The theorems.                                                            *)

LEMMA AddStep == ListenerInv /\ [Next]_vars => AddInv'
<1> SUFFICES ASSUME ListenerInv, [Next]_vars, at' \in {"add", "adding"}
             PROVE  (data # <<>> /\ Target \in Paths)'
  BY DEF AddInv
<1>1. CASE Welcome
  <2>1. data # <<>> /\ Target \in Paths /\ data' = data
    BY <1>1 DEF Welcome, IsWhole, ListenerInv, PublisherTyped, scanVars
  <2> QED
    BY <2>1 DEF Target
<1>2. CASE at \in {"add", "adding"} /\ data' = data
  BY <1>2 DEF ListenerInv, AddInv, Target
<1>3. Welcome \/ (at \in {"add", "adding"} /\ data' = data)
  <2>1. CASE UNCHANGED vars \/ PeerActs
    BY <2>1, PeersAct DEF vars, listenerVars, scanVars
  <2>2. CASE Main \/ Publish \/ StopPublisher \/ PublisherReturns \/ StopsCollide
    BY <2>2 DEF Main, StartReturns, StopListener, JoinListener, Publish, StopPublisher,
                PublisherReturns, StopsCollide, listenerVars, scanVars
  <2>3. CASE Boot \/ Listen \/ ListenFails \/ Poll \/ PollFails \/ LoopEnds \/ ScanEntry
             \/ ScanEnds \/ CompressEntry \/ CompressEnds \/ AcceptWouldBlock \/ AcceptFails
    BY <2>3 DEF Boot, Listen, ListenFails, Poll, PollFails, Panic, LoopEnds, ScanEntry, ScanEnds,
                CompressEntry, CompressEnds, AcceptWouldBlock, AcceptFails, NextEntry
  <2>4. CASE Read \/ ParseForEver \/ ParseThrows \/ ShutDown \/ ShutDownReturns \/ Refuse
             \/ Welcome \/ AdmitClient \/ AddClient \/ BeforeClose \/ CloseConnection
             \/ CloseNext \/ CloseNextSocket \/ CloseAllEnds
    BY <2>4 DEF Read, ParseForEver, ParseThrows, ShutDown, ShutDownReturns, Refuse, AdmitClient,
                AddClient, BeforeClose, CloseConnection, CloseNext, CloseNextSocket,
                CloseAllEnds, NextEntry
  <2>5. ASSUME NEW fd \in Fd, Accept(fd) PROVE FALSE
    BY <2>5 DEF Accept
  <2> QED
    BY <2>1, <2>2, <2>3, <2>4, <2>5 DEF Next, Run, PeerActs
<1> QED
  BY <1>1, <1>2, <1>3

LEMMA ListenerInit == Init => ListenerInv
<1> SUFFICES ASSUME Init PROVE ListenerInv
  OBVIOUS
<1>1. end_listener \in BOOLEAN /\ compress_array \in BOOLEAN /\ end_publisher \in BOOLEAN
  BY Zenon DEF Init
<1>2. ListenerTyped
  BY <1>1 DEF Init, ListenerTyped, Ats
<1>3. PublisherTyped
  BY <1>1, PathsHold DEF Init, PublisherTyped
<1>4. PeersTyped
  BY ListenerAssumption DEF Init, PeersTyped
<1>5. ArrayInv
  BY DEF Init, ArrayInv, ScanInv, CloseInv, IsOpen, Looping, Scanning, AtEntry, AtConnection,
         Closing, ClosingOne
<1> QED
  BY <1>2, <1>3, <1>4, <1>5 DEF Init, ListenerInv, AddInv

LEMMA ListenerStep == ListenerInv /\ [Next]_vars => ListenerInv'
  BY ListenerTypeStep, PublisherTypeStep, PeersTypeStep, ArrayStep, AddStep DEF ListenerInv

(* Every variable stays in its range, for any descriptors, peers, targets   *)
(* and number of requests.                                                  *)
THEOREM TypeCorrect == Spec => []TypeOK
<1>1. ListenerInv => TypeOK
  BY Typed DEF ListenerInv
<1> QED
  BY <1>1, ListenerInit, ListenerStep, PTL DEF Spec

(* Whenever the listener polls, it polls the listening socket and each open *)
(* connection once, and it ends with none open, however connections were    *)
(* accepted, closed and compressed before.                                  *)
THEOREM PollsWhatIsOpen == Spec => []PollArrayIsExact
<1>1. ListenerInv => PollArrayIsExact
  <2> SUFFICES ASSUME ListenerInv PROVE PollArrayIsExact
    OBVIOUS
  <2>1. ASSUME at = "poll"
        PROVE  /\ fds[1].fd = listen_sd
               /\ \A k, l \in DOMAIN fds : fds[k].fd = fds[l].fd => k = l
               /\ {fds[k].fd : k \in 2..Len(fds)} = {fd \in Fd : conn[fd] # NoPeer}
    <3>1. EntriesInv /\ \A k \in DOMAIN fds : ~IsInvalid(k)
      BY <2>1 DEF ListenerInv, ArrayInv, ScanInv, Looping
    <3>2. DOMAIN fds = 1..Len(fds) /\ Len(fds) \in Nat
      BY <3>1, Firsts DEF ListenerInv
    <3>3. \A k \in 2..Len(fds) : IsOpen(fds[k].fd)
      BY <3>1, <3>2 DEF EntriesInv
    <3>4. \A fd \in Fd : IsOpen(fd) => \E k \in 2..Len(fds) : fds[k].fd = fd
      <4> SUFFICES ASSUME NEW fd \in Fd, IsOpen(fd) PROVE \E k \in 2..Len(fds) : fds[k].fd = fd
        OBVIOUS
      <4>1. PICK k \in DOMAIN fds : fds[k].fd = fd
        BY <3>1 DEF EntriesInv
      <4>2. k # 1
        BY <4>1, <3>1, SockNames DEF EntriesInv
      <4>3. k \in 2..Len(fds)
        BY <4>2, <3>2
      <4> QED
        BY <4>1, <4>3
    <3>5. {fds[k].fd : k \in 2..Len(fds)} = {fd \in Fd : conn[fd] # NoPeer}
      BY <3>3, <3>4 DEF IsOpen
    <3> QED
      BY <3>1, <3>5 DEF EntriesInv
  <2>2. at \in {"returned", "threw"} => \A fd \in Fd : conn[fd] = NoPeer
    BY DEF ListenerInv, ArrayInv, CloseInv, IsOpen
  <2> QED
    BY <2>1, <2>2 DEF PollArrayIsExact
<1> QED
  BY <1>1, ListenerInit, ListenerStep, PTL DEF Spec

-----------------------------------------------------------------------------
(* Clients.                                                                 *)

(* Whoever has a path is open and a client of it, and has none once removed *)
(* and about to be closed; stop() clears the maps after it raised its flag. *)
JoinedInv ==
    /\ JoinedAreConnected
    /\ at \in {"close"} \cup ClosingOne => path_by_client[fds[i].fd] = NoPath
    /\ at = "stop" \/ mainAt = "publisher" => end_publisher

LEMMA JoinedStep == ListenerInv /\ JoinedInv /\ [Next]_vars => JoinedInv'
<1> SUFFICES ASSUME ListenerInv, JoinedInv, [Next]_vars PROVE JoinedInv'
  OBVIOUS
<1> USE DEF AtConnection, ClosingOne
<1>0. /\ PublisherTyped
      /\ clients \in [Paths -> SUBSET Fd] /\ path_by_client \in [Fd -> Paths]
      /\ conn \in [Fd -> Peers \cup {NoPeer}]
  BY DEF ListenerInv, PublisherTyped, PeersTyped
<1>h. at \in AtConnection => fds[i].fd \in Fd /\ conn[fds[i].fd] # NoPeer
  BY DEF ListenerInv, ArrayInv, ScanInv, IsOpen
(* Nobody joins or leaves, and nobody stops. *)
<1>u. ASSUME UNCHANGED publisherVars, UNCHANGED conn,
             at' \in {"close"} \cup ClosingOne => UNCHANGED <<at, fds, i>>,
             at' = "stop" => at = "stop", mainAt' = "publisher" => mainAt = "publisher"
      PROVE  JoinedInv'
  BY <1>u DEF JoinedInv, JoinedAreConnected, publisherVars
<1>z. ASSUME PublisherCleared, at' \in {"close"} \cup ClosingOne => UNCHANGED <<at, fds, i>>,
             at' = "stop" => at = "stop", mainAt' = "publisher" => mainAt = "publisher"
      PROVE  JoinedInv'
  <2>1. \A fd \in Fd : path_by_client'[fd] = NoPath
    BY <1>z DEF PublisherCleared
  <2>2. JoinedAreConnected'
    BY <2>1 DEF JoinedAreConnected
  <2>3. at' \in {"close"} \cup ClosingOne => path_by_client'[fds'[i'].fd] = NoPath
    <3>1. at \in {"close"} \cup ClosingOne => fds[i].fd \in Fd
      BY DEF ListenerInv, ArrayInv, ScanInv, CloseInv, IsOpen
    <3> QED
      BY <3>1, <2>1, <1>z
  <2> QED
    BY <2>2, <2>3, <1>z DEF JoinedInv, PublisherCleared
(* One connection leaves, the others stay as they are. *)
<1>r. ASSUME NEW fd \in Fd, Removed(fd), UNCHANGED <<conn, end_publisher>>
      PROVE  JoinedAreConnected' /\ path_by_client'[fd] = NoPath
  <2>1. /\ clients' = [clients EXCEPT ![path_by_client[fd]] = @ \ {fd}]
        /\ path_by_client' = [path_by_client EXCEPT ![fd] = NoPath]
    BY <1>r DEF Removed
  <2>2. ASSUME NEW f \in Fd, path_by_client'[f] # NoPath
        PROVE  conn'[f] # NoPeer /\ (end_publisher' \/ f \in clients'[path_by_client'[f]])
    <3>1. f # fd /\ path_by_client'[f] = path_by_client[f]
      BY <2>1, <2>2, <1>0
    <3>2. conn[f] # NoPeer /\ (end_publisher \/ f \in clients[path_by_client[f]])
      BY <3>1, <2>2 DEF JoinedInv, JoinedAreConnected
    <3>3. f \in clients[path_by_client[f]] => f \in clients'[path_by_client[f]]
      BY <2>1, <3>1, <1>0
    <3> QED
      BY <3>1, <3>2, <3>3, <1>r
  <2> QED
    BY <2>1, <2>2, <1>0 DEF JoinedAreConnected
<1>1. CASE Boot \/ Listen \/ ListenFails \/ Poll \/ PollFails \/ LoopEnds \/ ScanEntry \/ ScanEnds
           \/ CompressEntry \/ CompressEnds \/ AcceptWouldBlock \/ AcceptFails
  BY <1>1, <1>u DEF Boot, Listen, ListenFails, Poll, PollFails, Panic, LoopEnds, ScanEntry,
                    ScanEnds, CompressEntry, CompressEnds, AcceptWouldBlock, AcceptFails,
                    NextEntry, peerVars
<1>2. CASE Read \/ ParseForEver \/ ParseThrows \/ Refuse \/ Welcome \/ AdmitClient \/ CloseAllEnds
  BY <1>2, <1>u DEF Read, ParseForEver, ParseThrows, Refuse, Welcome, AdmitClient, CloseAllEnds,
                    NextEntry, peerVars
<1>3. ASSUME NEW fd \in Fd, Accept(fd) PROVE JoinedInv'
  <2>1. /\ UNCHANGED publisherVars /\ UNCHANGED mainAt /\ at = "accept" /\ at' = at
        /\ conn' = [conn EXCEPT ![fd] = Head(backlog)]
        /\ Head(backlog) # NoPeer
    BY <1>3, ListenerAssumption DEF Accept, ListenerInv, PeersTyped
  <2>2. \A f \in Fd : conn[f] # NoPeer => conn'[f] # NoPeer
    BY <2>1, <1>0
  <2> QED
    BY <2>1, <2>2 DEF JoinedInv, JoinedAreConnected, publisherVars
<1>4. CASE AddClient
  <2>1. /\ at = "adding" /\ at' = "scan" /\ UNCHANGED <<conn, end_publisher, mainAt>>
        /\ fds[i].fd \in Fd /\ conn[fds[i].fd] # NoPeer /\ Target \in Paths
        /\ clients' = [clients EXCEPT ![Target] = @ \cup {fds[i].fd}]
        /\ path_by_client' = [path_by_client EXCEPT ![fds[i].fd] = Target]
    BY <1>4, <1>h DEF AddClient, NextEntry, ListenerInv, AddInv, peerVars
  <2>2. ASSUME NEW f \in Fd, path_by_client'[f] # NoPath
        PROVE  conn'[f] # NoPeer /\ (end_publisher' \/ f \in clients'[path_by_client'[f]])
    <3>1. CASE f = fds[i].fd
      BY <2>1, <3>1, <1>0
    <3>2. CASE f # fds[i].fd
      <4>1. path_by_client'[f] = path_by_client[f] /\ path_by_client[f] \in Paths
        BY <2>1, <3>2, <1>0
      <4>2. conn[f] # NoPeer /\ (end_publisher \/ f \in clients[path_by_client[f]])
        BY <4>1, <2>2 DEF JoinedInv, JoinedAreConnected
      <4> QED
        BY <4>1, <4>2, <2>1, <1>0
    <3> QED
      BY <3>1, <3>2
  <2> QED
    BY <2>1, <2>2 DEF JoinedInv, JoinedAreConnected
<1>5. CASE BeforeClose
  <2>1. /\ at' = "close" /\ UNCHANGED <<fds, i, conn, end_publisher, mainAt>>
        /\ Removed(fds[i].fd) /\ fds[i].fd \in Fd
    BY <1>5, <1>h DEF BeforeClose, scanVars, peerVars
  <2>2. JoinedAreConnected' /\ path_by_client'[fds[i].fd] = NoPath
    BY <2>1, <1>r
  <2> QED
    BY <2>1, <2>2 DEF JoinedInv
<1>6. CASE CloseConnection \/ CloseNextSocket
  <2>1. /\ at \in {"close"} \cup ClosingOne /\ at' \in {"scan", "closeAll", "panic"}
        /\ UNCHANGED publisherVars /\ UNCHANGED mainAt
        /\ conn' = [conn EXCEPT ![fds[i].fd] = NoPeer]
    BY <1>6 DEF CloseConnection, CloseNextSocket, Closed, NextEntry
  <2>2. \A f \in Fd : path_by_client[f] # NoPath => conn'[f] = conn[f]
    BY <2>1, <1>0 DEF JoinedInv
  <2> QED
    BY <2>1, <2>2 DEF JoinedInv, JoinedAreConnected, publisherVars
<1>7. CASE CloseNext
  <2>1. UNCHANGED <<conn, fds, end_publisher, mainAt>>
    BY <1>7 DEF CloseNext, peerVars
  <2>2. CASE fds[i].fd \in Fd /\ Removed(fds[i].fd) /\ at' \in ClosingOne /\ i' = i
    <3>1. JoinedAreConnected' /\ path_by_client'[fds[i].fd] = NoPath
      BY <2>1, <2>2, <1>r
    <3> QED
      BY <2>1, <2>2, <3>1 DEF JoinedInv
  <2>3. CASE UNCHANGED <<clients, path_by_client>> /\ at' = at /\ at \in Closing
    BY <2>1, <2>3 DEF JoinedInv, JoinedAreConnected, Closing
  <2> QED
    BY <1>7, <2>2, <2>3 DEF CloseNext, Closing
<1>8. CASE ShutDown \/ StopPublisher
  <2>1. /\ UNCHANGED <<conn, clients, path_by_client>> /\ end_publisher'
        /\ at' = "stop" \/ UNCHANGED <<at, fds, i>>
    BY <1>8 DEF ShutDown, StopPublisher, listenerVars, scanVars, peerVars
  <2> QED
    BY <2>1 DEF JoinedInv, JoinedAreConnected
<1>9. CASE ShutDownReturns \/ PublisherReturns
  BY <1>9, <1>z DEF ShutDownReturns, PublisherReturns, NextEntry, listenerVars, scanVars
<1>10. CASE Publish
  BY <1>10 DEF Publish, listenerVars, scanVars, peerVars, JoinedInv, JoinedAreConnected
<1>11. CASE Main \/ StopsCollide
  BY <1>11, <1>u DEF Main, StartReturns, StopListener, JoinListener, StopsCollide, listenerVars,
                     scanVars, peerVars
<1>12. CASE PeerActs
  <2>1. conn' = conn
    BY <1>12 DEF PeerActs, Connect, Send, Leave
  <2> QED
    BY <1>12, <2>1, <1>u, PeersAct DEF listenerVars, scanVars
<1>13. CASE UNCHANGED vars
  BY <1>13, <1>u DEF vars, listenerVars, scanVars, peerVars
<1> QED
  BY <1>1, <1>2, <1>3, <1>4, <1>5, <1>6, <1>7, <1>8, <1>9, <1>10, <1>11, <1>12, <1>13
     DEF Next, Run, PeerActs

LEMMA JoinedInit == Init => JoinedInv
<1> SUFFICES ASSUME Init PROVE JoinedInv
  OBVIOUS
<1>1. JoinedAreConnected
  BY DEF Init, JoinedAreConnected
<1> QED
  BY <1>1 DEF Init, JoinedInv, ClosingOne

(* Whoever has a path in path_by_client_ is an open connection and a client *)
(* of that topic, whatever its peer asks for, one topic after another.      *)
THEOREM JoinedStayConnected == Spec => []JoinedAreConnected
<1>1. JoinedInv => JoinedAreConnected
  BY DEF JoinedInv
<1> QED
  BY <1>1, JoinedInit, JoinedStep, ListenerInit, ListenerStep, PTL DEF Spec

-----------------------------------------------------------------------------
(* The table of clients that listener and publisher share.                  *)

(* A connection and its peer belong to each other.                          *)
LinkInv ==
    /\ \A f, g \in Fd : conn[f] # NoPeer /\ conn[f] = conn[g] => f = g
    /\ \A f \in Fd : conn[f] # NoPeer =>
         peer[conn[f]] # "away" /\ \A k \in DOMAIN backlog : backlog[k] # conn[f]
    /\ \A k \in DOMAIN backlog : peer[backlog[k]] # "away"
    /\ \A k, l \in DOMAIN backlog : backlog[k] = backlog[l] => k = l

LEMMA QueueTail ==
    ASSUME NEW S, NEW s \in Seq(S), s # <<>>
    PROVE  /\ Tail(s) \in Seq(S) /\ Head(s) = s[1] /\ 1 \in DOMAIN s
           /\ \A k \in DOMAIN Tail(s) : Tail(s)[k] = s[k + 1] /\ k + 1 \in DOMAIN s /\ k + 1 # 1
  OBVIOUS

QuietForLinks ==
    \/ Boot \/ Listen \/ ListenFails
    \/ Poll \/ PollFails \/ LoopEnds \/ ScanEntry \/ ScanEnds \/ CompressEntry \/ CompressEnds
    \/ AcceptWouldBlock \/ AcceptFails
    \/ Read \/ ParseForEver \/ ParseThrows \/ Refuse \/ Welcome \/ AdmitClient
    \/ CloseAllEnds
    \/ ShutDown \/ ShutDownReturns \/ AddClient \/ BeforeClose \/ CloseNext
    \/ Publish \/ StopPublisher \/ PublisherReturns \/ StopsCollide
    \/ StartReturns \/ StopListener \/ JoinListener
    \/ (\E c \in Peers, target \in Targets, ends \in BOOLEAN : Send(c, target, ends))

LEMMA LinkSplit ==
    [Next]_vars =>
      \/ QuietForLinks \/ UNCHANGED vars
      \/ (\E fd \in Fd : Accept(fd)) \/ CloseConnection \/ CloseNextSocket
      \/ (\E c \in Peers : Connect(c) \/ \E how \in {"closed", "reset"} : Leave(c, how))
  BY DEF Next, Run, Main, QuietForLinks

LEMMA QuietLinks ==
    QuietForLinks \/ UNCHANGED vars => UNCHANGED <<conn, backlog, peer>>
<1>1. UNCHANGED vars => UNCHANGED <<conn, backlog, peer>>
  BY DEF vars, peerVars
<1>2. QuietForLinks => UNCHANGED <<conn, backlog, peer>>
  BY DEF QuietForLinks, Boot, Listen, ListenFails, Poll, PollFails, Panic, LoopEnds, ScanEntry,
         ScanEnds, CompressEntry, CompressEnds, AcceptWouldBlock, AcceptFails, Read, ParseForEver,
         ParseThrows, Refuse, Welcome, AdmitClient, CloseAllEnds, ShutDown, ShutDownReturns,
         AddClient, BeforeClose, CloseNext, Publish, StopPublisher, PublisherReturns,
         StopsCollide, StartReturns, StopListener, JoinListener, Send, peerVars
<1> QED
  BY <1>1, <1>2

(* The entry that is closed is an open connection. *)
LEMMA ClosingEntry ==
    ASSUME ListenerInv
    PROVE  at \in {"beforeClose", "close"} \cup ClosingOne =>
             fds[i].fd \in Fd /\ conn[fds[i].fd] # NoPeer
  BY DEF ListenerInv, ArrayInv, ScanInv, CloseInv, IsOpen, AtConnection, ClosingOne

LEMMA LinkStep == ListenerInv /\ LinkInv /\ [Next]_vars => LinkInv'
<1> SUFFICES ASSUME ListenerInv, LinkInv, [Next]_vars PROVE LinkInv'
  OBVIOUS
<1>0. /\ conn \in [Fd -> Peers \cup {NoPeer}] /\ backlog \in Seq(Peers)
      /\ peer \in [Peers -> {"away", "up", "closed", "reset"}]
      /\ NoPeer \notin Peers
      /\ \A k \in DOMAIN backlog : backlog[k] \in Peers
  BY ListenerAssumption DEF ListenerInv, PeersTyped
<1>1. CASE QuietForLinks \/ UNCHANGED vars
  BY <1>1, QuietLinks DEF LinkInv
<1>2. ASSUME NEW fd \in Fd, Accept(fd) PROVE LinkInv'
  <2>1. /\ backlog # <<>> /\ conn[fd] = NoPeer /\ backlog' = Tail(backlog) /\ peer' = peer
        /\ conn' = [conn EXCEPT ![fd] = Head(backlog)]
    BY <1>2 DEF Accept
  <2>2. /\ Head(backlog) = backlog[1] /\ 1 \in DOMAIN backlog
        /\ \A k \in DOMAIN backlog' :
             backlog'[k] = backlog[k + 1] /\ k + 1 \in DOMAIN backlog /\ k + 1 # 1 /\ k \in Nat
    BY <2>1, <1>0, QueueTail
  <2>3. /\ conn'[fd] = backlog[1]
        /\ \A f \in Fd : f # fd => conn'[f] = conn[f]
    BY <2>1, <2>2, <1>0
  <2>4. \A f, g \in Fd : conn'[f] # NoPeer /\ conn'[f] = conn'[g] => f = g
    BY <2>2, <2>3 DEF LinkInv
  <2>5. \A k \in DOMAIN backlog' : backlog'[k] # backlog[1] /\ peer[backlog'[k]] # "away"
    BY <2>2 DEF LinkInv
  <2>6. \A f \in Fd : conn'[f] # NoPeer =>
          peer'[conn'[f]] # "away" /\ \A k \in DOMAIN backlog' : backlog'[k] # conn'[f]
    BY <2>1, <2>2, <2>3, <2>5 DEF LinkInv
  <2>7. \A k, l \in DOMAIN backlog' : backlog'[k] = backlog'[l] => k = l
    BY <2>2 DEF LinkInv
  <2> QED
    BY <2>1, <2>4, <2>5, <2>6, <2>7 DEF LinkInv
<1>3. CASE CloseConnection \/ CloseNextSocket
  <2> DEFINE fd == fds[i].fd
  <2>1. fd \in Fd /\ conn[fd] # NoPeer
    BY <1>3, ClosingEntry DEF CloseConnection, CloseNextSocket, ClosingOne
  <2>2. /\ conn' = [conn EXCEPT ![fd] = NoPeer] /\ backlog' = backlog
        /\ peer' = [peer EXCEPT ![conn[fd]] = "away"]
    BY <1>3 DEF CloseConnection, CloseNextSocket, Closed
  <2> HIDE DEF fd
  <2>3. \A f \in Fd : conn'[f] # NoPeer => f # fd /\ conn'[f] = conn[f] /\ conn[f] # conn[fd]
    BY <2>1, <2>2, <1>0 DEF LinkInv
  <2>4. \A c \in Peers : c # conn[fd] => peer'[c] = peer[c]
    BY <2>2, <1>0
  <2>5. \A f \in Fd : conn'[f] # NoPeer =>
          peer'[conn'[f]] # "away" /\ \A k \in DOMAIN backlog' : backlog'[k] # conn'[f]
    BY <2>2, <2>3, <2>4, <1>0 DEF LinkInv
  <2>6. \A k \in DOMAIN backlog : peer'[backlog[k]] # "away"
    BY <2>1, <2>4, <1>0 DEF LinkInv
  <2>7. \A f, g \in Fd : conn'[f] # NoPeer /\ conn'[f] = conn'[g] => f = g
    BY <2>3 DEF LinkInv
  <2> QED
    BY <2>2, <2>5, <2>6, <2>7 DEF LinkInv
<1>4. ASSUME NEW c \in Peers, Connect(c) PROVE LinkInv'
  <2>1. /\ peer[c] = "away" /\ peer' = [peer EXCEPT ![c] = "up"] /\ conn' = conn
        /\ backlog' = Append(backlog, c)
    BY <1>4 DEF Connect
  <2>2. /\ DOMAIN backlog' = 1..Len(backlog) + 1 /\ backlog'[Len(backlog) + 1] = c
        /\ \A k \in DOMAIN backlog : backlog'[k] = backlog[k]
        /\ DOMAIN backlog = 1..Len(backlog) /\ Len(backlog) \in Nat
    BY <2>1, <1>0, AppendOf
  <2>3. \A k \in DOMAIN backlog' : (k = Len(backlog) + 1) \/ k \in DOMAIN backlog
    BY <2>2
  <2>4. \A k \in DOMAIN backlog : backlog[k] # c
    BY <2>1 DEF LinkInv
  <2>5. \A d \in Peers : peer'[d] = IF d = c THEN "up" ELSE peer[d]
    BY <2>1, <1>0
  <2>6. \A f \in Fd : conn[f] # NoPeer => conn[f] \in Peers /\ conn[f] # c
    BY <2>1, <1>0 DEF LinkInv
  <2>7. \A k, l \in DOMAIN backlog' : backlog'[k] = backlog'[l] => k = l
    BY <2>2, <2>3, <2>4 DEF LinkInv
  <2>8. \A k \in DOMAIN backlog' : peer'[backlog'[k]] # "away"
    BY <2>2, <2>3, <2>5, <1>0 DEF LinkInv
  <2>9. \A f \in Fd : conn'[f] # NoPeer =>
          peer'[conn'[f]] # "away" /\ \A k \in DOMAIN backlog' : backlog'[k] # conn'[f]
    BY <2>1, <2>2, <2>3, <2>5, <2>6 DEF LinkInv
  <2> QED
    BY <2>1, <2>7, <2>8, <2>9 DEF LinkInv
<1>5. ASSUME NEW c \in Peers, NEW how \in {"closed", "reset"}, Leave(c, how) PROVE LinkInv'
  <2>1. UNCHANGED <<conn, backlog>> /\ peer' = [peer EXCEPT ![c] = how]
    BY <1>5 DEF Leave
  <2>2. \A d \in Peers : peer'[d] # "away" \/ peer'[d] = peer[d]
    BY <2>1, <1>0
  <2> QED
    BY <2>1, <2>2, <1>0 DEF LinkInv
<1> QED
  BY <1>1, <1>2, <1>3, <1>4, <1>5, LinkSplit

Ending == {"close"} \cup ClosingOne

(* A step that the table does not see. *)
LEMMA TableStutters ==
    ASSUME \A fd \in Fd : Socket(fd)' = Socket(fd), UNCHANGED <<Removing, Adding, Joined>>,
           clients'[Published] = clients[Published], end_publisher' = end_publisher
    PROVE  UNCHANGED Table!vars
  BY DEF Table!vars

LEMMA SocketsKept ==
    ASSUME UNCHANGED <<conn, peer>>
    PROVE  \A fd \in Fd : Socket(fd)' = Socket(fd)
  BY DEF Socket

QuietForTable ==
    \/ Boot \/ Listen \/ ListenFails
    \/ Poll \/ PollFails \/ LoopEnds \/ ScanEntry \/ ScanEnds \/ CompressEntry \/ CompressEnds
    \/ AcceptWouldBlock \/ AcceptFails
    \/ Read \/ ParseForEver \/ ParseThrows \/ Refuse \/ Welcome
    \/ CloseAllEnds \/ StopsCollide
    \/ Publish \/ StartReturns \/ StopListener \/ JoinListener
    \/ (\E c \in Peers, target \in Targets, ends \in BOOLEAN : Send(c, target, ends))

LEMMA TableSplit ==
    [Next]_vars =>
      \/ QuietForTable \/ UNCHANGED vars
      \/ (\E fd \in Fd : Accept(fd)) \/ AdmitClient \/ AddClient \/ BeforeClose \/ CloseNext
      \/ CloseConnection \/ CloseNextSocket
      \/ ShutDown \/ StopPublisher \/ ShutDownReturns \/ PublisherReturns
      \/ (\E c \in Peers : Connect(c) \/ Leave(c, "closed") \/ Leave(c, "reset"))
  BY DEF Next, Run, Main, QuietForTable

LEMMA QuietTable ==
    QuietForTable \/ UNCHANGED vars => UNCHANGED Table!vars
<1> USE DEF Ending, ClosingOne, scanVars, listenerVars
<1>1. QuietForTable =>
        /\ UNCHANGED <<clients, path_by_client, end_publisher>>
        /\ \/ UNCHANGED <<at, fds, i>>
           \/ at \notin Ending \cup {"adding"} /\ at' \notin Ending \cup {"adding"}
  BY DEF QuietForTable, Boot, Listen, ListenFails, Poll, PollFails, Panic, LoopEnds, ScanEntry,
         ScanEnds, CompressEntry, CompressEnds, AcceptWouldBlock, AcceptFails, Read, ParseForEver,
         ParseThrows, Refuse, Welcome, CloseAllEnds, StopsCollide, NextEntry,
         Publish, StartReturns, StopListener, JoinListener, Send, publisherVars
<1>2. UNCHANGED vars => UNCHANGED <<clients, path_by_client, end_publisher, at, fds, i>>
  BY DEF vars, publisherVars
<1>3. QuietForTable => QuietForLinks
  BY DEF QuietForTable, QuietForLinks
<1> SUFFICES ASSUME QuietForTable \/ UNCHANGED vars PROVE UNCHANGED Table!vars
  OBVIOUS
<1>4. UNCHANGED <<Removing, Adding, Joined>>
  BY <1>1, <1>2 DEF Removing, Adding, Joined
<1>5. \A fd \in Fd : Socket(fd)' = Socket(fd)
  BY <1>3, QuietLinks, SocketsKept
<1> QED
  BY <1>1, <1>2, <1>4, <1>5, TableStutters

(* Whoever is removed leaves the topic that is published, if it was the     *)
(* last that it joined.                                                     *)
LEMMA TableRemoves ==
    ASSUME ListenerInv, NEW fd \in Fd, Removed(fd), conn[fd] # NoPeer,
           Removing = {}, Removing' = {fd}, Adding = {}, Adding' = {},
           UNCHANGED <<conn, peer, end_publisher>>
    PROVE  Table!RemoveClient(fd)
<1>1. Socket(fd) # "closed"
  BY DEF Socket
<1>2. /\ clients' = [clients EXCEPT ![path_by_client[fd]] = @ \ {fd}]
      /\ path_by_client' = [path_by_client EXCEPT ![fd] = NoPath]
      /\ clients \in [Paths -> SUBSET Fd] /\ path_by_client \in [Fd -> Paths]
      /\ path_by_client[fd] \in Paths /\ Published \in Paths /\ NoPath # Published
  BY PathsHold DEF Removed, ListenerInv, PublisherTyped, NoPath, Published
<1>3. [f \in Fd |-> Socket(f)]' = [f \in Fd |-> Socket(f)]
  BY SocketsKept
<1>4. clients'[Published] = IF fd \in Joined THEN clients[Published] \ {fd} ELSE clients[Published]
  BY <1>2 DEF Joined
<1>5. Joined' = Joined \ {fd}
  BY <1>2 DEF Joined
<1> QED
  BY <1>1, <1>3, <1>4, <1>5 DEF Table!RemoveClient

LEMMA TableCloses ==
    ASSUME ListenerInv, LinkInv, NEW fd \in Fd, Closed(fd), conn[fd] # NoPeer,
           Removing = {fd}, Removing' = {}, UNCHANGED <<Adding, Joined, clients, end_publisher>>
    PROVE  Table!CloseSocket(fd)
<1>1. /\ conn' = [conn EXCEPT ![fd] = NoPeer]
      /\ peer' = [peer EXCEPT ![conn[fd]] = "away"]
      /\ conn \in [Fd -> Peers \cup {NoPeer}] /\ conn[fd] \in Peers
      /\ peer \in [Peers -> {"away", "up", "closed", "reset"}]
  BY DEF Closed, ListenerInv, PeersTyped
<1>2. Socket(fd)' = "closed"
  BY <1>1 DEF Socket
<1>3. ASSUME NEW f \in Fd, f # fd PROVE Socket(f)' = Socket(f)
  <2>1. conn'[f] = conn[f] /\ conn[f] # conn[fd]
    BY <1>1, <1>3 DEF LinkInv
  <2>2. conn[f] # NoPeer => peer'[conn[f]] = peer[conn[f]]
    BY <1>1, <2>1
  <2> QED
    BY <2>1, <2>2 DEF Socket
<1>4. [f \in Fd |-> Socket(f)]' = [[f \in Fd |-> Socket(f)] EXCEPT ![fd] = "closed"]
  BY <1>2, <1>3
<1> QED
  BY <1>4 DEF Table!CloseSocket

LEMMA TableStops ==
    ASSUME end_publisher' = TRUE, UNCHANGED <<Removing, Adding, Joined, clients, conn, peer>>
    PROVE  Table!Stop
<1>1. [f \in Fd |-> Socket(f)]' = [f \in Fd |-> Socket(f)]
  BY SocketsKept
<1> QED
  BY <1>1 DEF Table!Stop

LEMMA TableClears ==
    ASSUME PublisherCleared, end_publisher, UNCHANGED <<Removing, Adding, conn, peer>>
    PROVE  Table!Clear
<1>1. clients'[Published] = {} /\ end_publisher' = end_publisher
  BY PathsHold DEF PublisherCleared
<1>2. Joined' = {}
  BY DEF PublisherCleared, Joined, NoPath, Published
<1>3. [f \in Fd |-> Socket(f)]' = [f \in Fd |-> Socket(f)]
  BY SocketsKept
<1> QED
  BY <1>1, <1>2, <1>3 DEF Table!Clear

LEMMA TableStep == ListenerInv /\ JoinedInv /\ LinkInv /\ [Next]_vars => [Table!Next]_(Table!vars)
<1> SUFFICES ASSUME ListenerInv, JoinedInv, LinkInv, [Next]_vars
             PROVE  Table!Next \/ UNCHANGED Table!vars
  OBVIOUS
<1>0. /\ PublisherTyped /\ clients \in [Paths -> SUBSET Fd]
      /\ conn \in [Fd -> Peers \cup {NoPeer}] /\ NoPeer \notin Peers
      /\ backlog \in Seq(Peers) /\ peer \in [Peers -> {"away", "up", "closed", "reset"}]
  BY ListenerAssumption DEF ListenerInv, PublisherTyped, PeersTyped
<1>h. at \in {"beforeClose", "close"} \cup ClosingOne =>
        fds[i].fd \in Fd /\ conn[fds[i].fd] # NoPeer
  BY ClosingEntry
<1>1. CASE QuietForTable \/ UNCHANGED vars
  BY <1>1, QuietTable
<1>2. ASSUME NEW fd \in Fd, Accept(fd) PROVE Table!Next
  <2>1. /\ at = "accept" /\ at' = at /\ backlog # <<>> /\ conn[fd] = NoPeer
        /\ conn' = [conn EXCEPT ![fd] = Head(backlog)]
        /\ UNCHANGED <<peer, clients, path_by_client, end_publisher>>
    BY <1>2 DEF Accept, publisherVars
  <2>2. Head(backlog) \in Peers /\ Head(backlog) = backlog[1] /\ 1 \in DOMAIN backlog
    BY <2>1, <1>0, QueueTail
  <2>3. Socket(fd)' \in {"open", "reset"} /\ Socket(fd) = "closed"
    BY <2>1, <2>2, <1>0 DEF Socket
  <2>4. \A f \in Fd : f # fd => Socket(f)' = Socket(f)
    BY <2>1, <1>0 DEF Socket
  <2>5. [f \in Fd |-> Socket(f)]' = [[f \in Fd |-> Socket(f)] EXCEPT ![fd] = Socket(fd)']
    BY <2>4
  <2>6. UNCHANGED <<Removing, Adding, Joined>>
    BY <2>1 DEF Removing, Adding, Joined
  <2>7. Table!Accept(fd)
    BY <2>1, <2>3, <2>5, <2>6 DEF Table!Accept
  <2> QED
    BY <2>7 DEF Table!Next
<1>3. CASE AddClient
  <2>1. /\ at = "adding" /\ at' = "scan" /\ UNCHANGED <<conn, peer, end_publisher>>
        /\ clients' = [clients EXCEPT ![Target] = @ \cup {fds[i].fd}]
        /\ path_by_client' = [path_by_client EXCEPT ![fds[i].fd] = Target]
        /\ path_by_client \in [Fd -> Paths] /\ Target \in Paths
    BY <1>3, <1>0 DEF AddClient, NextEntry, peerVars, ListenerInv, AddInv, PublisherTyped
  <2>2. Removing = {} /\ Removing' = {} /\ Adding = {fds[i].fd} /\ Adding' = {}
    BY <2>1 DEF Removing, Adding
  <2>3. fds[i].fd \in Fd
    BY <2>1 DEF ListenerInv, ArrayInv, ScanInv, IsOpen, AtConnection
  <2>4. [f \in Fd |-> Socket(f)]' = [f \in Fd |-> Socket(f)]
    BY <2>1, SocketsKept
  <2>5. CASE Target = Published
    <3>1. /\ clients'[Published] = clients[Published] \cup {fds[i].fd}
          /\ Joined' = Joined \cup {fds[i].fd}
      BY <2>1, <2>3, <2>5, <1>0, PathsHold DEF Joined
    <3>2. Table!AddClient(fds[i].fd)
      BY <3>1, <2>1, <2>2, <2>4 DEF Table!AddClient
    <3> QED
      BY <3>2, <2>3 DEF Table!Next
  <2>6. CASE Target # Published
    <3>1. clients'[Published] = clients[Published] /\ Joined' = Joined \ {fds[i].fd}
      BY <2>1, <2>3, <2>6, <1>0, PathsHold DEF Joined
    <3>2. Table!JoinAnother(fds[i].fd)
      BY <3>1, <2>1, <2>2, <2>4 DEF Table!JoinAnother
    <3> QED
      BY <3>2, <2>3 DEF Table!Next
  <2> QED
    BY <2>5, <2>6
<1>10. CASE AdmitClient
  <2>1. at = "add" /\ UNCHANGED <<conn, peer, clients, path_by_client, end_publisher, fds>>
    BY <1>10 DEF AdmitClient, peerVars, publisherVars
  <2>2. [f \in Fd |-> Socket(f)]' = [f \in Fd |-> Socket(f)] /\ Joined' = Joined
    BY <2>1, SocketsKept DEF Joined
  <2>3. CASE end_publisher
    <3>1. at' = "scan"
      BY <1>10, <2>3 DEF AdmitClient, NextEntry
    <3>2. UNCHANGED <<Removing, Adding>>
      BY <2>1, <3>1 DEF Removing, Adding
    <3> QED
      BY <2>1, <2>2, <3>2, SocketsKept, TableStutters
  <2>4. CASE ~end_publisher
    <3>1. at' = "adding" /\ i' = i
      BY <1>10, <2>4 DEF AdmitClient
    <3>2. fds[i].fd \in Fd /\ conn[fds[i].fd] # NoPeer
      BY <2>1 DEF ListenerInv, ArrayInv, ScanInv, IsOpen, AtConnection
    <3>3. Removing = {} /\ Removing' = {} /\ Adding = {} /\ Adding' = {fds[i].fd}
      BY <2>1, <3>1 DEF Removing, Adding
    <3>4. [f \in Fd |-> Socket(f)][fds[i].fd] # "closed"
      BY <3>2 DEF Socket
    <3>5. Table!Admit(fds[i].fd)
      BY <2>1, <2>2, <2>4, <3>3, <3>4 DEF Table!Admit
    <3> QED
      BY <3>2, <3>5 DEF Table!Next
  <2> QED
    BY <2>3, <2>4
<1>4. CASE BeforeClose
  <2>1. /\ at = "beforeClose" /\ at' = "close" /\ Removed(fds[i].fd)
        /\ UNCHANGED <<fds, i, conn, peer, end_publisher>>
    BY <1>4 DEF BeforeClose, scanVars, peerVars
  <2>2. Removing = {} /\ Removing' = {fds[i].fd} /\ Adding = {} /\ Adding' = {}
    BY <2>1 DEF Removing, Adding
  <2>3. Table!RemoveClient(fds[i].fd)
    BY <2>1, <2>2, <1>h, TableRemoves
  <2> QED
    BY <2>1, <2>3, <1>h DEF Table!Next
<1>5. CASE CloseNext
  <2>1. UNCHANGED <<fds, conn, peer, end_publisher>> /\ at \in Closing
    BY <1>5 DEF CloseNext, peerVars, Closing
  <2>2. CASE fds[i].fd \in Fd /\ Removed(fds[i].fd) /\ at' \in ClosingOne /\ i' = i
    <3>1. Removing = {} /\ Removing' = {fds[i].fd} /\ Adding = {} /\ Adding' = {}
      BY <2>1, <2>2 DEF Removing, Adding, Closing, ClosingOne
    <3>2. conn[fds[i].fd] # NoPeer
      <4>1. i \in DOMAIN fds
        BY <1>5 DEF CloseNext, ListenerInv, ListenerTyped, ArrayInv, CloseInv, Closing
      <4>2. i # 1
        BY <2>1, <2>2, SockNames DEF ListenerInv, ArrayInv, CloseInv
      <4> QED
        BY <4>1, <4>2, <2>1 DEF ListenerInv, ListenerTyped, ArrayInv, CloseInv, IsOpen
    <3>3. Table!RemoveClient(fds[i].fd)
      BY <2>1, <2>2, <3>1, <3>2, TableRemoves
    <3> QED
      BY <2>2, <3>3 DEF Table!Next
  <2>3. CASE UNCHANGED <<clients, path_by_client, at>>
    <3>1. UNCHANGED <<Removing, Adding, Joined>>
      BY <2>1, <2>3 DEF Removing, Adding, Joined, Closing
    <3> QED
      BY <2>1, <2>3, <3>1, SocketsKept, TableStutters
  <2> QED
    BY <1>5, <2>2, <2>3 DEF CloseNext, ClosingOne
<1>6. CASE CloseConnection \/ CloseNextSocket
  <2>1. /\ at \in Ending /\ at' \in {"scan"} \cup Closing /\ Closed(fds[i].fd)
        /\ UNCHANGED <<clients, path_by_client, end_publisher>>
    BY <1>6 DEF CloseConnection, CloseNextSocket, NextEntry, Ending, ClosingOne, Closing,
                publisherVars
  <2>2. Removing = {fds[i].fd} /\ Removing' = {} /\ UNCHANGED <<Adding, Joined>>
    BY <2>1 DEF Removing, Adding, Joined, Ending, ClosingOne, Closing
  <2>3. fds[i].fd \in Fd /\ conn[fds[i].fd] # NoPeer
    BY <2>1, <1>h DEF Ending
  <2>4. Table!CloseSocket(fds[i].fd)
    BY <2>1, <2>2, <2>3, TableCloses
  <2> QED
    BY <2>3, <2>4 DEF Table!Next
<1>7. CASE ShutDown \/ StopPublisher
  <2>1. /\ end_publisher' = TRUE /\ UNCHANGED <<conn, peer, clients, path_by_client>>
        /\ UNCHANGED <<at, fds, i>> \/ (at = "message" /\ at' = "stop")
    BY <1>7, Zenon DEF ShutDown, StopPublisher, listenerVars, scanVars, peerVars
  <2>2. UNCHANGED <<Removing, Adding, Joined>>
    BY <2>1 DEF Removing, Adding, Joined
  <2> QED
    BY <2>1, <2>2, TableStops DEF Table!Next
<1>11. CASE ShutDownReturns \/ PublisherReturns
  <2>1. /\ PublisherCleared /\ UNCHANGED <<conn, peer>> /\ end_publisher
        /\ UNCHANGED <<at, fds, i>> \/ (at = "stop" /\ at' = "scan")
    BY <1>11 DEF ShutDownReturns, PublisherReturns, NextEntry, listenerVars, scanVars, peerVars,
                 JoinedInv
  <2>2. UNCHANGED <<Removing, Adding>>
    BY <2>1 DEF Removing, Adding
  <2> QED
    BY <2>1, <2>2, TableClears DEF Table!Next
<1>8. ASSUME NEW c \in Peers, Connect(c) \/ Leave(c, "closed")
      PROVE  UNCHANGED Table!vars
  <2>1. /\ UNCHANGED <<conn, clients, path_by_client, end_publisher, at, fds, i>>
        /\ peer' = [peer EXCEPT ![c] = IF peer[c] = "away" THEN "up" ELSE "closed"]
        /\ peer[c] \in {"away", "up"}
    BY <1>8, <1>0 DEF Connect, Leave, listenerVars, scanVars, publisherVars
  <2>2. ASSUME NEW f \in Fd PROVE Socket(f)' = Socket(f)
    <3>1. CASE conn[f] = NoPeer
      BY <2>1, <3>1 DEF Socket
    <3>2. CASE conn[f] # NoPeer
      <4>1. conn[f] \in Peers /\ peer[conn[f]] # "away"
        BY <3>2, <1>0 DEF LinkInv
      <4>2. peer'[conn[f]] = IF conn[f] = c THEN "closed" ELSE peer[conn[f]]
        BY <4>1, <2>1, <1>0
      <4> QED
        BY <4>1, <4>2, <2>1 DEF Socket
    <3> QED
      BY <3>1, <3>2
  <2>3. UNCHANGED <<Removing, Adding, Joined>>
    BY <2>1 DEF Removing, Adding, Joined
  <2> QED
    BY <2>1, <2>2, <2>3, TableStutters
<1>9. ASSUME NEW c \in Peers, Leave(c, "reset")
      PROVE  Table!Next \/ UNCHANGED Table!vars
  <2>1. /\ UNCHANGED <<conn, clients, path_by_client, end_publisher, at, fds, i>>
        /\ peer' = [peer EXCEPT ![c] = "reset"] /\ peer[c] = "up"
    BY <1>9 DEF Leave, listenerVars, scanVars, publisherVars
  <2>2. UNCHANGED <<Removing, Adding, Joined>>
    BY <2>1 DEF Removing, Adding, Joined
  <2>3. ASSUME NEW f \in Fd, conn[f] # c PROVE Socket(f)' = Socket(f)
    <3>1. conn[f] # NoPeer => peer'[conn[f]] = peer[conn[f]]
      BY <2>1, <2>3, <1>0
    <3> QED
      BY <2>1, <3>1 DEF Socket
  <2>4. CASE \A f \in Fd : conn[f] # c
    BY <2>1, <2>2, <2>3, <2>4, TableStutters
  <2>5. ASSUME NEW fd \in Fd, conn[fd] = c PROVE Table!Next
    <3>1. Socket(fd) = "open" /\ Socket(fd)' = "reset"
      BY <2>1, <2>5, <1>0 DEF Socket
    <3>2. \A f \in Fd : f # fd => Socket(f)' = Socket(f)
      BY <2>3, <2>5, <1>0 DEF LinkInv
    <3>3. [f \in Fd |-> Socket(f)]' = [[f \in Fd |-> Socket(f)] EXCEPT ![fd] = "reset"]
      BY <3>1, <3>2
    <3>4. Table!PeerResets(fd)
      BY <3>1, <3>3, <2>1, <2>2 DEF Table!PeerResets
    <3> QED
      BY <3>4 DEF Table!Next
  <2> QED
    BY <2>4, <2>5
<1> QED
  BY <1>1, <1>2, <1>3, <1>4, <1>5, <1>6, <1>7, <1>8, <1>9, <1>10, <1>11, TableSplit

(* What ends a connection removes its descriptor from the clients of its    *)
(* path and then closes it, nothing makes it one in between, and nobody is  *)
(* admitted once the publisher is being stopped: Publisher's assumption of  *)
(* its listener holds, for every target a peer may ask for.                 *)
THEOREM ListenerKeepsTable == Spec => KeepsClientTable
<1>1. Init => Table!Init
  <2> SUFFICES ASSUME Init PROVE Table!Init
    OBVIOUS
  <2>1. /\ clients[Published] = {} /\ end_publisher = FALSE
        /\ Removing = {} /\ Adding = {} /\ Joined = {}
    BY PathsHold, Zenon DEF Init, Removing, Adding, Joined, NoPath, Published
  <2>2. [fd \in Fd |-> Socket(fd)] = [fd \in Fd |-> "closed"]
    BY DEF Init, Socket
  <2> QED
    BY <2>1, <2>2 DEF Table!Init
<1>2. Init => LinkInv
  BY DEF Init, LinkInv
<1> QED
  BY <1>1, <1>2, LinkStep, TableStep, JoinedInit, JoinedStep, ListenerInit, ListenerStep, PTL
     DEF Spec, KeepsClientTable, Table!Spec

-----------------------------------------------------------------------------
(* start() and stop().                                                      *)

Early == {"boot", "listen"}
Told == {"closeAll", "closeAllClose", "returned"}
Late == Told \cup {"panic", "panicClose", "threw"}

(* Nobody stops the publisher before the listener has lowered its flag, and *)
(* from then on a raised one is never lowered; before start() returns only  *)
(* a request raises it.                                                     *)
StopInv ==
    /\ at = "boot" => state = "NEW"
    /\ at = "listen" => state = "BOOTING"
    /\ at \in Early => mainAt = "starting" /\ ~end_publisher
    /\ mainAt \in {"joining", "stopped"} => end_listener
    /\ at = "stop" => end_publisher
    /\ end_publisher => end_listener \/ mainAt \in {"publisher", "stopping"} \/ at = "stop"
    /\ mainAt = "starting" /\ end_listener /\ at # "boot" => end_publisher
    /\ at \in Told => end_listener
    /\ state \in {"TERMINATING", "TERMINATED"} => at \in Late

LEMMA StopInit == Init => StopInv
  BY DEF Init, StopInv, Early, Told, Late

LEMMA StopStep == StopInv /\ [Next]_vars => StopInv'
<1> SUFFICES ASSUME StopInv, [Next]_vars PROVE StopInv'
  OBVIOUS
<1> USE DEF Early, Told, Late, scanVars, NextEntry
<1>1. CASE Boot
  BY <1>1 DEF Boot, StopInv, publisherVars
<1>2. CASE Listen
  BY <1>2 DEF Listen, StopInv, publisherVars
<1>3. CASE ListenFails
  BY <1>3 DEF ListenFails, StopInv, publisherVars
<1>4. CASE LoopEnds
  BY <1>4 DEF LoopEnds, StopInv, publisherVars
<1>5. CASE PollFails \/ AcceptFails
  BY <1>5 DEF PollFails, AcceptFails, Panic, StopInv, publisherVars
<1>6. CASE CloseNext
  BY <1>6 DEF CloseNext, StopInv
<1>7. CASE CloseNextSocket \/ CloseAllEnds
  BY <1>7 DEF CloseNextSocket, CloseAllEnds, StopInv, publisherVars
<1>8. CASE ShutDown \/ ShutDownReturns
  BY <1>8 DEF ShutDown, ShutDownReturns, PublisherCleared, StopInv
<1>9. CASE StopPublisher \/ PublisherReturns
  BY <1>9 DEF StopPublisher, PublisherReturns, PublisherCleared, listenerVars, StopInv
<1>14. CASE StopsCollide
  BY <1>14 DEF StopsCollide, publisherVars, StopInv
<1>10. CASE Main
  BY <1>10 DEF Main, StartReturns, StopListener, JoinListener, listenerVars, publisherVars, StopInv
(* Any other step: the listener is in its loop, and stays there or is       *)
(* caught; or it takes no step.                                             *)
<1>u. ASSUME UNCHANGED <<state, end_listener, end_publisher, mainAt>>,
             at' = at \/ (at \notin Early \cup Late \cup {"stop"}
                            /\ at' \notin Early \cup Told \cup {"stop"})
      PROVE  StopInv'
  BY <1>u DEF StopInv
<1>11. CASE Poll \/ ScanEntry \/ ScanEnds \/ CompressEntry \/ CompressEnds \/ AcceptWouldBlock
            \/ (\E fd \in Fd : Accept(fd))
  BY <1>11, <1>u DEF Poll, ScanEntry, ScanEnds, CompressEntry, CompressEnds, AcceptWouldBlock,
                     Accept, publisherVars
<1>12. CASE Read \/ ParseForEver \/ ParseThrows \/ Refuse \/ Welcome \/ AdmitClient
            \/ AddClient \/ BeforeClose \/ CloseConnection
  BY <1>12, <1>u DEF Read, ParseForEver, ParseThrows, Refuse, Welcome, AdmitClient, AddClient,
                     BeforeClose, CloseConnection, publisherVars
<1>13. CASE Publish \/ PeerActs \/ UNCHANGED vars
  BY <1>13, <1>u, PeersAct DEF Publish, vars, listenerVars, publisherVars
<1> QED
  BY <1>1, <1>2, <1>3, <1>4, <1>5, <1>6, <1>7, <1>8, <1>9, <1>10, <1>11, <1>12, <1>13, <1>14
     DEF Next, Run, PeerActs

(* Whoever stops the publisher also reaches the listener: the flag that     *)
(* run() lowers has been lowered by then.                                   *)
THEOREM StopReachesListener == Spec => []StopIsNotLost
<1>1. StopInv => StopIsNotLost
  BY DEF StopInv, StopIsNotLost
<1> QED
  BY <1>1, StopInit, StopStep, PTL DEF Spec

(* start() finds the listener running, unless a request was faster or an    *)
(* exception ends the process.                                              *)
THEOREM StartFindsItRunning == Spec => []StartSeesRunning
<1>1. StopInv => StartSeesRunning
  BY DEF StopInv, StartSeesRunning, Told, Late
<1> QED
  BY <1>1, StopInit, StopStep, PTL DEF Spec
=============================================================================
