--------------------------- MODULE PublisherProofs ---------------------------
(***************************************************************************)
(* Proofs about Publisher, for any number of clients, workers, publishing  *)
(* threads and pictures and any limit: type correctness, the bound of the  *)
(* counters, the backlog they stand for, the mutual exclusion that keeps   *)
(* workers from popping an empty queue, the absence of a stall with two or *)
(* more workers, the freshness of what is sent, why nobody misses a        *)
(* picture for the limit, and that stop() waits for one worker at most     *)
(* that is not awake.                                                      *)
(***************************************************************************)
EXTENDS Publisher, FiniteSetTheorems, TLAPS

USE DEF topicVars, enqueueVars, workerVars, socketVars, stopVars,
        Table!Accept, Table!Admit, Table!AddClient, Table!JoinAnother, Table!PeerResets,
        Table!RemoveClient, Table!CloseSocket, Table!Clear

(* What a publishing thread has in hand while it is in enqueue(). *)
InHand ==
    \A p \in Publishers :
      /\ enqueueAt[p] \notin {"idle", "set"} => picture[p] \in 1..MaxPictures
      /\ enqueueAt[p] \in {"push", "notify"} => target[p] \in Fd

(* What a worker has in hand once it has popped. *)
Popped ==
    \A w \in Workers :
      workerAt[w] \in {"read", "poll", "send"} => payload[w] \in Payload

TypeInv == TypeOK /\ InHand /\ Popped

LEMMA TypeInit == Init => TypeInv
<1> SUFFICES ASSUME Init PROVE TypeInv
  OBVIOUS
<1>1. end_publisher \in BOOLEAN /\ running \in BOOLEAN
  BY Zenon DEF Init
<1>2. payload \in [Workers -> Payload \cup {NoPayload}] /\ payloads \in Seq(Payload)
  BY DEF Init
<1> QED
  BY <1>1, <1>2, PublisherAssumption DEF Init, TypeInv, TypeOK, InHand, Popped

(* Every action of enqueue(), worker(), the listener and stop() keeps the   *)
(* types, and a publishing thread or worker has something in hand where it  *)
(* uses it.                                                                 *)
LEMMA TypeStep == TypeInv /\ [Next]_vars => TypeInv'
<1> SUFFICES ASSUME TypeInv, [Next]_vars PROVE TypeInv'
  OBVIOUS
<1> USE PublisherAssumption DEF TypeInv, TypeOK, InHand, Popped
<1>0. ASSUME NEW p \in Publishers, EnqueueBegins(p) PROVE TypeInv'
  BY <1>0 DEF EnqueueBegins
<1>1. ASSUME NEW p \in Publishers, SetBuffer(p) PROVE TypeInv'
  <2>1. buffer + 1 \in 1..MaxPictures
    BY <1>1 DEF SetBuffer
  <2>2. /\ picture' \in [Publishers -> 0..MaxPictures]
        /\ enqueueAt' \in [Publishers -> {"idle", "set", "clients", "loop", "push", "notify"}]
    BY <1>1, <2>1 DEF SetBuffer
  <2>3. InHand'
    BY <1>1, <2>1 DEF SetBuffer
  <2> QED
    <3>1. TypeOK'
      BY <1>1, <2>1, <2>2 DEF SetBuffer
    <3>2. Popped'
      BY <1>1 DEF SetBuffer
    <3> QED
      BY <2>3, <3>1, <3>2
<1>2. ASSUME NEW p \in Publishers, Enqueue(p), ~SetBuffer(p) PROVE TypeInv'
  <2>1. CASE GetClients(p)
    BY <2>1 DEF GetClients
  <2>2. CASE NextClient(p)
    <3>1. PICK fd \in todo[p] :
            /\ todo' = [todo EXCEPT ![p] = @ \ {fd}]
            /\ IF HasRoom(fd)
               THEN /\ target' = [target EXCEPT ![p] = fd]
                    /\ enqueueAt' = [enqueueAt EXCEPT ![p] = "push"]
               ELSE UNCHANGED <<target, enqueueAt>>
      BY <2>2 DEF NextClient
    <3>2. fd \in Fd /\ todo' \in [Publishers -> SUBSET Fd]
      BY <3>1
    <3>3. CASE HasRoom(fd)
      <4>1. /\ target' = [target EXCEPT ![p] = fd]
            /\ enqueueAt' = [enqueueAt EXCEPT ![p] = "push"]
        BY <3>1, <3>3
      <4>2. InHand'
        BY <2>2, <3>2, <4>1 DEF NextClient
      <4> QED
        BY <2>2, <3>2, <4>1, <4>2 DEF NextClient
    <3>4. CASE ~HasRoom(fd)
      <4>1. UNCHANGED <<target, enqueueAt>>
        BY <3>1, <3>4
      <4> QED
        BY <2>2, <3>2, <4>1 DEF NextClient
    <3> QED
      BY <3>3, <3>4
  <2>3. CASE Push(p)
    <3>1. [fd |-> target[p], picture |-> picture[p]] \in Payload
      BY <2>3 DEF Push, Payload
    <3>2. payloads' \in Seq(Payload)
      BY <2>3, <3>1 DEF Push
    <3> QED
      BY <2>3, <3>2 DEF Push, Increase
  <2>4. CASE NotifyOne(p)
    <3>1. workerAt' \in [Workers -> {"top", "lock", "tested", "asleep", "pop", "read",
                                     "poll", "send", "threw", "failed", "returned"}]
      BY <2>4 DEF NotifyOne
    <3>2. \A w \in Workers : workerAt'[w] \in {"read", "poll", "send"} => workerAt'[w] = workerAt[w]
      BY <2>4 DEF NotifyOne
    <3> QED
      BY <2>4, <3>1, <3>2 DEF NotifyOne
  <2>5. CASE EnqueueReturns(p)
    BY <2>5 DEF EnqueueReturns
  <2> QED
    BY <1>2, <2>1, <2>2, <2>3, <2>4, <2>5 DEF Enqueue
<1>3. ASSUME NEW w \in Workers, Worker(w) \/ SpuriousWakeup(w) PROVE TypeInv'
  <2>1. CASE WorkerTop(w)
    BY <2>1 DEF WorkerTop
  <2>2. CASE WorkerTest(w)
    BY <2>2 DEF WorkerTest
  <2>3. CASE WorkerSleep(w)
    BY <2>3 DEF WorkerSleep
  <2>4. CASE WorkerPop(w)
    <3>1. CASE end_publisher
      BY <2>4, <3>1 DEF WorkerPop
    <3>2. CASE ~end_publisher
      <4>1. Head(payloads) \in Payload /\ Tail(payloads) \in Seq(Payload)
        BY <2>4, <3>2 DEF WorkerPop
      <4>2. queue_size_by_sockfd' \in [Fd -> Int]
        BY <2>4, <3>2 DEF WorkerPop, Decrease
      <4>3. /\ payload' \in [Workers -> Payload \cup {NoPayload}]
            /\ Popped'
        BY <2>4, <3>2, <4>1 DEF WorkerPop
      <4> QED
        <5>0. workerAt' = [workerAt EXCEPT ![w] = "read"]
          BY <2>4, <3>2 DEF WorkerPop
        <5>1. workerAt' \in [Workers -> {"top", "lock", "tested", "asleep", "pop", "read",
                                         "poll", "send", "threw", "failed", "returned"}]
          BY <5>0
        <5>2. TypeOK'
          BY <2>4, <3>2, <4>1, <4>2, <4>3, <5>1 DEF WorkerPop
        <5> QED
          BY <2>4, <3>2, <4>3, <5>2 DEF WorkerPop
    <3> QED
      BY <3>1, <3>2
  <2>5. CASE WorkerRead(w)
    BY <2>5 DEF WorkerRead
  <2>6. CASE WorkerPoll(w)
    <3>1. CASE /\ running' = FALSE /\ UNCHANGED <<payload, chunk>>
               /\ \E at \in {"threw", "failed"} : workerAt' = [workerAt EXCEPT ![w] = at]
      <4>1. running' \in BOOLEAN
        BY <3>1, Zenon
      <4> QED
        BY <2>6, <3>1, <4>1 DEF WorkerPoll, NextRound
    <3>2. CASE NextRound(w) /\ UNCHANGED running
      BY <2>6, <3>2 DEF WorkerPoll, NextRound
    <3>3. CASE workerAt' = [workerAt EXCEPT ![w] = "send"] /\ UNCHANGED <<payload, chunk, running>>
      BY <2>6, <3>3 DEF WorkerPoll
    <3> QED
      BY <2>6, <3>1, <3>2, <3>3 DEF WorkerPoll
  <2>7. CASE WorkerSend(w)
    BY <2>7 DEF WorkerSend, NextRound
  <2>8. CASE SpuriousWakeup(w)
    BY <2>8 DEF SpuriousWakeup
  <2> QED
    BY <1>3, <2>1, <2>2, <2>3, <2>4, <2>5, <2>6, <2>7, <2>8 DEF Worker
<1>4. ASSUME NEW fd \in Fd, Clients(fd) PROVE TypeInv'
  <2>1. CASE Accept(fd)
    BY <2>1 DEF Accept
  <2>2. CASE AddClient(fd)
    BY <2>2 DEF AddClient
  <2>3. CASE PeerResets(fd)
    BY <2>3 DEF PeerResets
  <2>4. CASE RemoveClient(fd)
    BY <2>4 DEF RemoveClient
  <2>5. CASE CloseSocket(fd)
    BY <2>5 DEF CloseSocket
  <2>6. CASE Admit(fd)
    BY <2>6 DEF Admit
  <2>7. CASE JoinAnother(fd)
    BY <2>7 DEF JoinAnother
  <2> QED
    BY <1>4, <2>1, <2>2, <2>3, <2>4, <2>5, <2>6, <2>7 DEF Clients
<1>5. CASE Stop
  BY <1>5 DEF Stop
<1>6. CASE NotifyAll
  BY <1>6 DEF NotifyAll
<1>7. CASE JoinWorkers
  BY <1>7 DEF JoinWorkers
<1>8. CASE UNCHANGED vars
  BY <1>8 DEF vars
<1> QED
  BY <1>0, <1>1, <1>2, <1>3, <1>4, <1>5, <1>6, <1>7, <1>8 DEF Next, Stopping

(* The types of all variables, for any constants. *)
THEOREM TypeCorrect == Spec => []TypeOK
<1>1. TypeInv => TypeOK
  BY DEF TypeInv
<1> QED
  BY <1>1, TypeInit, TypeStep, PTL DEF Spec

-----------------------------------------------------------------------------
(* The counters.  A publishing thread that has found room for a client and  *)
(* has not yet pushed is counted as if it had.                              *)

Pushing(fd) == {p \in Publishers : enqueueAt[p] = "push" /\ target[p] = fd}

CounterInv ==
    \A fd \in Fd :
      queue_size_by_sockfd[fd] + Cardinality(Pushing(fd)) <= Limit + Cardinality(Publishers)

(* The publishing threads at one place are finitely many, and no more than  *)
(* there are.                                                               *)
LEMMA PushingBound ==
    \A fd \in Fd :
      /\ IsFiniteSet(Pushing(fd))
      /\ Cardinality(Pushing(fd)) \in 0..Cardinality(Publishers)
      /\ IsFiniteSet(Pushing(fd)')
      /\ Cardinality(Pushing(fd)') \in 0..Cardinality(Publishers)
<1> USE PublisherAssumption
<1>1. \A S \in SUBSET Publishers :
        IsFiniteSet(S) /\ Cardinality(S) \in 0..Cardinality(Publishers)
  <2> TAKE S \in SUBSET Publishers
  <2>1. IsFiniteSet(S) /\ Cardinality(S) <= Cardinality(Publishers)
    BY FS_Subset
  <2>2. Cardinality(S) \in Nat /\ Cardinality(Publishers) \in Nat
    BY <2>1, FS_CardinalityType
  <2> QED
    BY <2>1, <2>2
<1> QED
  BY <1>1 DEF Pushing

LEMMA CounterInit == Init => CounterInv
<1> SUFFICES ASSUME Init, NEW fd \in Fd
             PROVE queue_size_by_sockfd[fd] + Cardinality(Pushing(fd))
                     <= Limit + Cardinality(Publishers)
  BY DEF CounterInv
<1>1. queue_size_by_sockfd[fd] = 0
  BY DEF Init
<1>2. Cardinality(Publishers) \in Nat
  BY PublisherAssumption, FS_CardinalityType
<1> QED
  BY <1>1, <1>2, PushingBound, PublisherAssumption

(* A step that leaves the pushing threads of a client alone, or takes some  *)
(* away, keeps the invariant for it if its counter does not grow, or is     *)
(* reset; one that adds a thread has found the counter within the limit.    *)
LEMMA CounterKept ==
    ASSUME TypeOK, TypeOK', CounterInv, NEW fd \in Fd,
           \/ /\ Pushing(fd)' = Pushing(fd)
              /\ queue_size_by_sockfd'[fd] <= queue_size_by_sockfd[fd]
           \/ queue_size_by_sockfd'[fd] <= Limit
    PROVE  queue_size_by_sockfd'[fd] + Cardinality(Pushing(fd)')
             <= Limit + Cardinality(Publishers)
<1> DEFINE before == queue_size_by_sockfd[fd]
           after == queue_size_by_sockfd'[fd]
           pushing == Cardinality(Pushing(fd))
           pushingNow == Cardinality(Pushing(fd)')
           publishers == Cardinality(Publishers)
<1>1. before \in Int /\ after \in Int
  BY DEF TypeOK
<1>2. publishers \in Nat /\ Limit \in Nat
  BY PublisherAssumption, FS_CardinalityType
<1>3. pushing \in 0..publishers /\ pushingNow \in 0..publishers
  BY PushingBound
<1>4. before + pushing <= Limit + publishers
  BY DEF CounterInv
<1>5. (pushingNow = pushing /\ after <= before) \/ after <= Limit
  OBVIOUS
<1> HIDE DEF before, after, pushing, pushingNow, publishers
<1>6. after + pushingNow <= Limit + publishers
  BY <1>1, <1>2, <1>3, <1>4, <1>5
<1> QED
  BY <1>6 DEF after, pushingNow, publishers

(* Every action keeps the balance of the counters.                          *)
LEMMA CounterStep == TypeInv /\ CounterInv /\ [Next]_vars => CounterInv'
<1> SUFFICES ASSUME TypeInv, CounterInv, [Next]_vars, NEW fd \in Fd
             PROVE  queue_size_by_sockfd'[fd] + Cardinality(Pushing(fd)')
                      <= Limit + Cardinality(Publishers)
  BY DEF CounterInv
<1> DEFINE Goal == queue_size_by_sockfd'[fd] + Cardinality(Pushing(fd)')
                     <= Limit + Cardinality(Publishers)
<1>0. TypeOK /\ TypeOK'
  BY TypeStep DEF TypeInv
<1>a. ASSUME UNCHANGED <<queue_size_by_sockfd, enqueueAt, target>> PROVE Goal
  <2>1. Pushing(fd)' = Pushing(fd) /\ queue_size_by_sockfd'[fd] <= queue_size_by_sockfd[fd]
    BY <1>a, <1>0 DEF Pushing, TypeOK
  <2> QED
    BY <2>1, <1>0, CounterKept
<1>b. ASSUME NEW p \in Publishers, EnqueueBegins(p) PROVE Goal
  <2>1. Pushing(fd)' = Pushing(fd) /\ queue_size_by_sockfd'[fd] <= queue_size_by_sockfd[fd]
    BY <1>b, <1>0 DEF EnqueueBegins, Pushing, TypeOK
  <2> QED
    BY <2>1, <1>0, CounterKept
<1>1. ASSUME NEW p \in Publishers, SetBuffer(p) PROVE Goal
  <2>1. Pushing(fd)' = Pushing(fd) /\ queue_size_by_sockfd'[fd] <= queue_size_by_sockfd[fd]
    BY <1>1, <1>0 DEF SetBuffer, Pushing, TypeOK
  <2> QED
    BY <2>1, <1>0, CounterKept
<1>2. ASSUME NEW p \in Publishers, GetClients(p) \/ NotifyOne(p) \/ EnqueueReturns(p) PROVE Goal
  <2>1. queue_size_by_sockfd'[fd] <= queue_size_by_sockfd[fd]
    BY <1>2, <1>0 DEF GetClients, NotifyOne, EnqueueReturns, TypeOK
  <2>2. CASE GetClients(p)
    <3>1. Pushing(fd)' = Pushing(fd)
      BY <2>2, <1>0 DEF GetClients, Pushing, TypeOK
    <3> QED
      BY <2>1, <3>1, <1>0, CounterKept
  <2>3. CASE NotifyOne(p)
    <3>1. Pushing(fd)' = Pushing(fd)
      BY <2>3, <1>0 DEF NotifyOne, Pushing, TypeOK
    <3> QED
      BY <2>1, <3>1, <1>0, CounterKept
  <2>4. CASE EnqueueReturns(p)
    <3>1. Pushing(fd)' = Pushing(fd)
      BY <2>4, <1>0 DEF EnqueueReturns, Pushing, TypeOK
    <3> QED
      BY <2>1, <3>1, <1>0, CounterKept
  <2> QED
    BY <1>2, <2>2, <2>3, <2>4
<1>3. ASSUME NEW p \in Publishers, NextClient(p) PROVE Goal
  <2>1. PICK f \in todo[p] :
          IF HasRoom(f) THEN /\ target' = [target EXCEPT ![p] = f]
                             /\ enqueueAt' = [enqueueAt EXCEPT ![p] = "push"]
                        ELSE UNCHANGED <<target, enqueueAt>>
    BY <1>3 DEF NextClient
  <2>2. queue_size_by_sockfd' = queue_size_by_sockfd
    BY <1>3 DEF NextClient
  <2>3. CASE ~HasRoom(f)
    <3>1. UNCHANGED <<target, enqueueAt>>
      BY <2>1, <2>3
    <3> QED
      BY <2>2, <3>1, <1>a
  <2>4. CASE HasRoom(f) /\ f = fd
    BY <2>2, <2>4, <1>0, CounterKept DEF HasRoom
  <2>5. CASE HasRoom(f) /\ f # fd
    <3>1. /\ target' = [target EXCEPT ![p] = f]
          /\ enqueueAt' = [enqueueAt EXCEPT ![p] = "push"]
          /\ enqueueAt[p] = "loop"
      BY <2>1, <2>5, <1>3 DEF NextClient
    <3>2. Pushing(fd)' = Pushing(fd)
      BY <2>5, <3>1, <1>0 DEF Pushing, TypeOK
    <3>3. queue_size_by_sockfd'[fd] <= queue_size_by_sockfd[fd]
      BY <2>2, <1>0 DEF TypeOK
    <3> QED
      BY <3>2, <3>3, <1>0, CounterKept
  <2> QED
    BY <2>3, <2>4, <2>5
<1>4. ASSUME NEW p \in Publishers, Push(p) PROVE Goal
  <2>1. CASE target[p] # fd
    <3>1. Pushing(fd)' = Pushing(fd)
      BY <1>4, <2>1, <1>0 DEF Push, Pushing, TypeOK
    <3>2. queue_size_by_sockfd'[fd] <= queue_size_by_sockfd[fd]
      BY <1>4, <2>1, <1>0 DEF Push, Increase, TypeOK
    <3> QED
      BY <3>1, <3>2, <1>0, CounterKept
  <2>2. CASE target[p] = fd
    <3>1. Pushing(fd)' = Pushing(fd) \ {p} /\ p \in Pushing(fd)
      BY <1>4, <2>2, <1>0 DEF Push, Pushing, TypeOK
    <3>2. Cardinality(Pushing(fd)') = Cardinality(Pushing(fd)) - 1
      BY <3>1, PushingBound, FS_RemoveElement
    <3>3. queue_size_by_sockfd'[fd] = queue_size_by_sockfd[fd] + 1
      BY <1>4, <2>2, <1>0 DEF Push, Increase, TypeOK
    <3>4. queue_size_by_sockfd[fd] \in Int /\ Cardinality(Pushing(fd)) \in Nat
      BY <1>0, PushingBound, FS_CardinalityType DEF TypeOK
    <3>5. queue_size_by_sockfd[fd] + Cardinality(Pushing(fd)) <= Limit + Cardinality(Publishers)
      BY DEF CounterInv
    <3> QED
      BY <3>2, <3>3, <3>4, <3>5
  <2> QED
    BY <2>1, <2>2
<1>5. ASSUME NEW w \in Workers, Worker(w) \/ SpuriousWakeup(w) PROVE Goal
  <2>1. UNCHANGED <<enqueueAt, target>>
    BY <1>5 DEF Worker, WorkerTop, WorkerTest, WorkerSleep, WorkerPop, WorkerRead,
                WorkerPoll, WorkerSend, SpuriousWakeup
  <2>2. CASE WorkerPop(w)
    <3>1. queue_size_by_sockfd'[fd] <= queue_size_by_sockfd[fd]
      <4>1. \/ queue_size_by_sockfd' = queue_size_by_sockfd
            \/ \E f : queue_size_by_sockfd' = [queue_size_by_sockfd EXCEPT ![f] = @ - 1]
        BY <2>2 DEF WorkerPop, Decrease
      <4>2. queue_size_by_sockfd \in [Fd -> Int]
        BY <1>0 DEF TypeOK
      <4> QED
        BY <4>1, <4>2
    <3>2. Pushing(fd)' = Pushing(fd)
      BY <2>1 DEF Pushing
    <3> QED
      BY <3>1, <3>2, <1>0, CounterKept
  <2>3. CASE ~WorkerPop(w)
    <3>1. UNCHANGED queue_size_by_sockfd
      BY <1>5, <2>3 DEF Worker, WorkerTop, WorkerTest, WorkerSleep, WorkerRead,
                        WorkerPoll, WorkerSend, SpuriousWakeup
    <3> QED
      BY <2>1, <3>1, <1>a
  <2> QED
    BY <2>2, <2>3
<1>6. ASSUME NEW f \in Fd, Clients(f) PROVE Goal
  <2>1. Pushing(fd)' = Pushing(fd)
    BY <1>6 DEF Clients, Accept, Admit, AddClient, JoinAnother, PeerResets, RemoveClient, CloseSocket, Pushing
  <2>2. \/ queue_size_by_sockfd'[fd] <= queue_size_by_sockfd[fd]
        \/ queue_size_by_sockfd'[fd] = 0
    <3>1. \/ queue_size_by_sockfd' = queue_size_by_sockfd
          \/ queue_size_by_sockfd' = [queue_size_by_sockfd EXCEPT ![f] = 0]
      BY <1>6 DEF Clients, Accept, Admit, AddClient, JoinAnother, PeerResets, RemoveClient, CloseSocket
    <3>2. queue_size_by_sockfd \in [Fd -> Int]
      BY <1>0 DEF TypeOK
    <3> QED
      BY <3>1, <3>2
  <2> QED
    BY <2>1, <2>2, <1>0, CounterKept, PublisherAssumption
<1>7. CASE Stop \/ NotifyAll
  BY <1>7, <1>a DEF Stop, NotifyAll
<1>8. CASE JoinWorkers
  BY <1>8, <1>0, CounterKept, PublisherAssumption DEF JoinWorkers
<1>9. CASE UNCHANGED vars
  BY <1>9, <1>a DEF vars
<1> QED
  BY <1>b, <1>1, <1>2, <1>3, <1>4, <1>5, <1>6, <1>7, <1>8, <1>9 DEF Next, Enqueue, Stopping

(* The counter of a client exceeds the limit by at most one for each        *)
(* publishing thread, for any limit and any number of threads.              *)
THEOREM CountersBounded == Spec => []CounterBound
<1>1. TypeInv /\ CounterInv => CounterBound
  <2> SUFFICES ASSUME TypeInv, CounterInv, NEW fd \in Fd
               PROVE  queue_size_by_sockfd[fd] <= Limit + Cardinality(Publishers)
    BY DEF CounterBound
  <2>1. queue_size_by_sockfd[fd] \in Int /\ Cardinality(Pushing(fd)) \in Nat
    BY PushingBound, FS_CardinalityType DEF TypeInv, TypeOK
  <2>2. Limit \in Nat /\ Cardinality(Publishers) \in Nat
    BY PublisherAssumption, FS_CardinalityType
  <2>3. queue_size_by_sockfd[fd] + Cardinality(Pushing(fd)) <= Limit + Cardinality(Publishers)
    BY DEF CounterInv
  <2> QED
    BY <2>1, <2>2, <2>3
<1> QED
  BY <1>1, TypeInit, TypeStep, CounterInit, CounterStep, PTL DEF Spec

-----------------------------------------------------------------------------
(* The queue.  A counter says how many payloads of its descriptor are in it *)
(* or, once the counter was reset, fewer.                                   *)

(* The places of a descriptor's payloads in a queue. *)
At(s, fd) == {i \in DOMAIN s : s[i].fd = fd}

LEMMA AtFinite ==
    ASSUME NEW S, NEW s \in Seq(S), NEW fd
    PROVE  IsFiniteSet(At(s, fd)) /\ Cardinality(At(s, fd)) \in Nat
<1>1. IsFiniteSet(1..Len(s))
  BY FS_Interval
<1>2. At(s, fd) \subseteq 1..Len(s)
  BY DEF At
<1> QED
  BY <1>1, <1>2, FS_Subset, FS_CardinalityType

LEMMA AtAppend ==
    ASSUME NEW S, NEW s \in Seq(S), NEW e \in S, NEW fd
    PROVE  Cardinality(At(Append(s, e), fd)) =
             IF e.fd = fd THEN Cardinality(At(s, fd)) + 1 ELSE Cardinality(At(s, fd))
<1>1. /\ DOMAIN Append(s, e) = 1..Len(s) + 1 /\ Append(s, e)[Len(s) + 1] = e
      /\ \A i \in DOMAIN s : Append(s, e)[i] = s[i]
      /\ DOMAIN s = 1..Len(s) /\ Len(s) \in Nat
  OBVIOUS
<1>2. At(Append(s, e), fd) = IF e.fd = fd THEN At(s, fd) \cup {Len(s) + 1} ELSE At(s, fd)
  BY <1>1 DEF At
<1>3. Len(s) + 1 \notin At(s, fd)
  BY <1>1 DEF At
<1> QED
  BY <1>2, <1>3, AtFinite, FS_AddElement

LEMMA AtTail ==
    ASSUME NEW S, NEW s \in Seq(S), s # <<>>, NEW fd
    PROVE  Cardinality(At(Tail(s), fd)) =
             IF Head(s).fd = fd THEN Cardinality(At(s, fd)) - 1 ELSE Cardinality(At(s, fd))
<1> DEFINE later == At(s, fd) \ {1}
           back == [i \in later |-> i - 1]
<1>1. /\ Tail(s) \in Seq(S) /\ Len(s) \in Nat /\ Len(s) >= 1 /\ DOMAIN s = 1..Len(s)
      /\ DOMAIN Tail(s) = 1..Len(s) - 1 /\ Head(s) = s[1]
      /\ \A i \in 1..Len(s) - 1 : Tail(s)[i] = s[i + 1]
  OBVIOUS
<1>2. \A i \in later : i \in 2..Len(s) /\ s[i].fd = fd /\ i - 1 \in At(Tail(s), fd)
  BY <1>1 DEF At
<1>3. \A i \in At(Tail(s), fd) : i \in Int /\ i + 1 \in later /\ (i + 1) - 1 = i
  BY <1>1 DEF At
<1>4. back \in Bijection(later, At(Tail(s), fd))
  <2>1. back \in [later -> At(Tail(s), fd)]
    BY <1>2
  <2>2. \A i, j \in later : back[i] = back[j] => i = j
    BY <1>2
  <2>3. \A i \in At(Tail(s), fd) : \E j \in later : back[j] = i
    BY <1>3
  <2> QED
    BY <2>1, <2>2, <2>3 DEF Bijection, Injection, Surjection, IsInjective
<1>5. Cardinality(At(Tail(s), fd)) = Cardinality(later)
  BY <1>4, AtFinite, FS_RemoveElement, FS_Bijection DEF ExistsBijection
<1>6. Head(s).fd = fd <=> 1 \in At(s, fd)
  BY <1>1 DEF At
<1>7. Cardinality(later) = IF 1 \in At(s, fd) THEN Cardinality(At(s, fd)) - 1
                           ELSE Cardinality(At(s, fd))
  <2>1. IsFiniteSet(At(s, fd))
    BY AtFinite
  <2>2. CASE 1 \in At(s, fd)
    BY <2>1, <2>2, FS_RemoveElement
  <2>3. CASE 1 \notin At(s, fd)
    <3>1. later = At(s, fd)
      BY <2>3
    <3> QED
      BY <3>1, <2>3
  <2> QED
    BY <2>2, <2>3
<1> QED
  BY <1>5, <1>6, <1>7

LEMMA BacklogInit == Init => NoPhantomBacklog
<1> SUFFICES ASSUME Init, NEW fd \in Fd
             PROVE  queue_size_by_sockfd[fd] <= Cardinality(QueuedFor(fd))
  BY DEF NoPhantomBacklog
<1>1. queue_size_by_sockfd[fd] = 0 /\ QueuedFor(fd) = {}
  BY DEF Init, QueuedFor
<1> QED
  BY <1>1, FS_EmptySet

(* A push raises the count and then the counter, a pop lowers both, and     *)
(* nothing else raises a counter or takes payloads but stop(), which clears *)
(* both.                                                                    *)
LEMMA BacklogStep == TypeInv /\ NoPhantomBacklog /\ [Next]_vars => NoPhantomBacklog'
<1> SUFFICES ASSUME TypeInv, NoPhantomBacklog, [Next]_vars, NEW fd \in Fd
             PROVE  queue_size_by_sockfd'[fd] <= Cardinality(QueuedFor(fd)')
  BY DEF NoPhantomBacklog
<1> DEFINE count == Cardinality(At(payloads, fd))
           Goal == queue_size_by_sockfd'[fd] <= Cardinality(At(payloads', fd))
<1>0. /\ queue_size_by_sockfd \in [Fd -> Int] /\ payloads \in Seq(Payload)
      /\ count \in Nat /\ queue_size_by_sockfd[fd] <= count
  <2>1. queue_size_by_sockfd \in [Fd -> Int] /\ payloads \in Seq(Payload)
    BY DEF TypeInv, TypeOK
  <2>2. count \in Nat
    BY <2>1, AtFinite
  <2>3. QueuedFor(fd) = At(payloads, fd)
    BY DEF QueuedFor, At
  <2> QED
    BY <2>1, <2>2, <2>3 DEF NoPhantomBacklog
<1>g. SUFFICES Goal
  BY DEF QueuedFor, At
<1>a. ASSUME UNCHANGED payloads,
             \/ queue_size_by_sockfd' = queue_size_by_sockfd
             \/ \E f \in Fd : queue_size_by_sockfd' = [queue_size_by_sockfd EXCEPT ![f] = 0]
      PROVE  Goal
  BY <1>a, <1>0
<1>b. ASSUME NEW p \in Publishers, EnqueueBegins(p) PROVE Goal
  BY <1>b, <1>a DEF EnqueueBegins
<1>1. ASSUME NEW p \in Publishers, SetBuffer(p) PROVE Goal
  BY <1>1, <1>a DEF SetBuffer
<1>2. ASSUME NEW p \in Publishers, Enqueue(p), ~SetBuffer(p) PROVE Goal
  <2>1. CASE Push(p)
    <3> DEFINE e == [fd |-> target[p], picture |-> picture[p]]
    <3>1. e \in Payload /\ target[p] \in Fd
      BY <2>1 DEF Push, Payload, TypeInv, InHand
    <3>2. /\ payloads' = Append(payloads, e)
          /\ queue_size_by_sockfd' = [queue_size_by_sockfd EXCEPT ![target[p]] = @ + 1]
      BY <2>1 DEF Push, Increase
    <3>3. Cardinality(At(payloads', fd)) = IF target[p] = fd THEN count + 1 ELSE count
      BY <3>1, <3>2, <1>0, AtAppend
    <3>4. queue_size_by_sockfd'[fd] = IF target[p] = fd THEN queue_size_by_sockfd[fd] + 1
                                      ELSE queue_size_by_sockfd[fd]
      BY <3>1, <3>2, <1>0
    <3> QED
      BY <3>3, <3>4, <1>0
  <2>2. CASE ~Push(p)
    BY <1>2, <2>2, <1>a DEF Enqueue, GetClients, NextClient, NotifyOne, EnqueueReturns
  <2> QED
    BY <2>1, <2>2
<1>3. ASSUME NEW w \in Workers, Worker(w) \/ SpuriousWakeup(w) PROVE Goal
  <2>1. CASE WorkerPop(w) /\ ~end_publisher
    <3>1. /\ payloads # <<>> /\ payloads' = Tail(payloads)
          /\ queue_size_by_sockfd' = [queue_size_by_sockfd EXCEPT ![Head(payloads).fd] = @ - 1]
      BY <2>1 DEF WorkerPop, Decrease
    <3>2. Head(payloads).fd \in Fd
      <4>1. Head(payloads) \in Payload
        BY <3>1, <1>0
      <4> QED
        BY <4>1 DEF Payload
    <3>3. Cardinality(At(payloads', fd)) = IF Head(payloads).fd = fd THEN count - 1 ELSE count
      BY <3>1, <1>0, AtTail
    <3>4. queue_size_by_sockfd'[fd] =
            IF Head(payloads).fd = fd THEN queue_size_by_sockfd[fd] - 1
            ELSE queue_size_by_sockfd[fd]
      BY <3>1, <3>2, <1>0
    <3> QED
      BY <3>3, <3>4, <1>0
  <2>2. CASE ~WorkerPop(w) \/ end_publisher
    BY <1>3, <2>2, <1>a
       DEF Worker, WorkerTop, WorkerTest, WorkerSleep, WorkerPop, WorkerRead, WorkerPoll,
           WorkerSend, SpuriousWakeup
  <2> QED
    BY <2>1, <2>2
<1>4. ASSUME NEW f \in Fd, Clients(f) PROVE Goal
  BY <1>4, <1>a DEF Clients, Accept, Admit, AddClient, JoinAnother, PeerResets, RemoveClient, CloseSocket
<1>5. CASE Stop \/ NotifyAll
  BY <1>5, <1>a DEF Stop, NotifyAll
<1>6. CASE JoinWorkers
  <2>1. queue_size_by_sockfd'[fd] = 0 /\ payloads' \in Seq(Payload)
    BY <1>6 DEF JoinWorkers
  <2> QED
    BY <2>1, AtFinite
<1>7. CASE UNCHANGED vars
  BY <1>7, <1>a DEF vars
<1> QED
  BY <1>b, <1>1, <1>2, <1>3, <1>4, <1>5, <1>6, <1>7 DEF Next, Stopping

(* No client is refused pictures for a backlog it does not have, for any    *)
(* number of clients, workers and publishing threads.                       *)
THEOREM BacklogsAreReal == Spec => []NoPhantomBacklog
  BY TypeInit, TypeStep, BacklogInit, BacklogStep, PTL DEF Spec

(* A publishing thread that is not in its loop has nobody left to visit.    *)
TodoInv == \A p \in Publishers : enqueueAt[p] \in {"idle", "set", "clients"} => todo[p] = {}

LEMMA TodoStep == TypeInv /\ TodoInv /\ [Next]_vars => TodoInv'
<1> SUFFICES ASSUME TypeInv, TodoInv, [Next]_vars PROVE TodoInv'
  OBVIOUS
<1>0. TypeOK
  BY DEF TypeInv
<1>b. ASSUME NEW p \in Publishers, EnqueueBegins(p) PROVE TodoInv'
  BY <1>b, <1>0 DEF EnqueueBegins, TodoInv, TypeOK
<1>1. ASSUME NEW p \in Publishers, SetBuffer(p) PROVE TodoInv'
  BY <1>1, <1>0 DEF SetBuffer, TodoInv, TypeOK
<1>2. ASSUME NEW p \in Publishers, Enqueue(p), ~SetBuffer(p) PROVE TodoInv'
  <2>1. CASE GetClients(p)
    BY <2>1, <1>0 DEF GetClients, TodoInv, TypeOK
  <2>2. CASE NextClient(p)
    <3>1. /\ enqueueAt[p] = "loop"
          /\ \A q \in Publishers : q # p => todo'[q] = todo[q] /\ enqueueAt'[q] = enqueueAt[q]
          /\ enqueueAt'[p] \in {"loop", "push"}
      BY <2>2, <1>0 DEF NextClient, TypeOK
    <3> QED
      BY <3>1 DEF TodoInv
  <2>3. CASE Push(p) \/ NotifyOne(p) \/ EnqueueReturns(p)
    BY <2>3, <1>0 DEF Push, NotifyOne, EnqueueReturns, TodoInv, TypeOK
  <2> QED
    BY <1>2, <2>1, <2>2, <2>3 DEF Enqueue
<1>3. ASSUME UNCHANGED enqueueVars PROVE TodoInv'
  BY <1>3 DEF TodoInv
<1>4. ASSUME NEW w \in Workers, Worker(w) \/ SpuriousWakeup(w) PROVE TodoInv'
  BY <1>4, <1>3 DEF Worker, WorkerTop, WorkerTest, WorkerSleep, WorkerPop, WorkerRead, WorkerPoll,
                    WorkerSend, SpuriousWakeup
<1>5. ASSUME NEW fd \in Fd, Clients(fd) PROVE TodoInv'
  BY <1>5, <1>3 DEF Clients, Accept, Admit, AddClient, JoinAnother, PeerResets, RemoveClient, CloseSocket
<1>6. CASE Stopping \/ UNCHANGED vars
  BY <1>6, <1>3 DEF Stopping, Stop, NotifyAll, JoinWorkers, vars
<1> QED
  BY <1>b, <1>1, <1>2, <1>4, <1>5, <1>6 DEF Next

(* A full counter stands for at least one payload, since the limit is not   *)
(* negative: nobody is passed over without one that is still to be served.  *)
LEMMA PassedOver ==
    TypeInv /\ NoPhantomBacklog /\ TodoInv /\ [Next]_vars =>
      [\A p \in Publishers : \A fd \in todo[p] \ todo'[p] :
         enqueueAt'[p] # "push" => QueuedFor(fd) # {}]_vars
<1> SUFFICES ASSUME TypeInv, NoPhantomBacklog, TodoInv, Next,
                    NEW p \in Publishers, NEW fd \in todo[p] \ todo'[p], enqueueAt'[p] # "push"
             PROVE  QueuedFor(fd) # {}
  OBVIOUS
<1>0. TypeOK
  BY DEF TypeInv
<1>1. NextClient(p)
  <2>1. ASSUME NEW q \in Publishers, EnqueueBegins(q) \/ SetBuffer(q) PROVE FALSE
    BY <2>1 DEF EnqueueBegins, SetBuffer
  <2>2. ASSUME NEW q \in Publishers, Enqueue(q), ~SetBuffer(q) PROVE NextClient(p)
    <3>1. CASE GetClients(q)
      <4>1. todo' = [todo EXCEPT ![q] = client_by_sockfd] /\ todo[q] = {}
        BY <3>1 DEF GetClients, TodoInv
      <4> QED
        BY <4>1, <1>0 DEF TypeOK
    <3>2. CASE NextClient(q)
      <4>1. \A r \in Publishers : r # q => todo'[r] = todo[r]
        BY <3>2, <1>0 DEF NextClient, TypeOK
      <4> QED
        BY <3>2, <4>1
    <3>3. CASE Push(q) \/ NotifyOne(q) \/ EnqueueReturns(q)
      BY <3>3 DEF Push, NotifyOne, EnqueueReturns
    <3> QED
      BY <2>2, <3>1, <3>2, <3>3 DEF Enqueue
  <2>3. ASSUME NEW w \in Workers, Worker(w) \/ SpuriousWakeup(w) PROVE FALSE
    BY <2>3 DEF Worker, WorkerTop, WorkerTest, WorkerSleep, WorkerPop, WorkerRead, WorkerPoll,
                WorkerSend, SpuriousWakeup
  <2>4. ASSUME NEW f \in Fd, Clients(f) PROVE FALSE
    BY <2>4 DEF Clients, Accept, Admit, AddClient, JoinAnother, PeerResets, RemoveClient, CloseSocket
  <2>5. CASE Stopping
    BY <2>5 DEF Stopping, Stop, NotifyAll, JoinWorkers
  <2> QED
    BY <2>1, <2>2, <2>3, <2>4, <2>5 DEF Next
<1>2. ~HasRoom(fd) /\ fd \in Fd
  <2>1. PICK f \in todo[p] :
          /\ todo' = [todo EXCEPT ![p] = @ \ {f}]
          /\ HasRoom(f) => enqueueAt' = [enqueueAt EXCEPT ![p] = "push"]
    BY <1>1 DEF NextClient
  <2>2. f = fd /\ fd \in Fd
    BY <2>1, <1>0 DEF TypeOK
  <2> QED
    BY <2>1, <2>2, <1>0 DEF TypeOK
<1>3. queue_size_by_sockfd[fd] \in Int /\ queue_size_by_sockfd[fd] > 0
  BY <1>0, <1>2, PublisherAssumption DEF HasRoom, TypeOK
<1>4. queue_size_by_sockfd[fd] <= Cardinality(QueuedFor(fd))
  BY <1>2 DEF NoPhantomBacklog
<1>5. Cardinality(QueuedFor(fd)) # 0
  <2> SUFFICES ASSUME Cardinality(QueuedFor(fd)) = 0 PROVE FALSE
    OBVIOUS
  <2> QED
    BY <1>3, <1>4
<1> QED
  BY <1>5, FS_EmptySet

(* For any limit and any number of publishing threads, a client is passed   *)
(* over only with a payload in the queue that will be answered with this    *)
(* picture or a later one.                                                  *)
THEOREM NobodyMissesAPicture == Spec => PassedOverIsQueued
<1>1. Init => TodoInv
  BY DEF Init, TodoInv
<1> QED
  BY <1>1, TypeInit, TypeStep, BacklogInit, BacklogStep, TodoStep, PassedOver, PTL
     DEF Spec, PassedOverIsQueued

-----------------------------------------------------------------------------
(* cv_mtx_ is held by the worker that has tested its predicate; workers end *)
(* only with the process or with end_publisher.                             *)

HoldsMutex == \A w \in Workers : workerAt[w] \in {"tested", "pop"} => cv_mtx = w

Ended ==
    /\ \A w \in Workers : workerAt[w] \in {"threw", "failed"} => ~running
    /\ \A w \in Workers : workerAt[w] = "returned" => end_publisher
    /\ stopAt # "idle" => end_publisher
    /\ stopAt = "terminated" => \A w \in Workers : workerAt[w] = "returned"

WorkerInv == HoldsMutex /\ Ended

LEMMA WorkerInit == Init => WorkerInv
  BY DEF Init, WorkerInv, HoldsMutex, Ended

(* One worker moves, to a place it may be at, and end_publisher, stop() and *)
(* the process stay as they are.                                            *)
Moves(w) ==
    /\ \A v \in Workers : v # w => workerAt'[v] = workerAt[v]
    /\ workerAt[w] # "returned"
    /\ workerAt'[w] \notin {"threw", "failed"}
    /\ workerAt'[w] = "returned" => end_publisher
    /\ \/ cv_mtx' = cv_mtx /\ workerAt'[w] \notin {"tested", "pop"}
       \/ cv_mtx = Unlocked /\ cv_mtx' = w
       \/ cv_mtx = w /\ workerAt'[w] \notin {"tested", "pop"}
    /\ UNCHANGED <<end_publisher, stopAt, running>>

LEMMA OneWorkerMoves ==
    ASSUME WorkerInv, NEW w \in Workers, Moves(w)
    PROVE  WorkerInv'
<1>1. \A v \in Workers : v # w => workerAt'[v] = workerAt[v]
  BY DEF Moves
<1>2. HoldsMutex'
  BY <1>1, PublisherAssumption DEF WorkerInv, HoldsMutex, Moves
<1>3. stopAt # "terminated"
  BY DEF WorkerInv, Ended, Moves
<1>4. Ended'
  <2>1. \A v \in Workers : workerAt'[v] \in {"threw", "failed"} => ~running'
    BY <1>1, Zenon DEF WorkerInv, Ended, Moves
  <2>2. \A v \in Workers : workerAt'[v] = "returned" => end_publisher'
    BY <1>1, Zenon DEF WorkerInv, Ended, Moves
  <2>3. stopAt' # "idle" => end_publisher'
    BY Zenon DEF WorkerInv, Ended, Moves
  <2> QED
    BY <1>3, <2>1, <2>2, <2>3 DEF Ended, Moves
<1> QED
  BY <1>2, <1>4 DEF WorkerInv

(* Every action keeps the mutex with its holder.                            *)
LEMMA WorkerStep == TypeInv /\ WorkerInv /\ [Next]_vars => WorkerInv'
<1> SUFFICES ASSUME TypeInv, WorkerInv, [Next]_vars PROVE WorkerInv'
  OBVIOUS
<1>0. TypeOK
  BY DEF TypeInv
<1>a. ASSUME UNCHANGED <<workerAt, cv_mtx, end_publisher, stopAt, running>> PROVE WorkerInv'
  BY <1>a DEF WorkerInv, HoldsMutex, Ended
<1>b. ASSUME NEW p \in Publishers, EnqueueBegins(p) PROVE WorkerInv'
  BY <1>b, <1>a DEF EnqueueBegins
<1>1. ASSUME NEW p \in Publishers, SetBuffer(p) PROVE WorkerInv'
  BY <1>1, <1>a DEF SetBuffer
<1>2. ASSUME NEW p \in Publishers, Enqueue(p), ~SetBuffer(p) PROVE WorkerInv'
  <2>1. CASE NotifyOne(p)
    <3>1. CASE workerAt' = workerAt
      BY <2>1, <3>1, <1>a DEF NotifyOne
    <3>2. CASE \E w \in Workers : workerAt[w] = "asleep"
                                  /\ workerAt' = [workerAt EXCEPT ![w] = "lock"]
      <4>1. PICK w \in Workers : workerAt[w] = "asleep"
                                 /\ workerAt' = [workerAt EXCEPT ![w] = "lock"]
        BY <3>2
      <4> QED
        <5>1. Moves(w)
          BY <2>1, <4>1, <1>0 DEF NotifyOne, Moves, TypeOK
        <5> QED
          BY <5>1, OneWorkerMoves
    <3> QED
      BY <2>1, <3>1, <3>2 DEF NotifyOne
  <2> QED
    BY <1>2, <2>1, <1>a DEF Enqueue, GetClients, NextClient, Push, EnqueueReturns
<1>3. ASSUME NEW w \in Workers, Worker(w) \/ SpuriousWakeup(w) PROVE WorkerInv'
  <2>1. CASE WorkerTop(w)
    <3>1. Moves(w)
      BY <2>1, <1>0 DEF WorkerTop, Moves, TypeOK
    <3> QED
      BY <3>1, OneWorkerMoves
  <2>2. CASE WorkerTest(w)
    <3>1. Moves(w)
      BY <2>2, <1>0 DEF WorkerTest, CvFree, Moves, TypeOK
    <3> QED
      BY <3>1, OneWorkerMoves
  <2>3. CASE WorkerSleep(w)
    <3>1. cv_mtx = w
      BY <2>3 DEF WorkerSleep, WorkerInv, HoldsMutex
    <3> QED
      <4>1. Moves(w)
        BY <2>3, <3>1, <1>0 DEF WorkerSleep, Moves, TypeOK
      <4> QED
        BY <4>1, OneWorkerMoves
  <2>4. CASE WorkerPop(w)
    <3>1. cv_mtx = w
      BY <2>4 DEF WorkerPop, WorkerInv, HoldsMutex
    <3>2. CASE end_publisher
      <4>1. Moves(w)
        BY <2>4, <3>1, <3>2, <1>0 DEF WorkerPop, Moves, TypeOK
      <4> QED
        BY <4>1, OneWorkerMoves
    <3>3. CASE ~end_publisher
      <4>1. Moves(w)
        BY <2>4, <3>1, <3>3, <1>0 DEF WorkerPop, Moves, TypeOK
      <4> QED
        BY <4>1, OneWorkerMoves
    <3> QED
      BY <3>2, <3>3
  <2>5. CASE WorkerRead(w)
    <3>1. Moves(w)
      BY <2>5, <1>0 DEF WorkerRead, Moves, TypeOK
    <3> QED
      BY <3>1, OneWorkerMoves
  <2>6. CASE WorkerPoll(w)
    <3>1. CASE /\ running' = FALSE /\ UNCHANGED <<payload, chunk>>
               /\ \E at \in {"threw", "failed"} : workerAt' = [workerAt EXCEPT ![w] = at]
      <4>1. ~running'
        BY <3>1
      <4>2. UNCHANGED <<cv_mtx, end_publisher, stopAt>>
        BY <2>6 DEF WorkerPoll
      <4>3. workerAt'[w] \in {"threw", "failed"} /\ \A v \in Workers : v # w => workerAt'[v] = workerAt[v]
        BY <3>1, <1>0 DEF TypeOK
      <4>4. workerAt[w] = "poll"
        BY <2>6 DEF WorkerPoll
      <4>5. HoldsMutex'
        BY <4>2, <4>3 DEF WorkerInv, HoldsMutex
      <4>6. \A v \in Workers : workerAt'[v] = "returned" => end_publisher'
        BY <4>2, <4>3 DEF WorkerInv, Ended
      <4>7. /\ stopAt' # "idle" => end_publisher'
            /\ stopAt' # "terminated"
        BY <4>2, <4>4 DEF WorkerInv, Ended
      <4> QED
        BY <4>1, <4>5, <4>6, <4>7 DEF WorkerInv, Ended
    <3>2. CASE UNCHANGED running /\ \E at \in {"top", "send"} : workerAt' = [workerAt EXCEPT ![w] = at]
      <4>1. UNCHANGED <<cv_mtx, end_publisher, stopAt>> /\ workerAt[w] = "poll"
        BY <2>6 DEF WorkerPoll
      <4>2. Moves(w)
        BY <3>2, <4>1, <1>0 DEF Moves, TypeOK
      <4> QED
        BY <4>2, OneWorkerMoves
    <3> QED
      BY <2>6, <3>1, <3>2 DEF WorkerPoll, NextRound
  <2>7. CASE WorkerSend(w)
    <3>1. Moves(w)
      BY <2>7, <1>0 DEF WorkerSend, NextRound, Moves, TypeOK
    <3> QED
      BY <3>1, OneWorkerMoves
  <2>8. CASE SpuriousWakeup(w)
    <3>1. Moves(w)
      BY <2>8, <1>0 DEF SpuriousWakeup, Moves, TypeOK
    <3> QED
      BY <3>1, OneWorkerMoves
  <2> QED
    BY <1>3, <2>1, <2>2, <2>3, <2>4, <2>5, <2>6, <2>7, <2>8 DEF Worker
<1>4. ASSUME NEW fd \in Fd, Clients(fd) PROVE WorkerInv'
  BY <1>4, <1>a DEF Clients, Accept, Admit, AddClient, JoinAnother, PeerResets, RemoveClient, CloseSocket
<1>5. CASE Stop
  BY <1>5 DEF Stop, WorkerInv, HoldsMutex, Ended
<1>6. CASE NotifyAll
  <2>1. \A w \in Workers : workerAt'[w] = workerAt[w] \/ workerAt'[w] = "lock"
    BY <1>6 DEF NotifyAll
  <2>2. /\ stopAt = "notify" /\ stopAt' = "join"
        /\ UNCHANGED <<cv_mtx, end_publisher, running>>
    BY <1>6 DEF NotifyAll
  <2> QED
    BY <2>1, <2>2 DEF WorkerInv, HoldsMutex, Ended
<1>7. CASE JoinWorkers
  BY <1>7 DEF JoinWorkers, WorkerInv, HoldsMutex, Ended
<1>8. CASE UNCHANGED vars
  BY <1>8, <1>a DEF vars
<1> QED
  BY <1>b, <1>1, <1>2, <1>3, <1>4, <1>5, <1>6, <1>7, <1>8 DEF Next, Stopping

-----------------------------------------------------------------------------
(* A worker that is about to pop holds cv_mtx_, and nobody else pops.       *)

LEMMA PopStep == TypeInv /\ WorkerInv /\ PopNonEmpty /\ [Next]_vars => PopNonEmpty'
<1> SUFFICES ASSUME TypeInv, WorkerInv, PopNonEmpty, [Next]_vars PROVE PopNonEmpty'
  OBVIOUS
<1>0. TypeOK
  BY DEF TypeInv
<1>a. ASSUME UNCHANGED <<workerAt, end_publisher, payloads>> PROVE PopNonEmpty'
  BY <1>a DEF PopNonEmpty
<1>b. ASSUME NEW p \in Publishers, EnqueueBegins(p) PROVE PopNonEmpty'
  BY <1>b, <1>a DEF EnqueueBegins
<1>1. ASSUME NEW p \in Publishers, SetBuffer(p) PROVE PopNonEmpty'
  BY <1>1, <1>a DEF SetBuffer
<1>2. ASSUME NEW p \in Publishers, Enqueue(p), ~SetBuffer(p) PROVE PopNonEmpty'
  <2>1. CASE Push(p)
    <3>1. payloads' # <<>>
      BY <2>1, <1>0 DEF Push, TypeOK
    <3> QED
      BY <3>1 DEF PopNonEmpty
  <2>2. CASE NotifyOne(p)
    <3>1. \A w \in Workers : workerAt'[w] = "pop" => workerAt[w] = "pop"
      BY <2>2, <1>0 DEF NotifyOne, TypeOK
    <3> QED
      BY <2>2, <3>1 DEF NotifyOne, PopNonEmpty
  <2> QED
    BY <1>2, <2>1, <2>2, <1>a DEF Enqueue, GetClients, NextClient, EnqueueReturns
<1>3. ASSUME NEW w \in Workers, Worker(w) \/ SpuriousWakeup(w) PROVE PopNonEmpty'
  <2>1. CASE WorkerTest(w)
    <3>1. \A v \in Workers : v # w => workerAt'[v] = workerAt[v]
      BY <2>1, <1>0 DEF WorkerTest, TypeOK
    <3>2. workerAt'[w] = "pop" => end_publisher \/ payloads # <<>>
      BY <2>1, <1>0 DEF WorkerTest, TypeOK
    <3>3. UNCHANGED <<end_publisher, payloads>>
      BY <2>1 DEF WorkerTest
    <3> QED
      BY <3>1, <3>2, <3>3 DEF PopNonEmpty
  <2>2. CASE WorkerPop(w)
    <3>1. workerAt'[w] # "pop"
      BY <2>2, <1>0 DEF WorkerPop, TypeOK
    <3>2. \A v \in Workers : v # w => workerAt'[v] # "pop"
      BY <2>2, <1>0 DEF WorkerPop, WorkerInv, HoldsMutex, TypeOK
    <3> QED
      BY <3>1, <3>2 DEF PopNonEmpty
  <2>3. CASE ~WorkerTest(w) /\ ~WorkerPop(w)
    <3>1. UNCHANGED <<end_publisher, payloads>>
      BY <1>3, <2>3 DEF Worker, WorkerTop, WorkerSleep, WorkerRead, WorkerPoll,
                        WorkerSend, SpuriousWakeup
    <3>2. \A v \in Workers : workerAt'[v] = "pop" => workerAt[v] = "pop"
      BY <1>3, <2>3, <1>0 DEF Worker, WorkerTop, WorkerSleep, WorkerRead, WorkerPoll,
                              WorkerSend, SpuriousWakeup, NextRound, TypeOK
    <3> QED
      BY <3>1, <3>2 DEF PopNonEmpty
  <2> QED
    BY <2>1, <2>2, <2>3
<1>4. ASSUME NEW fd \in Fd, Clients(fd) PROVE PopNonEmpty'
  BY <1>4, <1>a DEF Clients, Accept, Admit, AddClient, JoinAnother, PeerResets, RemoveClient, CloseSocket
<1>5. CASE Stop
  BY <1>5 DEF Stop, PopNonEmpty
<1>6. CASE NotifyAll \/ JoinWorkers
  <2>1. end_publisher'
    BY <1>6 DEF NotifyAll, JoinWorkers, WorkerInv, Ended
  <2> QED
    BY <2>1 DEF PopNonEmpty
<1>7. CASE UNCHANGED vars
  BY <1>7, <1>a DEF vars
<1> QED
  BY <1>b, <1>1, <1>2, <1>3, <1>4, <1>5, <1>6, <1>7 DEF Next, Stopping

(* No worker takes the front of an empty queue, with any number of workers  *)
(* and publishing threads.                                                  *)
THEOREM PopsAreLegal == Spec => []PopNonEmpty
<1>1. Init => PopNonEmpty
  BY DEF Init, PopNonEmpty
<1> QED
  BY <1>1, TypeInit, TypeStep, WorkerInit, WorkerStep, PopStep, PTL DEF Spec

-----------------------------------------------------------------------------
(* No stall.  If no worker is awake, at most one has tested and not yet     *)
(* slept, so that a notification finds another one asleep.                  *)

LEMMA NotifiedWakes ==
    ASSUME TypeInv, WorkerInv, NEW p \in Publishers, NotifyOne(p),
           running, ~end_publisher,
           \E v, w \in Workers : v # w
    PROVE  \E w \in Workers : IsAwake(w)'
<1>1. CASE \E w \in Workers : workerAt[w] = "asleep"
  <2>1. PICK w \in Workers : workerAt' = [workerAt EXCEPT ![w] = "lock"]
    BY <1>1 DEF NotifyOne
  <2> QED
    BY <2>1 DEF IsAwake, TypeInv, TypeOK
<1>2. CASE \A w \in Workers : workerAt[w] # "asleep"
  <2>1. workerAt' = workerAt
    BY <1>2 DEF NotifyOne
  <2>2. PICK w \in Workers : workerAt[w] # "tested"
    BY DEF WorkerInv, HoldsMutex
  <2>3. IsAwake(w)
    BY <1>2, <2>2 DEF IsAwake, WorkerInv, Ended
  <2> QED
    BY <2>1, <2>3 DEF IsAwake
<1> QED
  BY <1>1, <1>2

LEMMA StallStep ==
    ASSUME \E v, w \in Workers : v # w
    PROVE  TypeInv /\ WorkerInv /\ NoStall /\ [Next]_vars => NoStall'
<1> SUFFICES ASSUME TypeInv, WorkerInv, NoStall, [Next]_vars,
                    running', ~end_publisher', payloads' # <<>>
             PROVE  \/ \E p \in Publishers : enqueueAt'[p] = "notify"
                    \/ \E w \in Workers : IsAwake(w)'
  BY DEF NoStall
<1> DEFINE Goal == \/ \E p \in Publishers : enqueueAt'[p] = "notify"
                   \/ \E w \in Workers : IsAwake(w)'
<1>0. TypeOK
  BY DEF TypeInv
<1>a. ASSUME UNCHANGED <<workerAt, enqueueAt, end_publisher, payloads, running>> PROVE Goal
  BY <1>a DEF NoStall, IsAwake
<1>b. ASSUME NEW p \in Publishers, EnqueueBegins(p) PROVE Goal
  <2>1. \A q \in Publishers : enqueueAt[q] = "notify" => enqueueAt'[q] = "notify"
    BY <1>b, <1>0 DEF EnqueueBegins, TypeOK
  <2> QED
    BY <1>b, <2>1 DEF EnqueueBegins, NoStall, IsAwake
<1>1. ASSUME NEW p \in Publishers, SetBuffer(p) PROVE Goal
  <2>1. \A q \in Publishers : enqueueAt[q] = "notify" => enqueueAt'[q] = "notify"
    BY <1>1, <1>0 DEF SetBuffer, TypeOK
  <2> QED
    BY <1>1, <2>1 DEF SetBuffer, NoStall, IsAwake
<1>2. ASSUME NEW p \in Publishers, Enqueue(p), ~SetBuffer(p), running PROVE Goal
  <2>1. CASE Push(p)
    BY <2>1, <1>0 DEF Push, TypeOK
  <2>2. CASE NotifyOne(p)
    <3>1. ~end_publisher
      BY <2>2 DEF NotifyOne
    <3> QED
      BY <1>2, <2>2, <3>1, NotifiedWakes
  <2>3. CASE GetClients(p) \/ NextClient(p) \/ EnqueueReturns(p)
    <3>1. \A q \in Publishers : enqueueAt[q] = "notify" => enqueueAt'[q] = "notify"
      BY <2>3, <1>0 DEF GetClients, NextClient, EnqueueReturns, TypeOK
    <3>2. UNCHANGED <<workerAt, end_publisher, payloads, running>>
      BY <2>3 DEF GetClients, NextClient, EnqueueReturns
    <3> QED
      BY <3>1, <3>2 DEF NoStall, IsAwake
  <2> QED
    BY <1>2, <2>1, <2>2, <2>3 DEF Enqueue
<1>3. ASSUME NEW w \in Workers, Worker(w) \/ SpuriousWakeup(w), running PROVE Goal
  <2>1. CASE workerAt'[w] \notin {"tested", "asleep", "threw", "failed", "returned"}
    BY <2>1 DEF IsAwake
  <2>2. CASE workerAt'[w] = "returned"
    BY <1>3, <2>2, <1>0 DEF Worker, WorkerTop, WorkerTest, WorkerSleep, WorkerPop, WorkerRead,
                       WorkerPoll, WorkerSend, SpuriousWakeup, NextRound, TypeOK
  <2>3. CASE workerAt'[w] \in {"threw", "failed"}
    <3>1. WorkerInv'
      BY WorkerStep
    <3> QED
      BY <2>3, <3>1 DEF WorkerInv, Ended
  <2>4. CASE workerAt'[w] = "tested"
    <3>1. WorkerTest(w)
      BY <1>3, <2>4, <1>0 DEF Worker, WorkerTop, WorkerSleep, WorkerPop, WorkerRead,
                         WorkerPoll, WorkerSend, SpuriousWakeup, NextRound, TypeOK
    <3> QED
      BY <2>4, <3>1, <1>0 DEF WorkerTest, TypeOK
  <2>5. CASE workerAt'[w] = "asleep"
    <3>1. WorkerSleep(w)
      BY <1>3, <2>5, <1>0 DEF Worker, WorkerTop, WorkerTest, WorkerPop, WorkerRead,
                         WorkerPoll, WorkerSend, SpuriousWakeup, NextRound, TypeOK
    <3>2. ~IsAwake(w) /\ \A v \in Workers : v # w => workerAt'[v] = workerAt[v]
      BY <3>1, <1>0 DEF WorkerSleep, IsAwake, TypeOK
    <3>3. UNCHANGED <<enqueueAt, end_publisher, payloads, running>>
      BY <3>1 DEF WorkerSleep
    <3> QED
      BY <3>2, <3>3 DEF NoStall, IsAwake
  <2> QED
    BY <2>1, <2>2, <2>3, <2>4, <2>5
<1>4. ASSUME NEW fd \in Fd, Clients(fd) PROVE Goal
  BY <1>4, <1>a DEF Clients, Accept, Admit, AddClient, JoinAnother, PeerResets, RemoveClient, CloseSocket
<1>5. CASE Stopping
  BY <1>5 DEF Stopping, Stop, NotifyAll, JoinWorkers, WorkerInv, Ended
<1>6. CASE UNCHANGED vars
  BY <1>6, <1>a DEF vars
<1> QED
  BY <1>b, <1>1, <1>2, <1>3, <1>4, <1>5, <1>6 DEF Next

(* With two or more workers no payload is left in the queue while every     *)
(* worker sleeps: the notification that is sent without the mutex and may   *)
(* be lost on one worker always finds another.                              *)
THEOREM NeverStalls ==
    ASSUME \E v, w \in Workers : v # w
    PROVE  Spec => []NoStall
<1>1. Init => NoStall
  BY DEF Init, NoStall
<1>2. TypeInv /\ WorkerInv /\ NoStall /\ [Next]_vars => NoStall'
  BY StallStep
<1> QED
  BY <1>1, <1>2, TypeInit, TypeStep, WorkerInit, WorkerStep, PTL DEF Spec

-----------------------------------------------------------------------------
(* Freshness.  Every picture that is waited for has been stored: the one a  *)
(* publishing thread has in hand, those of the payloads in the queue, and   *)
(* the one a worker has taken and not yet read.  stop() empties the topic,  *)
(* when no worker is left to take a payload.                                *)

Stored ==
    stopAt # "terminated" =>
      /\ \A p \in Publishers : enqueueAt[p] \notin {"idle", "set"} => picture[p] <= buffer
      /\ \A i \in DOMAIN payloads : payloads[i].picture <= buffer

FreshInv ==
    /\ Stored
    /\ \A w \in Workers : workerAt[w] = "read" => payload[w].picture <= buffer
    /\ FreshPicture

(* Where buffer does not shrink and a thread neither takes a picture in     *)
(* hand nor a payload, nothing becomes stale.                               *)
Settled ==
    /\ stopAt' = stopAt
    /\ buffer <= buffer'
    /\ \A p \in Publishers : enqueueAt'[p] \notin {"idle", "set"} =>
         enqueueAt[p] \notin {"idle", "set"} /\ picture'[p] = picture[p]
    /\ payloads' = payloads
    /\ \A w \in Workers :
         /\ workerAt'[w] = "read" =>
              workerAt[w] = "read" /\ payload'[w] = payload[w]
         /\ workerAt'[w] \in {"poll", "send"} =>
              workerAt[w] \in {"poll", "send"} /\ UNCHANGED <<payload[w], chunk[w]>>

LEMMA SettledKeeps ==
    ASSUME TypeInv, TypeInv', FreshInv, Settled
    PROVE  FreshInv'
<1>1. buffer \in Nat /\ buffer' \in Nat /\ buffer <= buffer'
  BY DEF TypeInv, TypeOK, Settled
<1>2. \A p \in Publishers : enqueueAt'[p] \notin {"idle", "set"} /\ stopAt' # "terminated" =>
        picture'[p] <= buffer'
  <2> SUFFICES ASSUME NEW p \in Publishers, enqueueAt'[p] \notin {"idle", "set"}, stopAt' # "terminated"
               PROVE  picture'[p] <= buffer'
    OBVIOUS
  <2>1. picture'[p] = picture[p] /\ picture[p] <= buffer /\ picture[p] \in Nat
    BY DEF Settled, FreshInv, Stored, TypeInv, TypeOK
  <2> QED
    BY <1>1, <2>1
<1>3. stopAt' # "terminated" => \A i \in DOMAIN payloads' : payloads'[i].picture <= buffer'
  <2> SUFFICES ASSUME stopAt' # "terminated", NEW i \in DOMAIN payloads
               PROVE  payloads[i].picture <= buffer'
    BY DEF Settled
  <2>1. payloads[i] \in Payload
    BY DEF TypeInv, TypeOK
  <2>2. payloads[i].picture \in Nat /\ payloads[i].picture <= buffer
    BY <2>1 DEF Payload, Settled, FreshInv, Stored
  <2> QED
    BY <1>1, <2>2
<1>4. \A w \in Workers : workerAt'[w] = "read" => payload'[w].picture <= buffer'
  <2> SUFFICES ASSUME NEW w \in Workers, workerAt'[w] = "read"
               PROVE  payload'[w].picture <= buffer'
    OBVIOUS
  <2>1. workerAt[w] = "read" /\ payload'[w] = payload[w]
    BY DEF Settled
  <2>2. payload[w] \in Payload /\ payload[w].picture <= buffer
    BY <2>1 DEF TypeInv, Popped, FreshInv
  <2> QED
    BY <1>1, <2>1, <2>2 DEF Payload
<1>5. FreshPicture'
  BY DEF Settled, FreshInv, FreshPicture
<1> QED
  BY <1>2, <1>3, <1>4, <1>5 DEF FreshInv, Stored

LEMMA FreshStep == TypeInv /\ WorkerInv /\ FreshInv /\ [Next]_vars => FreshInv'
<1> SUFFICES ASSUME TypeInv, WorkerInv, FreshInv, [Next]_vars PROVE FreshInv'
  OBVIOUS
<1>0. TypeOK /\ TypeInv'
  BY TypeStep DEF TypeInv
<1>b. ASSUME NEW p \in Publishers, EnqueueBegins(p) PROVE FreshInv'
  <2>1. Settled
    BY <1>b, <1>0 DEF EnqueueBegins, Settled, TypeOK
  <2> QED
    BY <1>0, <2>1, SettledKeeps
<1>1. ASSUME NEW p \in Publishers, SetBuffer(p) PROVE FreshInv'
  <2>1. buffer' = buffer + 1 /\ picture'[p] = buffer' /\ buffer \in Nat
    BY <1>1, <1>0 DEF SetBuffer, TypeOK
  <2>2. \A q \in Publishers : q # p => picture'[q] = picture[q] /\ enqueueAt'[q] = enqueueAt[q]
    BY <1>1, <1>0 DEF SetBuffer, TypeOK
  <2>3. stopAt' # "terminated" =>
          \A q \in Publishers : enqueueAt'[q] \notin {"idle", "set"} => picture'[q] <= buffer'
    <3> SUFFICES ASSUME stopAt' # "terminated", NEW q \in Publishers, enqueueAt'[q] \notin {"idle", "set"}, q # p
                 PROVE  picture'[q] <= buffer'
      BY <2>1
    <3>1. picture[q] <= buffer /\ picture[q] \in Nat
      BY <1>1, <1>0, <2>2 DEF SetBuffer, FreshInv, Stored, TypeOK
    <3> QED
      BY <2>1, <2>2, <3>1
  <2>4. UNCHANGED <<payloads, payload, chunk, workerAt, stopAt>>
    BY <1>1 DEF SetBuffer
  <2>5. stopAt' # "terminated" => \A i \in DOMAIN payloads' : payloads'[i].picture <= buffer'
    <3> SUFFICES ASSUME stopAt # "terminated", NEW i \in DOMAIN payloads
                 PROVE  payloads[i].picture <= buffer'
      BY <2>4
    <3>1. payloads[i] \in Payload
      BY <1>0 DEF TypeOK
    <3>2. payloads[i].picture \in Nat /\ payloads[i].picture <= buffer
      BY <3>1 DEF Payload, FreshInv, Stored
    <3> QED
      BY <2>1, <3>2
  <2>6. \A w \in Workers : workerAt'[w] = "read" => payload'[w].picture <= buffer'
    <3> SUFFICES ASSUME NEW w \in Workers, workerAt[w] = "read"
                 PROVE  payload[w].picture <= buffer'
      BY <2>4
    <3>1. payload[w] \in Payload /\ payload[w].picture <= buffer
      BY DEF TypeInv, Popped, FreshInv
    <3> QED
      BY <2>1, <3>1 DEF Payload
  <2> QED
    BY <2>3, <2>4, <2>5, <2>6 DEF FreshInv, Stored, FreshPicture
<1>2. ASSUME NEW p \in Publishers, Enqueue(p), ~SetBuffer(p) PROVE FreshInv'
  <2>1. CASE Push(p)
    <3> DEFINE new == [fd |-> target[p], picture |-> picture[p]]
    <3>1. payloads' = Append(payloads, new) /\ payloads \in Seq(Payload)
      BY <2>1, <1>0 DEF Push, TypeOK
    <3>2. stopAt' # "terminated" => \A i \in DOMAIN payloads' : payloads'[i].picture <= buffer
      <4> SUFFICES ASSUME stopAt # "terminated", NEW i \in DOMAIN payloads'
                   PROVE  payloads'[i].picture <= buffer
        BY <2>1 DEF Push
      <4>1. CASE i \in DOMAIN payloads
        BY <3>1, <4>1 DEF FreshInv, Stored
      <4>2. CASE i = Len(payloads) + 1
        <5>1. payloads'[i] = new
          BY <3>1, <4>2
        <5> QED
          BY <2>1, <5>1 DEF Push, FreshInv, Stored
      <4> QED
        BY <3>1, <4>1, <4>2
    <3>3. \A q \in Publishers : enqueueAt'[q] \notin {"idle", "set"} => enqueueAt[q] \notin {"idle", "set"}
      BY <2>1, <1>0 DEF Push, TypeOK
    <3>4. UNCHANGED <<buffer, picture, payload, chunk, workerAt, stopAt>>
      BY <2>1 DEF Push
    <3> QED
      BY <3>2, <3>3, <3>4 DEF FreshInv, Stored, FreshPicture
  <2>2. CASE NotifyOne(p)
    <3>1. Settled
      BY <2>2, <1>0 DEF NotifyOne, Settled, TypeOK
    <3> QED
      BY <1>0, <3>1, SettledKeeps
  <2>3. CASE GetClients(p) \/ NextClient(p) \/ EnqueueReturns(p)
    <3>1. Settled
      BY <2>3, <1>0 DEF GetClients, NextClient, EnqueueReturns, Settled, TypeOK
    <3> QED
      BY <1>0, <3>1, SettledKeeps
  <2> QED
    BY <1>2, <2>1, <2>2, <2>3 DEF Enqueue
<1>3. ASSUME NEW w \in Workers, Worker(w) \/ SpuriousWakeup(w) PROVE FreshInv'
  <2>1. CASE WorkerPop(w)
    <3>1. CASE end_publisher
      <4>1. Settled
        BY <2>1, <3>1, <1>0 DEF WorkerPop, Settled, TypeOK
      <4> QED
        BY <1>0, <4>1, SettledKeeps
    <3>2. CASE ~end_publisher
      <4>1. /\ payloads # <<>> /\ payloads' = Tail(payloads)
            /\ payload' = [payload EXCEPT ![w] = Head(payloads)]
            /\ workerAt' = [workerAt EXCEPT ![w] = "read"]
            /\ UNCHANGED <<buffer, enqueueAt, picture, chunk, stopAt>>
        BY <2>1, <3>2 DEF WorkerPop
      <4>2. stopAt # "terminated"
        BY <3>2 DEF WorkerInv, Ended
      <4>3. Head(payloads).picture <= buffer
        BY <4>1, <4>2, <1>0 DEF FreshInv, Stored, TypeOK
      <4>4. \A i \in DOMAIN payloads' : payloads'[i].picture <= buffer
        <5> SUFFICES ASSUME NEW i \in DOMAIN Tail(payloads)
                     PROVE  Tail(payloads)[i].picture <= buffer
          BY <4>1
        <5>1. i + 1 \in DOMAIN payloads /\ Tail(payloads)[i] = payloads[i + 1]
          BY <4>1, <1>0 DEF TypeOK
        <5> QED
          BY <4>2, <5>1 DEF FreshInv, Stored
      <4>5. Stored'
        BY <4>1, <4>2, <4>4 DEF FreshInv, Stored
      <4>6. \A v \in Workers : workerAt'[v] = "read" => payload'[v].picture <= buffer'
        BY <4>1, <4>3, <1>0 DEF FreshInv, TypeOK
      <4>7. FreshPicture'
        BY <4>1, <1>0 DEF FreshInv, FreshPicture, TypeOK
      <4> QED
        BY <4>5, <4>6, <4>7 DEF FreshInv
    <3> QED
      BY <3>1, <3>2
  <2>2. CASE WorkerRead(w)
    <3>1. /\ workerAt[w] = "read"
          /\ chunk' = [chunk EXCEPT ![w] = buffer]
          /\ workerAt' = [workerAt EXCEPT ![w] = "poll"]
          /\ UNCHANGED <<buffer, enqueueAt, picture, payloads, payload, stopAt>>
      BY <2>2 DEF WorkerRead
    <3>2. chunk'[w] >= payload'[w].picture
      <4>1. payload[w].picture <= buffer /\ payload[w].picture \in Nat /\ buffer \in Nat
        BY <3>1, <1>0 DEF FreshInv, TypeInv, Popped, Payload, TypeOK
      <4> QED
        BY <3>1, <4>1, <1>0 DEF TypeOK
    <3>3. FreshPicture'
      BY <3>1, <3>2, <1>0 DEF FreshInv, FreshPicture, TypeOK
    <3> QED
      BY <3>1, <3>3, <1>0 DEF FreshInv, Stored, TypeOK
  <2>3. CASE ~WorkerPop(w) /\ ~WorkerRead(w)
    <3>1. UNCHANGED <<stopAt, buffer, enqueueAt, picture, payloads>>
      BY <1>3, <2>3 DEF Worker, WorkerTop, WorkerTest, WorkerSleep, WorkerPoll,
                        WorkerSend, SpuriousWakeup
    <3>2. \A v \in Workers :
            /\ workerAt'[v] = "read" => workerAt[v] = "read" /\ payload'[v] = payload[v]
            /\ workerAt'[v] \in {"poll", "send"} =>
                 workerAt[v] \in {"poll", "send"} /\ UNCHANGED <<payload[v], chunk[v]>>
      BY <1>3, <2>3, <1>0 DEF Worker, WorkerTop, WorkerTest, WorkerSleep, WorkerPoll,
                              WorkerSend, SpuriousWakeup, NextRound, TypeOK
    <3>3. Settled
      BY <3>1, <3>2, <1>0 DEF Settled, TypeOK
    <3> QED
      BY <1>0, <3>3, SettledKeeps
  <2> QED
    BY <2>1, <2>2, <2>3
<1>4. ASSUME NEW fd \in Fd, Clients(fd) PROVE FreshInv'
  <2>1. Settled
    BY <1>4, <1>0 DEF Clients, Accept, Admit, AddClient, JoinAnother, PeerResets, RemoveClient, CloseSocket,
                      Settled, TypeOK
  <2> QED
    BY <1>0, <2>1, SettledKeeps
<1>5. CASE Stop
  <2>1. UNCHANGED <<buffer, enqueueAt, picture, payloads, payload, chunk, workerAt>>
        /\ stopAt # "terminated"
    BY <1>5 DEF Stop
  <2> QED
    BY <2>1 DEF FreshInv, Stored, FreshPicture
<1>6. CASE NotifyAll
  <2>1. /\ UNCHANGED <<buffer, enqueueAt, picture, payloads, payload, chunk>>
        /\ stopAt # "terminated"
        /\ \A w \in Workers : workerAt'[w] \in {"read", "poll", "send"} =>
             workerAt[w] = workerAt'[w]
    BY <1>6 DEF NotifyAll
  <2> QED
    BY <2>1 DEF FreshInv, Stored, FreshPicture
<1>7. CASE JoinWorkers
  <2>1. stopAt' = "terminated" /\ \A w \in Workers : workerAt'[w] = "returned"
    BY <1>7 DEF JoinWorkers
  <2> QED
    BY <2>1 DEF FreshInv, Stored, FreshPicture
<1>8. CASE UNCHANGED vars
  <2>1. Settled
    BY <1>8, <1>0 DEF vars, Settled, TypeOK
  <2> QED
    BY <1>0, <2>1, SettledKeeps
<1> QED
  BY <1>b, <1>1, <1>2, <1>3, <1>4, <1>5, <1>6, <1>7, <1>8 DEF Next, Stopping

(* What a worker sends for a payload is at least as new as the picture the  *)
(* payload was pushed for, with any number of publishing threads.           *)
THEOREM PicturesAreFresh == Spec => []FreshPicture
<1>1. Init => FreshInv
  BY DEF Init, FreshInv, Stored, FreshPicture
<1>2. FreshInv => FreshPicture
  BY DEF FreshInv
<1> QED
  BY <1>1, <1>2, TypeInit, TypeStep, WorkerInit, WorkerStep, FreshStep, PTL DEF Spec

-----------------------------------------------------------------------------
(* stop().                                                                  *)

(* While the notification is due, only the holder of cv_mtx_ has tested;    *)
(* from then on, it is the only one that may sleep.                         *)
LEMMA MissedStep == TypeInv /\ WorkerInv /\ StopMissesOne /\ [Next]_vars => StopMissesOne'
<1> SUFFICES ASSUME TypeInv, WorkerInv, StopMissesOne, [Next]_vars,
                    stopAt' \in {"join", "terminated"}
             PROVE  \A v, w \in Workers : Missed(v)' /\ Missed(w)' => v = w
  BY DEF StopMissesOne
<1> DEFINE Goal == \A v, w \in Workers : Missed(v)' /\ Missed(w)' => v = w
<1>0. TypeOK
  BY DEF TypeInv
<1>a. ASSUME stopAt' = stopAt, \A w \in Workers : Missed(w)' => Missed(w) PROVE Goal
  BY <1>a DEF StopMissesOne
<1>1. CASE NotifyAll
  <2>1. \A w \in Workers : Missed(w)' => cv_mtx = w
    BY <1>1 DEF NotifyAll, Missed, WorkerInv, HoldsMutex
  <2> QED
    BY <2>1
<1>2. CASE JoinWorkers
  BY <1>2 DEF JoinWorkers, Missed
<1>3. CASE Stop
  BY <1>3 DEF Stop
<1>4. ASSUME NEW p \in Publishers, EnqueueBegins(p) \/ Enqueue(p) PROVE Goal
  <2>1. stopAt' = stopAt
    BY <1>4 DEF EnqueueBegins, Enqueue, SetBuffer, GetClients, NextClient, Push, NotifyOne,
                EnqueueReturns
  <2>2. \A w \in Workers : workerAt'[w] \in {workerAt[w], "lock"}
    BY <1>4, <1>0 DEF EnqueueBegins, Enqueue, SetBuffer, GetClients, NextClient, Push, NotifyOne,
                      EnqueueReturns, TypeOK
  <2> QED
    BY <2>1, <2>2, <1>a DEF Missed
<1>5. ASSUME NEW w \in Workers, Worker(w) \/ SpuriousWakeup(w) PROVE Goal
  <2>1. stopAt' = stopAt
    BY <1>5 DEF Worker, WorkerTop, WorkerTest, WorkerSleep, WorkerPop, WorkerRead, WorkerPoll,
                WorkerSend, SpuriousWakeup
  <2>2. end_publisher
    BY <2>1 DEF WorkerInv, Ended
  <2>3. /\ Missed(w)' => Missed(w)
        /\ \A v \in Workers : v # w => workerAt'[v] = workerAt[v]
    BY <1>5, <2>2, <1>0 DEF Worker, WorkerTop, WorkerTest, WorkerSleep, WorkerPop, WorkerRead,
       WorkerPoll, WorkerSend, SpuriousWakeup, NextRound, Missed, TypeOK
  <2>4. \A v \in Workers : Missed(v)' => Missed(v)
    BY <2>3 DEF Missed
  <2> QED
    BY <2>1, <2>4, <1>a
<1>6. ASSUME NEW fd \in Fd, Clients(fd) PROVE Goal
  BY <1>6, <1>a DEF Clients, Accept, Admit, AddClient, JoinAnother, PeerResets, RemoveClient,
                    CloseSocket, Missed
<1>7. CASE UNCHANGED vars
  BY <1>7, <1>a DEF vars, Missed
<1> QED
  BY <1>1, <1>2, <1>3, <1>4, <1>5, <1>6, <1>7 DEF Next, Stopping

(* Of any number of workers, whatever notifications and spurious wakeups    *)
(* come, one at most sleeps through notify_all() and is joined for ever.    *)
THEOREM StopWaitsForOne == Spec => []StopMissesOne
<1>1. Init => StopMissesOne
  BY DEF Init, StopMissesOne
<1> QED
  BY <1>1, MissedStep, TypeInit, TypeStep, WorkerInit, WorkerStep, PTL DEF Spec
=============================================================================
