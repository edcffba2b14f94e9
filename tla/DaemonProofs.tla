---------------------------- MODULE DaemonProofs ----------------------------
(***************************************************************************)
(* Proofs about the daemon.                                                *)
(*                                                                         *)
(* Serve: revocation over iroh, for every set of phones, capabilities and  *)
(* connections.                                                            *)
(*                                                                         *)
(* RateLimiter: for every table of limits of the shape of the code's,      *)
(* three invariants on top of the types: what a bucket could give now, its *)
(* tokens and those its idle time is worth, is never more than what the    *)
(* exact bucket holds; a caller told to come back comes back to a token,   *)
(* less what refusals after its own cut off; and a bucket counts what is   *)
(* held from it, less what outlived the bucket before it.                  *)
(***************************************************************************)
EXTENDS Serve, RateLimiter, FiniteSetTheorems, TLAPS

\* Past the handshake, and not closed by it.
Admitted == {"greeted", "queued", "accepted", "granted", "serving"}

\* An admitted connection's device was active, and stays so unless its row
\* changes.
AdmittedActive ==
    binding = "iroh" =>
        \A c \in Conns \ outdated : pc[c] \in Admitted => owner[c] \in Active(db)

GrantAsStored ==
    \A c \in Conns \ outdated :
        pc[c] \in {"granted", "serving"} => grant[c] = Grants(db, owner[c])

\* No connection is served and open without being in the registry.
NothingInvisible ==
    binding = "iroh" => \A c \in open : pc[c] = "serving" => c \in live

\* What a pass found due is still served, in nobody's list of active devices,
\* as long as it is open.
DueIsListed ==
    /\ sweep = "asleep" => due = {}
    /\ \A c \in due : pc[c] # "free"
    /\ sweep = "listed" =>
           /\ binding = "iroh"
           /\ \A c \in due \intersect open : pc[c] = "serving" /\ owner[c] \notin active

IInv ==
    /\ TypeOK /\ QueuedOnce /\ HandshakesBounded
    /\ AdmittedActive /\ GrantAsStored /\ NothingInvisible /\ DueIsListed
-----------------------------------------------------------------------------
\* What the first of a queue and the rest of it are, and what a longer one is.
LEMMA TakeFirst ==
  ASSUME NEW S, NEW q \in Seq(S), q # <<>>
  PROVE  /\ Head(q) = q[1] /\ 1 \in DOMAIN q /\ Head(q) \in S
         /\ Tail(q) \in Seq(S) /\ Len(Tail(q)) = Len(q) - 1
         /\ \A i \in DOMAIN Tail(q) : i + 1 \in DOMAIN q /\ Tail(q)[i] = q[i + 1]
  OBVIOUS

LEMMA PutLast ==
  ASSUME NEW S, NEW q \in Seq(S), NEW e \in S
  PROVE  /\ Append(q, e) \in Seq(S) /\ Len(Append(q, e)) = Len(q) + 1
         /\ DOMAIN Append(q, e) = 1 .. Len(q) + 1
         /\ \A i \in DOMAIN q : Append(q, e)[i] = q[i]
         /\ Append(q, e)[Len(q) + 1] = e
  OBVIOUS

\* A handshake less, or one more, changes their number by one at most.
LEMMA PendingFinite ==
  ASSUME TypeOK
  PROVE  IsFiniteSet(Pending) /\ Cardinality(Pending) \in Nat
  <1>1. Pending \subseteq Conns
    BY DEF Pending
  <1> QED BY <1>1, ServeAssumption, FS_Subset, FS_CardinalityType

LEMMA NoMorePending ==
  ASSUME TypeOK, HandshakesBounded, Pending' \subseteq Pending, UNCHANGED binding
  PROVE  binding' = "tcp" => Cardinality(Pending') <= Slots
  <1>1. Cardinality(Pending') <= Cardinality(Pending) /\ Cardinality(Pending') \in Nat
    BY PendingFinite, FS_Subset, FS_CardinalityType
  <1> QED BY <1>1, PendingFinite, ServeAssumption DEF HandshakesBounded

-----------------------------------------------------------------------------
\* Pairing, revoking and editing keep the table a table and touch one row.
LEMMA EditsOneRow ==
  ASSUME db \in [Phones -> Row], NEW p \in Phones, NEW caps \in SUBSET Capabilities,
         db' = Pair(db, p) \/ db' = Revoke(db, p) \/ db' = SetGrants(db, p, caps)
  PROVE  db' \in [Phones -> Row] /\ \A q \in Phones \ {p} : db'[q] = db[q]
<1>1. CASE db' = Pair(db, p)
  BY <1>1, GrantAssumption DEF Pair, Pairable, Row
<1>2. CASE db' = Revoke(db, p)
  BY <1>2 DEF Revoke, Row
<1>3. CASE db' = SetGrants(db, p, caps)
  BY <1>3 DEF SetGrants, Row
<1> QED BY <1>1, <1>2, <1>3

\* What an edit of p's row leaves alone, and whom it marks as outdated.
LEMMA EditStep ==
  ASSUME IInv, NEW p \in Phones, Edit(p), db' \in [Phones -> Row],
         \A q \in Phones \ {p} : db'[q] = db[q]
  PROVE  IInv'
<1> USE DEF IInv, Edit, started, sweeper
<1>1. TypeOK'
  BY DEF TypeOK
<1>2. \A c \in Conns \ outdated' :
          /\ c \in Conns \ outdated
          /\ pc[c] # "free" => owner[c] # p
  OBVIOUS
<1>3. \A c \in Conns \ outdated' : pc[c] # "free" => db'[owner[c]] = db[owner[c]]
  BY <1>2 DEF TypeOK
<1>4. AdmittedActive'
  BY <1>2, <1>3 DEF AdmittedActive, Admitted, Active, TypeOK
<1>5. GrantAsStored'
  BY <1>2, <1>3 DEF GrantAsStored, Grants, Active, TypeOK
<1>6. NothingInvisible'
  BY DEF NothingInvisible
<1>7. DueIsListed'
  BY DEF DueIsListed
<1>8. QueuedOnce' /\ HandshakesBounded'
  BY DEF QueuedOnce, HandshakesBounded, Pending
<1> QED BY <1>1, <1>4, <1>5, <1>6, <1>7, <1>8

\* The steps of a connection that leave the queue alone.
LEMMA KeepsQueue ==
  ASSUME TypeOK, QueuedOnce, UNCHANGED queue, NEW c \in Conns,
         pc[c] # "queued", NEW v \in Places \ {"queued"}, pc' = [pc EXCEPT ![c] = v]
  PROVE  QueuedOnce'
  BY DEF TypeOK, QueuedOnce

\* The queue and the slots through the steps of a connection.
LEMMA ConnQueues ==
  ASSUME IInv, NEW c \in Conns,
         \/ Dial(c) \/ StartHandshake(c) \/ Greet(c) \/ HandshakeTimesOut(c) \/ Enqueue(c)
         \/ Accept(c) \/ ReadGrant(c) \/ Register(c) \/ TaskEnds(c) \/ PeerCloses(c)
  PROVE  queue' \in Seq(Conns) /\ QueuedOnce' /\ HandshakesBounded'
<1> USE DEF IInv, started
<1>1. CASE StartHandshake(c)
  <2>1. Pending' = Pending \union {c} /\ c \notin Pending
    BY <1>1 DEF StartHandshake, Pending, TypeOK
  <2>2. Cardinality(Pending') = Cardinality(Pending) + 1
    BY <2>1, PendingFinite, FS_AddElement
  <2>3. HandshakesBounded'
    BY <1>1, <2>2, PendingFinite, ServeAssumption DEF StartHandshake, HasSlot, HandshakesBounded
  <2>4. QueuedOnce'
    BY <1>1, KeepsQueue DEF StartHandshake, Places
  <2> QED BY <1>1, <2>3, <2>4 DEF StartHandshake, TypeOK
<1>2. CASE Enqueue(c)
  <2>1. Pending' \subseteq Pending
    BY <1>2 DEF Enqueue, Pending, TypeOK
  <2>2. queue \in Seq(Conns) /\ queue' = Append(queue, c)
    BY <1>2 DEF Enqueue, TypeOK
  <2>3. HandshakesBounded'
    BY <1>2, <2>1, <2>2, PutLast, NoMorePending, ServeAssumption DEF Enqueue, HandshakesBounded
  <2>4. QueuedOnce'
    <3>1. \A i \in DOMAIN queue : queue[i] # c /\ pc'[queue[i]] = "queued"
      BY <1>2, <2>2 DEF Enqueue, QueuedOnce, TypeOK
    <3>2. DOMAIN queue = 1 .. Len(queue) /\ Len(queue) \in Nat
      BY <2>2
    <3>3. \A i \in DOMAIN queue' : i = Len(queue) + 1 \/ i \in DOMAIN queue
      BY <2>2, <3>2, PutLast
    <3>4. DOMAIN queue \subseteq DOMAIN queue' /\ Len(queue) + 1 \in DOMAIN queue'
      BY <2>2, <3>2, PutLast
    <3>5. queue'[Len(queue) + 1] = c /\ \A i \in DOMAIN queue : queue'[i] = queue[i]
      BY <2>2, PutLast
    <3>6. pc'[c] = "queued" /\ \A d \in Conns \ {c} : pc'[d] = pc[d]
      BY <1>2 DEF Enqueue, TypeOK
    <3> QED BY <3>1, <3>3, <3>4, <3>5, <3>6 DEF QueuedOnce
  <2> QED BY <2>2, <2>3, <2>4, PutLast
<1>3. CASE Accept(c)
  <2>1. Pending' \subseteq Pending
    BY <1>3 DEF Accept, Pending, TypeOK
  <2>2. queue \in Seq(Conns) /\ queue # <<>> /\ queue' = Tail(queue) /\ c = queue[1]
    BY <1>3, TakeFirst DEF Accept, TypeOK
  <2>3. HandshakesBounded'
    BY <1>3, <2>1, <2>2, TakeFirst, NoMorePending, ServeAssumption DEF Accept, HandshakesBounded
  <2>4. QueuedOnce'
    <3>1. \A i \in DOMAIN queue' : i + 1 \in DOMAIN queue /\ queue'[i] = queue[i + 1] /\ i \in Nat \ {0}
      BY <2>2, TakeFirst
    <3>2. \A i \in DOMAIN queue : i = 1 \/ (i - 1 \in DOMAIN queue' /\ queue'[i - 1] = queue[i])
      BY <2>2, TakeFirst
    <3>3. \A i \in DOMAIN queue' : queue'[i] # c
      BY <2>2, <3>1, TakeFirst DEF QueuedOnce
    <3>4. pc'[c] = "accepted" /\ \A d \in Conns \ {c} : pc'[d] = pc[d]
      BY <1>3 DEF Accept, TypeOK
    <3>5. \A i \in DOMAIN queue : queue[i] \in Conns
      BY <2>2
    <3>6. \A i \in DOMAIN queue' : pc'[queue'[i]] = "queued"
      BY <3>1, <3>3, <3>4, <3>5 DEF QueuedOnce
    <3>7. \A d \in Conns : pc'[d] = "queued" => \E i \in DOMAIN queue' : queue'[i] = d
      <4> SUFFICES ASSUME NEW d \in Conns, pc'[d] = "queued"
                   PROVE  \E i \in DOMAIN queue' : queue'[i] = d
        OBVIOUS
      <4>1. d # c /\ pc[d] = "queued"
        BY <3>4
      <4>2. PICK i \in DOMAIN queue : queue[i] = d
        BY <4>1 DEF QueuedOnce
      <4>3. i # 1
        BY <2>2, <4>1, <4>2
      <4> QED BY <3>2, <4>2, <4>3
    <3>8. \A i, j \in DOMAIN queue' : queue'[i] = queue'[j] => i = j
      <4> SUFFICES ASSUME NEW i \in DOMAIN queue', NEW j \in DOMAIN queue', queue'[i] = queue'[j]
                   PROVE  i = j
        OBVIOUS
      <4>1. i + 1 = j + 1
        BY <3>1 DEF QueuedOnce
      <4> QED BY <3>1, <4>1
    <3> QED BY <3>6, <3>7, <3>8 DEF QueuedOnce
  <2> QED BY <2>2, <2>3, <2>4, TakeFirst
<1>4. CASE PeerCloses(c)
  BY <1>4 DEF PeerCloses, TypeOK, QueuedOnce, HandshakesBounded, Pending
<1>5. CASE Dial(c) \/ Greet(c) \/ HandshakeTimesOut(c) \/ ReadGrant(c) \/ Register(c) \/ TaskEnds(c)
  <2>1. UNCHANGED <<queue, binding>> /\ pc[c] # "queued"
    BY <1>5 DEF Dial, Greet, HandshakeTimesOut, ReadGrant, Register, TaskEnds
  <2>2. \E v \in Places \ {"queued"} : pc' = [pc EXCEPT ![c] = v]
    BY <1>5 DEF Dial, Greet, HandshakeTimesOut, ReadGrant, Register, TaskEnds, Places
  <2>3. QueuedOnce'
    BY <2>1, <2>2, KeepsQueue
  <2>4. Pending' \subseteq Pending
    BY <1>5 DEF Dial, Greet, HandshakeTimesOut, ReadGrant, Register, TaskEnds, Pending, TypeOK
  <2>5. HandshakesBounded'
    BY <2>1, <2>4, NoMorePending DEF HandshakesBounded
  <2> QED BY <2>1, <2>3, <2>5 DEF TypeOK
<1> QED BY <1>1, <1>2, <1>3, <1>4, <1>5

\* The rest of the invariant.
LEMMA ConnStep ==
  ASSUME IInv, NEW c \in Conns,
         \/ Dial(c) \/ StartHandshake(c) \/ Greet(c) \/ HandshakeTimesOut(c) \/ Enqueue(c)
         \/ Accept(c) \/ ReadGrant(c) \/ Register(c) \/ TaskEnds(c) \/ PeerCloses(c)
  PROVE  IInv'
<1> USE DEF IInv, started, sweeper
<1>0. queue' \in Seq(Conns) /\ QueuedOnce' /\ HandshakesBounded'
  BY ConnQueues
<1> HIDE DEF IInv
<1>a. TypeOK /\ AdmittedActive /\ GrantAsStored /\ NothingInvisible /\ DueIsListed
  BY DEF IInv
<1>b. SUFFICES TypeOK' /\ AdmittedActive' /\ GrantAsStored' /\ NothingInvisible' /\ DueIsListed'
  BY <1>0 DEF IInv
<1>1. CASE Dial(c)
  BY <1>0, <1>1, <1>a DEF Dial, TypeOK, Places, AdmittedActive, Admitted, GrantAsStored, NothingInvisible, DueIsListed
<1>2. CASE StartHandshake(c)
  BY <1>0, <1>2, <1>a DEF StartHandshake, TypeOK, Places, AdmittedActive, Admitted, GrantAsStored, NothingInvisible, DueIsListed
<1>3. CASE Greet(c)
  <2>1. TypeOK'
    BY <1>0, <1>3, <1>a DEF Greet, TypeOK, Places
  <2>2. AdmittedActive'
    BY <1>3, <1>a DEF Greet, Authorized, TypeOK, AdmittedActive, Admitted
  <2>3. GrantAsStored' /\ NothingInvisible' /\ DueIsListed'
    BY <1>3, <1>a DEF Greet, TypeOK, GrantAsStored, NothingInvisible, DueIsListed
  <2> QED BY <2>1, <2>2, <2>3
<1>4. CASE HandshakeTimesOut(c)
  BY <1>0, <1>4, <1>a DEF HandshakeTimesOut, TypeOK, Places, AdmittedActive, Admitted, GrantAsStored, NothingInvisible, DueIsListed
<1>5. CASE Enqueue(c)
  BY <1>0, <1>5, <1>a DEF Enqueue, TypeOK, Places, AdmittedActive, Admitted, GrantAsStored, NothingInvisible, DueIsListed
<1>6. CASE Accept(c)
  <2>1. pc[c] = "queued"
    BY <1>6, TakeFirst DEF Accept, IInv, QueuedOnce, TypeOK
  <2> QED BY <1>0, <1>6, <1>a, <2>1 DEF Accept, TypeOK, Places, AdmittedActive, Admitted, GrantAsStored,
             NothingInvisible, DueIsListed
<1>7. CASE ReadGrant(c)
  <2>1. Grants(db, owner[c]) \subseteq Capabilities
    BY <1>a DEF TypeOK, Grants, Active, Row
  <2>2. TypeOK'
    BY <1>0, <1>7, <1>a, <2>1 DEF ReadGrant, TypeOK, Places
  <2>3. AdmittedActive' /\ NothingInvisible' /\ DueIsListed'
    BY <1>7, <1>a DEF ReadGrant, TypeOK, AdmittedActive, Admitted, NothingInvisible, DueIsListed
  <2>4. GrantAsStored'
    BY <1>7, <1>a DEF ReadGrant, TypeOK, GrantAsStored
  <2> QED BY <2>2, <2>3, <2>4
<1>8. CASE Register(c)
  BY <1>0, <1>8, <1>a DEF Register, TypeOK, Places, AdmittedActive, Admitted, GrantAsStored, NothingInvisible, DueIsListed
<1>9. CASE TaskEnds(c)
  BY <1>0, <1>9, <1>a DEF TaskEnds, TypeOK, Places, AdmittedActive, Admitted, GrantAsStored, NothingInvisible, DueIsListed
<1>10. CASE PeerCloses(c)
  BY <1>0, <1>10, <1>a DEF PeerCloses, TypeOK, AdmittedActive, GrantAsStored, NothingInvisible, DueIsListed
<1> QED BY <1>1, <1>2, <1>3, <1>4, <1>5, <1>6, <1>7, <1>8, <1>9, <1>10

LEMMA SweepStep ==
  ASSUME IInv, SweepLists \/ SweepCloses
  PROVE  IInv'
<1> USE DEF IInv, started
<1>0. QueuedOnce' /\ HandshakesBounded'
  BY DEF SweepLists, SweepCloses, QueuedOnce, HandshakesBounded, Pending
<1>1. CASE SweepLists
  BY <1>0, <1>1 DEF SweepLists, Active, TypeOK, AdmittedActive, GrantAsStored, NothingInvisible, DueIsListed
<1>2. CASE SweepCloses
  <2>1. TypeOK' /\ AdmittedActive' /\ GrantAsStored' /\ DueIsListed'
    BY <1>2 DEF SweepCloses, TypeOK, AdmittedActive, GrantAsStored, DueIsListed
  <2>2. NothingInvisible'
    BY <1>2 DEF SweepCloses, NothingInvisible, TypeOK
  <2> QED BY <1>0, <2>1, <2>2
<1> QED BY <1>1, <1>2

LEMMA Inductive == Spec => []IInv
<1>1. Init => IInv
  <2> SUFFICES ASSUME Init PROVE IInv
    OBVIOUS
  <2>1. TypeOK
    BY GrantAssumption DEF Init, TypeOK, Row, Unpaired, Places, Active
  <2>2. QueuedOnce
    BY DEF Init, QueuedOnce
  <2>3. Pending = {} /\ Len(queue) = 0
    BY DEF Init, Pending
  <2>4. HandshakesBounded
    BY <2>3, FS_EmptySet, ServeAssumption DEF HandshakesBounded
  <2>5. AdmittedActive /\ GrantAsStored /\ NothingInvisible /\ DueIsListed
    BY DEF Init, AdmittedActive, Admitted, GrantAsStored, NothingInvisible, DueIsListed
  <2> QED BY <2>1, <2>2, <2>4, <2>5 DEF IInv
<1>2. IInv /\ [Next]_vars => IInv'
  <2> SUFFICES ASSUME IInv, [Next]_vars PROVE IInv'
    OBVIOUS
  <2>1. ASSUME NEW p \in Phones, NEW caps \in SUBSET Capabilities,
               PairDevice(p) \/ RevokeDevice(p) \/ EditGrant(p, caps)
        PROVE  IInv'
    <3>1. Edit(p) /\ (db' = Pair(db, p) \/ db' = Revoke(db, p) \/ db' = SetGrants(db, p, caps))
      BY <2>1 DEF PairDevice, RevokeDevice, EditGrant
    <3>2. db \in [Phones -> Row]
      BY DEF IInv, TypeOK
    <3>3. db' \in [Phones -> Row] /\ \A q \in Phones \ {p} : db'[q] = db[q]
      BY <3>1, <3>2, EditsOneRow
    <3> QED BY <3>1, <3>3, EditStep
  <2>2. CASE UNCHANGED vars
    BY <2>2 DEF vars, started, sweeper, IInv, TypeOK, QueuedOnce, HandshakesBounded, Pending,
       AdmittedActive, GrantAsStored, NothingInvisible, DueIsListed, Active, Grants
  <2>3. {} \in SUBSET Capabilities
    OBVIOUS
  <2> QED BY <2>1, <2>2, <2>3, ConnStep, SweepStep DEF Next
<1> QED BY <1>1, <1>2, PTL DEF Spec
-----------------------------------------------------------------------------
\* The daemon's variables keep their types.
THEOREM TypeCorrect == Spec => []TypeOK
<1>1. IInv => TypeOK
  BY DEF IInv
<1> QED BY <1>1, Inductive, PTL

\* A device revoked before it dialled is never served by the iroh daemon, in
\* whatever order handshakes, accepts and edits of the table interleave.
THEOREM RevokedStaysOut == Spec => []RevokedNeverServed
<1>1. IInv => RevokedNeverServed
  BY DEF IInv, AdmittedActive, Admitted, RevokedNeverServed, StaysOut
<1> QED BY <1>1, Inductive, PTL

\* A grant edited on the machine holds for every connection dialled later.
THEOREM GrantFollowsTable == Spec => []GrantIsCurrent
<1>1. IInv => GrantIsCurrent
  BY DEF IInv, GrantAsStored, GrantIsCurrent
<1> QED BY <1>1, Inductive, PTL

\* One pass of the sweep closes every connection that was served for a revoked
\* device when the pass began: none is served without being registered.
THEOREM SweepIsComplete == Spec => PassReachesAll
<1>1. IInv /\ [Next]_vars =>
          [sweep = "listed" /\ sweep' = "asleep" => due \intersect open' = {}]_vars
  <2> SUFFICES ASSUME IInv, Next, sweep = "listed", sweep' = "asleep"
               PROVE  due \intersect open' = {}
    OBVIOUS
  <2>1. SweepCloses
    BY DEF Next, Dial, StartHandshake, Greet, HandshakeTimesOut, Enqueue, Accept, ReadGrant,
       Register, TaskEnds, PeerCloses, SweepLists, PairDevice, RevokeDevice, EditGrant, Edit, sweeper
  <2>2. \A c \in due \intersect open : c \in live /\ owner[c] \notin active
    BY DEF IInv, NothingInvisible, DueIsListed
  <2> QED BY <2>1, <2>2 DEF SweepCloses
<1> QED BY <1>1, Inductive, PTL DEF Spec, PassReachesAll

\* However many peers dial, and whatever they say or leave unsaid, the TCP
\* acceptor runs at most max_pending_handshakes at once.
THEOREM SlotsHold == Spec => []HandshakesBounded
<1>1. IInv => HandshakesBounded
  BY DEF IInv
<1> QED BY <1>1, Inductive, PTL

\* Between the acceptor's tasks and the loop no connection is lost or doubled.
THEOREM QueueIsExact == Spec => []QueuedOnce
<1>1. IInv => QueuedOnce
  BY DEF IInv
<1> QED BY <1>1, Inductive, PTL

\* All of it together: for any number of phones, connections and slots, no
\* handshake slot, queue place or grant is lost, shared or out of step with the
\* table (serve.rs:356-377, tcp.rs:541-566).
THEOREM AcceptorStaysSound == Spec => []AcceptorSound
<1>1. TypeOK /\ HandshakesBounded /\ QueuedOnce /\ GrantIsCurrent <=> AcceptorSound
  BY DEF AcceptorSound
<1> QED BY <1>1, TypeCorrect, SlotsHold, QueueIsExact, GrantFollowsTable, PTL
-----------------------------------------------------------------------------
(* The rate limiter: the inductive invariants. *)

IsBucket(k, b) ==
    /\ b = [tokens |-> b.tokens, idle |-> b.idle, inFlight |-> b.inFlight, bytes |-> b.bytes]
    /\ b.tokens \in 0..Capacity(k) /\ b.idle \in 0..Horizon
    /\ b.inFlight \in Nat /\ b.bytes \in Nat

Types ==
    /\ DOMAIN buckets \subseteq Keys
    /\ \A k \in Keys : IsBucket(k, Bucket(k))
    /\ held \in [Keys -> Nat] /\ \A k \in Keys : held[k] <= MaxHeld[k[2]]
    /\ reserved \in [Keys -> [Sizes -> Nat]]
    /\ exact \in [Keys -> Int]
    /\ promise \in [Keys -> Nat \cup {None}]
    /\ asked \in [Keys -> Nat]

\* A bucket of a class with a rate comes into being by a call that takes from
\* it, and is never left full: no time counts that a full bucket would cut off.
NeverLeftFull ==
    \A k \in DOMAIN buckets : Limit(k).refill # None => buckets[k].tokens < Capacity(k)

Worth(k) == Bucket(k).tokens * Per(k) + Bucket(k).idle * Rate(k)

LevelCovers == \A k \in Keys : exact[k] >= Brimful(k) \/ exact[k] >= Worth(k)

\* When the promised time has passed, the idle time makes up for what is missing,
\* but for a unit for each later refusal that cut time off.
Covers(k, b, ticks, cuts) ==
    (b.idle + ticks) * Rate(k) + cuts * Per(k) >= (Scale - b.tokens) * Per(k)

PromiseCovers ==
    \A k \in Keys : promise[k] # None =>
        Limit(k).refill # None /\ Covers(k, Bucket(k), promise[k], asked[k])

RateInv == Types /\ NeverLeftFull /\ LevelCovers /\ PromiseCovers
-----------------------------------------------------------------------------
(* Arithmetic. *)

LEMMA Division ==
    ASSUME NEW a \in Nat, NEW p \in Nat \ {0}
    PROVE  /\ a \div p \in Nat
           /\ (a \div p) * p <= a
           /\ a < (a \div p) * p + p
BY Z3

LEMMA Exact ==
    ASSUME NEW a \in Nat, NEW p \in Nat \ {0}, a % p = 0
    PROVE  (a \div p) * p = a
BY Z3

LEMMA ProductOrder ==
    ASSUME NEW a \in Int, NEW b \in Int, NEW c \in Nat, a <= b
    PROVE  a * c <= b * c
BY Z3

LEMMA ProductIsNat ==
    ASSUME NEW a \in Nat, NEW b \in Nat
    PROVE  a * b \in Nat
BY Z3

LEMMA SumTimes ==
    ASSUME NEW a \in Int, NEW b \in Int, NEW c \in Int
    PROVE  /\ (a + b) * c = a * c + b * c
           /\ (a - b) * c = a * c - b * c
           /\ a * c \in Int
BY Z3

-----------------------------------------------------------------------------
(* The constants. *)

LEMMA KeyFacts ==
    ASSUME NEW k \in Keys
    PROVE  /\ k[2] \in Classes
           /\ Limit(k) = Limits[k[2]]
           /\ Limit(k).burst \in Nat /\ Scale \in Nat \ {0} /\ Horizon \in Nat
           /\ Capacity(k) \in Nat /\ Per(k) \in Nat \ {0} /\ Rate(k) \in Nat
           /\ Brimful(k) \in Nat
           /\ Capacity(k) = Limit(k).burst * Scale /\ Brimful(k) = Capacity(k) * Per(k)
<1>1. PICK d \in Devices, c \in Classes : k = Key(d, c)
  BY DEF Keys
<1>2. k[2] = c
  BY <1>1 DEF Key
<1>3. Limit(k) = Limits[c] /\ Limits[c].burst \in Nat /\ Scale \in Nat \ {0} /\ Horizon \in Nat
  BY <1>2, LimitsAssumption DEF Limit
<1>4. Capacity(k) \in Nat
  BY <1>3, ProductIsNat DEF Capacity
<1>5. Per(k) \in Nat \ {0}
  <2>1. CASE Limit(k).refill = None
    BY <2>1 DEF Per
  <2>2. CASE Limit(k).refill # None
    <3>1. c \in Rated
      BY <1>3, <2>2 DEF Rated
    <3> QED
      BY <1>3, <2>2, <3>1, LimitsAssumption DEF Per
  <2> QED
    BY <2>1, <2>2
<1>6. Rate(k) \in Nat
  <2>1. CASE Limit(k).refill = None
    BY <2>1 DEF Rate
  <2>2. CASE Limit(k).refill # None
    <3>1. c \in Rated
      BY <1>3, <2>2 DEF Rated
    <3>2. Limit(k).refill.tokens \in Nat
      BY <1>3, <3>1, LimitsAssumption
    <3>3. Rate(k) = Limit(k).refill.tokens * Scale
      BY <2>2 DEF Rate
    <3> QED
      BY <1>3, <3>2, <3>3, ProductIsNat
  <2> QED
    BY <2>1, <2>2
<1>7. Brimful(k) \in Nat
  BY <1>4, <1>5, ProductIsNat DEF Brimful
<1> QED
  BY <1>2, <1>3, <1>4, <1>5, <1>6, <1>7 DEF Capacity, Brimful

LEMMA RatedFacts ==
    ASSUME NEW k \in Keys, Limit(k).refill # None
    PROVE  /\ Rate(k) \in Nat \ {0} /\ Per(k) \in Nat \ {0}
           /\ Per(k) % Rate(k) = 0
           /\ Capacity(k) >= Scale
           /\ Horizon * Rate(k) >= Brimful(k)
           /\ Limit(k).maxBytes = None
<1>1. k[2] \in Rated /\ Limit(k) = Limits[k[2]] /\ Limit(k).burst \in Nat /\ Scale \in Nat \ {0}
      /\ Horizon \in Nat
  BY KeyFacts DEF Rated
<1> DEFINE t == Limit(k).refill.tokens
           p == Limit(k).refill.per
           b == Limit(k).burst
<1>2. /\ t \in Nat \ {0} /\ p \in Nat \ {0} /\ p % (t * Scale) = 0
      /\ Horizon * t >= b * p /\ b > 0 /\ b \in Nat
  BY <1>1, LimitsAssumption
<1>3. Rate(k) = t * Scale /\ Per(k) = p /\ Capacity(k) = b * Scale
      /\ Brimful(k) = (b * Scale) * p
  BY DEF Rate, Per, Capacity, Brimful
<1>4. Limit(k).maxBytes = None
  BY <1>1, KeyFacts, LimitsAssumption
<1> HIDE DEF t, p, b
<1>5. t * Scale \in Nat \ {0}
  BY <1>1, <1>2, Z3
<1>6. b * Scale >= Scale
  BY <1>1, <1>2, Z3
<1>7. Horizon * (t * Scale) >= (b * Scale) * p
  <2>1. Horizon * t \in Int /\ b * p \in Int
    BY <1>1, <1>2
  <2>2. (b * p) * Scale <= (Horizon * t) * Scale
    BY <1>1, <1>2, <2>1, ProductOrder
  <2>3. (Horizon * t) * Scale = Horizon * (t * Scale)
    BY <1>1, <1>2, Z3
  <2>4. (b * p) * Scale = (b * Scale) * p
    BY <1>1, <1>2, Z3
  <2>5. Horizon * (t * Scale) \in Int /\ (b * Scale) * p \in Int
    BY <1>1, <1>2, Z3
  <2> QED
    BY <2>2, <2>3, <2>4, <2>5
<1> QED
  BY <1>2, <1>3, <1>4, <1>5, <1>6, <1>7

-----------------------------------------------------------------------------
(* Buckets. *)

LEMMA NewBucketIs ==
    ASSUME NEW k \in Keys
    PROVE  IsBucket(k, NewBucket(k))
BY KeyFacts DEF IsBucket, NewBucket

(* What refilling makes of a bucket: tokens for the idle time, never more   *)
(* than it is worth, or nothing at all.                                     *)
LEMMA RefillIs ==
    ASSUME Types, NEW k \in Keys
    PROVE  /\ IsBucket(k, Refill(k))
           /\ Refill(k).inFlight = Bucket(k).inFlight /\ Refill(k).bytes = Bucket(k).bytes
           /\ \/ Refill(k) = Bucket(k) /\ Bucket(k).idle * Rate(k) < Per(k)
              \/ Refill(k).idle = 0 /\ Refill(k).tokens * Per(k) <= Worth(k)
<1> DEFINE b == Bucket(k)
           added == (b.idle * Rate(k)) \div Per(k)
           t == Smaller(Capacity(k), b.tokens + added)
<1>1. /\ IsBucket(k, b)
      /\ Capacity(k) \in Nat /\ Per(k) \in Nat \ {0} /\ Rate(k) \in Nat /\ Horizon \in Nat
  BY KeyFacts DEF Types
<1>2. b.tokens \in Nat /\ b.idle \in Nat /\ b.tokens <= Capacity(k)
  BY <1>1 DEF IsBucket
<1>3. Refill(k) = IF added = 0 THEN b ELSE [b EXCEPT !.tokens = t, !.idle = 0]
  BY DEF Refill
<1> HIDE DEF b
<1>4. b.idle * Rate(k) \in Nat
  BY <1>1, <1>2, ProductIsNat
<1>5. /\ added \in Nat /\ added * Per(k) <= b.idle * Rate(k)
      /\ b.idle * Rate(k) < added * Per(k) + Per(k)
  BY <1>1, <1>4, Division
<1> HIDE DEF added
<1>6. CASE added = 0
  <2>1. 0 * Per(k) = 0
    BY <1>1
  <2>2. b.idle * Rate(k) < Per(k)
    BY <1>1, <1>4, <1>5, <1>6, <2>1
  <2>3. Refill(k) = b
    BY <1>3, <1>6
  <2> QED
    BY <1>1, <2>2, <2>3 DEF b
<1>7. CASE added # 0
  <2>1. t \in 0..Capacity(k) /\ t <= b.tokens + added
    BY <1>1, <1>2, <1>5 DEF Smaller
  <2> HIDE DEF t
  <2>2. Refill(k) = [tokens |-> t, idle |-> 0, inFlight |-> b.inFlight, bytes |-> b.bytes]
    BY <1>1, <1>3, <1>7 DEF IsBucket
  <2>3. IsBucket(k, Refill(k))
    <3>1. 0 \in 0..Horizon
      BY <1>1
    <3> QED
      BY <1>1, <2>1, <2>2, <3>1 DEF IsBucket
  <2>4. t * Per(k) <= b.tokens * Per(k) + b.idle * Rate(k)
    <3>1. t * Per(k) <= (b.tokens + added) * Per(k)
      BY <1>1, <1>2, <1>5, <2>1, ProductOrder
    <3>2. (b.tokens + added) * Per(k) = b.tokens * Per(k) + added * Per(k)
      BY <1>1, <1>2, <1>5, SumTimes
    <3>3. t * Per(k) \in Int /\ b.tokens * Per(k) \in Int /\ added * Per(k) \in Int
      BY <1>1, <1>2, <1>5, <2>1, SumTimes
    <3> QED
      BY <1>4, <1>5, <3>1, <3>2, <3>3
  <2> QED
    BY <2>2, <2>3, <2>4 DEF Worth, b
<1> QED
  BY <1>6, <1>7

LEMMA WithIs ==
    ASSUME NEW k \in Keys, NEW b, buckets' = With(k, b)
    PROVE  /\ DOMAIN buckets' = DOMAIN buckets \cup {k}
           /\ Bucket(k)' = b /\ buckets'[k] = b
           /\ \A j \in Keys : j # k => Bucket(j)' = Bucket(j)
           /\ \A j \in DOMAIN buckets : j # k => buckets'[j] = buckets[j]
BY DEF With, Bucket, NewBucket

-----------------------------------------------------------------------------
(* What is granted: the level of the buckets and the promises. *)

(* One bucket changes, and what it is worth with it.                        *)
LEMMA BucketChanges ==
    ASSUME RateInv, NEW k \in Keys, NEW b, IsBucket(k, b),
           DOMAIN buckets' = DOMAIN buckets \cup {k},
           Bucket(k)' = b, \A j \in Keys : j # k => Bucket(j)' = Bucket(j),
           Limit(k).refill # None => b.tokens < Capacity(k),
           held' \in [Keys -> Nat], \A j \in Keys : held'[j] <= MaxHeld[j[2]],
           reserved' \in [Keys -> [Sizes -> Nat]],
           exact' \in [Keys -> Int], \A j \in Keys : j # k => exact'[j] = exact[j],
           exact'[k] >= Brimful(k) \/ exact'[k] >= b.tokens * Per(k) + b.idle * Rate(k),
           promise' \in [Keys -> Nat \cup {None}],
           \A j \in Keys : j # k => promise'[j] = promise[j],
           asked' \in [Keys -> Nat], \A j \in Keys : j # k => asked'[j] = asked[j],
           promise'[k] # None =>
               Limit(k).refill # None /\ Covers(k, b, promise'[k], asked'[k])
    PROVE  RateInv'
<1>1. Types'
  <2>1. \A j \in Keys : IsBucket(j, Bucket(j)')
    BY DEF RateInv, Types
  <2> QED
    BY <2>1 DEF RateInv, Types, IsBucket
<1>2. NeverLeftFull'
  <2> SUFFICES ASSUME NEW j \in DOMAIN buckets', Limit(j).refill # None
               PROVE  buckets'[j].tokens < Capacity(j)
    BY DEF NeverLeftFull, Limit, Capacity
  <2>1. buckets'[j] = Bucket(j)'
    BY DEF Bucket
  <2>2. j \in Keys
    BY DEF RateInv, Types
  <2>3. CASE j = k
    BY <2>1, <2>3
  <2>4. CASE j # k
    <3>1. j \in DOMAIN buckets /\ Bucket(j)' = Bucket(j) /\ Bucket(j) = buckets[j]
      BY <2>2, <2>4 DEF Bucket
    <3> QED
      BY <2>1, <3>1 DEF RateInv, NeverLeftFull
  <2> QED
    BY <2>3, <2>4
<1>3. LevelCovers'
  <2> SUFFICES ASSUME NEW j \in Keys
               PROVE  \/ exact'[j] >= Brimful(j)
                      \/ exact'[j] >= Bucket(j)'.tokens * Per(j) + Bucket(j)'.idle * Rate(j)
    BY DEF LevelCovers, Worth, Brimful, Per, Rate, Capacity, Limit
  <2>1. CASE j = k
    BY <2>1
  <2>2. CASE j # k
    BY <2>2 DEF RateInv, LevelCovers, Worth
  <2> QED
    BY <2>1, <2>2
<1>4. PromiseCovers'
  <2> SUFFICES ASSUME NEW j \in Keys, promise'[j] # None
               PROVE  /\ Limit(j).refill # None
                      /\ Covers(j, Bucket(j)', promise'[j], asked'[j])
    BY DEF PromiseCovers, Covers, Per, Rate, Limit
  <2>1. CASE j = k
    BY <2>1
  <2>2. CASE j # k
    BY <2>2 DEF RateInv, PromiseCovers
  <2> QED
    BY <2>1, <2>2
<1> QED
  BY <1>1, <1>2, <1>3, <1>4 DEF RateInv

(* Only what is held of a bucket changes.                                   *)
LEMMA UseChanges ==
    ASSUME RateInv, NEW k \in Keys, NEW b, IsBucket(k, b),
           DOMAIN buckets' = DOMAIN buckets \cup {k},
           Bucket(k)' = b, \A j \in Keys : j # k => Bucket(j)' = Bucket(j),
           k \in DOMAIN buckets \/ Limit(k).refill = None,
           b.tokens = Bucket(k).tokens, b.idle = Bucket(k).idle,
           held' \in [Keys -> Nat], \A j \in Keys : held'[j] <= MaxHeld[j[2]],
           reserved' \in [Keys -> [Sizes -> Nat]],
           UNCHANGED <<exact, promise, asked>>
    PROVE  RateInv'
<1>1. Limit(k).refill # None => b.tokens < Capacity(k)
  BY DEF RateInv, NeverLeftFull, Bucket
<1>2. exact'[k] >= Brimful(k) \/ exact'[k] >= b.tokens * Per(k) + b.idle * Rate(k)
  BY DEF RateInv, LevelCovers, Worth
<1>3. promise'[k] # None =>
          Limit(k).refill # None /\ Covers(k, b, promise'[k], asked'[k])
  BY DEF RateInv, PromiseCovers, Covers
<1>4. exact' \in [Keys -> Int] /\ promise' \in [Keys -> Nat \cup {None}]
      /\ asked' \in [Keys -> Nat]
  BY DEF RateInv, Types
<1> QED
  BY <1>1, <1>2, <1>3, <1>4, BucketChanges

(* What refilling leaves in a bucket, the exact bucket has.                 *)
LEMMA RefillCovers ==
    ASSUME RateInv, NEW k \in Keys
    PROVE  /\ exact[k] \in Int
           /\ Refill(k).tokens * Per(k) \in Int /\ Refill(k).idle * Rate(k) \in Int
           /\ exact[k] >= Refill(k).tokens * Per(k) + Refill(k).idle * Rate(k)
<1> DEFINE r == Refill(k)
<1>2. /\ IsBucket(k, r)
      /\ \/ r = Bucket(k) /\ Bucket(k).idle * Rate(k) < Per(k)
         \/ r.idle = 0 /\ r.tokens * Per(k) <= Worth(k)
  BY RefillIs DEF RateInv
<1>3. /\ Capacity(k) \in Nat /\ Per(k) \in Nat \ {0} /\ Rate(k) \in Nat
      /\ Scale \in Nat \ {0} /\ Brimful(k) = Capacity(k) * Per(k) /\ Brimful(k) \in Nat
  BY KeyFacts
<1>4. exact[k] \in Int /\ (exact[k] >= Brimful(k) \/ exact[k] >= Worth(k))
  BY DEF RateInv, Types, LevelCovers
<1>5. IsBucket(k, Bucket(k))
  BY DEF RateInv, Types
<1>6. k \in DOMAIN buckets /\ Limit(k).refill # None => Bucket(k).tokens < Capacity(k)
  BY DEF RateInv, NeverLeftFull, Bucket
<1>7. k \notin DOMAIN buckets => Bucket(k).idle = 0
  BY DEF Bucket, NewBucket
<1>8. Limit(k).refill = None => Rate(k) = 0
  BY DEF Rate
<1> HIDE DEF r
<1>10. r.tokens \in Nat /\ r.idle \in Nat /\ r.tokens <= Capacity(k)
       /\ Bucket(k).tokens \in Nat /\ Bucket(k).idle \in Nat /\ Bucket(k).tokens <= Capacity(k)
  BY <1>2, <1>3, <1>5 DEF IsBucket
<1>11. /\ r.tokens * Per(k) \in Int /\ r.idle * Rate(k) \in Int
       /\ Bucket(k).tokens * Per(k) \in Int /\ Bucket(k).idle * Rate(k) \in Int
  BY <1>3, <1>10, SumTimes
<1>12. exact[k] >= r.tokens * Per(k) + r.idle * Rate(k)
  <2>1. r.tokens * Per(k) <= Brimful(k)
    BY <1>3, <1>10, ProductOrder
  <2>2. Worth(k) \in Int
    BY <1>11 DEF Worth
  <2>3. CASE r.idle = 0 /\ r.tokens * Per(k) <= Worth(k)
    <3>1. r.idle * Rate(k) = 0
      BY <1>3, <2>3
    <3> QED
      BY <1>3, <1>4, <1>11, <2>1, <2>2, <2>3, <3>1
  <2>4. CASE r = Bucket(k) /\ Bucket(k).idle * Rate(k) < Per(k)
    <3>1. CASE r.idle * Rate(k) = 0
      BY <1>3, <1>4, <1>11, <2>1, <2>2, <2>4, <3>1 DEF Worth
    <3>2. CASE r.idle * Rate(k) # 0
      <4>1. k \in DOMAIN buckets /\ Limit(k).refill # None
        <5>1. 0 * Rate(k) = 0 /\ r.idle * 0 = 0
          BY <1>3, <1>10
        <5> QED
          BY <1>7, <1>8, <2>4, <3>2, <5>1
      <4>2. Bucket(k).tokens + 1 <= Capacity(k)
        BY <1>3, <1>6, <1>10, <4>1
      <4>3. (Bucket(k).tokens + 1) * Per(k) <= Brimful(k)
        BY <1>3, <1>10, <4>2, ProductOrder
      <4>4. (Bucket(k).tokens + 1) * Per(k) = Bucket(k).tokens * Per(k) + Per(k)
        BY <1>3, <1>10, SumTimes
      <4> QED
        BY <1>3, <1>4, <1>11, <2>4, <4>3, <4>4 DEF Worth
    <3> QED
      BY <3>1, <3>2
  <2> QED
    BY <1>2, <2>3, <2>4
<1> QED
  BY <1>4, <1>11, <1>12 DEF r

LEMMA TwoFields ==
    ASSUME NEW r, NEW t, NEW f,
           r = [tokens |-> r.tokens, idle |-> r.idle, inFlight |-> r.inFlight, bytes |-> r.bytes]
    PROVE  [r EXCEPT !.tokens = t, !.inFlight = f]
           = [tokens |-> t, idle |-> r.idle, inFlight |-> f, bytes |-> r.bytes]
<1>1. PICK q : q = [r EXCEPT !.tokens = t]
  OBVIOUS
<1>2. q = [tokens |-> t, idle |-> r.idle, inFlight |-> r.inFlight, bytes |-> r.bytes]
  BY <1>1
<1>3. [q EXCEPT !.inFlight = f] = [tokens |-> q.tokens, idle |-> q.idle, inFlight |-> f, bytes |-> q.bytes]
  BY <1>2
<1>4. q.tokens = t /\ q.idle = r.idle /\ q.bytes = r.bytes
  BY <1>2
<1>5. [r EXCEPT !.tokens = t, !.inFlight = f] = [q EXCEPT !.inFlight = f]
  BY <1>1
<1> QED
  BY <1>3, <1>4, <1>5

LEMMA SpendRate ==
    ASSUME RateInv, NEW k \in Keys, NEW slots \in {0, 1}, Spend(k, slots),
           held[k] + slots <= MaxHeld[k[2]]
    PROVE  RateInv'
<1> DEFINE r == Refill(k)
           b == [r EXCEPT !.tokens = @ - Scale, !.inFlight = @ + slots]
<1>1. /\ r.tokens >= Scale
      /\ buckets' = With(k, b)
      /\ held' = [held EXCEPT ![k] = @ + slots]
      /\ exact' = [exact EXCEPT ![k] = @ - Scale * Per(k)]
      /\ promise' = [promise EXCEPT ![k] = None]
      /\ asked' = [asked EXCEPT ![k] = 0]
      /\ UNCHANGED reserved
  BY DEF Spend, HasToken
<1>2. IsBucket(k, r)
  BY RefillIs DEF RateInv
<1>3. /\ Capacity(k) \in Nat /\ Per(k) \in Nat \ {0} /\ Rate(k) \in Nat
      /\ Scale \in Nat \ {0} /\ Brimful(k) = Capacity(k) * Per(k) /\ Brimful(k) \in Nat
  BY KeyFacts
<1>12. /\ exact[k] \in Int
       /\ r.tokens * Per(k) \in Int /\ r.idle * Rate(k) \in Int
       /\ exact[k] >= r.tokens * Per(k) + r.idle * Rate(k)
  BY RefillCovers
<1> HIDE DEF r
<1>9. /\ IsBucket(k, b) /\ b.tokens = r.tokens - Scale /\ b.idle = r.idle
      /\ b.tokens < Capacity(k)
  <2>1. /\ r = [tokens |-> r.tokens, idle |-> r.idle, inFlight |-> r.inFlight, bytes |-> r.bytes]
        /\ r.tokens \in 0..Capacity(k) /\ r.idle \in 0..Horizon
        /\ r.inFlight \in Nat /\ r.bytes \in Nat
    BY <1>2 DEF IsBucket
  <2> DEFINE t == r.tokens - Scale
             f == r.inFlight + slots
  <2> HIDE DEF t, f
  <2>2. b = [tokens |-> t, idle |-> r.idle, inFlight |-> f, bytes |-> r.bytes]
    <3>1. b = [r EXCEPT !.tokens = t, !.inFlight = f]
      BY DEF t, f
    <3> QED
      BY <2>1, <3>1, TwoFields
  <2>3. /\ r.tokens - Scale \in 0..Capacity(k) /\ r.tokens - Scale < Capacity(k)
        /\ r.inFlight + slots \in Nat
    BY <1>1, <1>3, <2>1
  <2> HIDE DEF b
  <2> QED
    BY <2>1, <2>2, <2>3 DEF IsBucket, t, f
<1> HIDE DEF b
<1>11. /\ Scale * Per(k) \in Int
       /\ b.tokens * Per(k) = r.tokens * Per(k) - Scale * Per(k)
  <2>1. r.tokens \in Int
    BY <1>2 DEF IsBucket
  <2> QED
    BY <1>3, <1>9, <2>1, SumTimes
<1>13. /\ exact' \in [Keys -> Int] /\ exact'[k] = exact[k] - Scale * Per(k)
       /\ \A j \in Keys : j # k => exact'[j] = exact[j]
  BY <1>1, <1>11, <1>12 DEF RateInv, Types
<1>14. exact'[k] >= b.tokens * Per(k) + b.idle * Rate(k)
  BY <1>9, <1>11, <1>12, <1>13
<1>15. /\ promise' \in [Keys -> Nat \cup {None}] /\ promise'[k] = None
       /\ \A j \in Keys : j # k => promise'[j] = promise[j]
       /\ asked' \in [Keys -> Nat] /\ \A j \in Keys : j # k => asked'[j] = asked[j]
  BY <1>1 DEF RateInv, Types
<1>16. held' \in [Keys -> Nat] /\ \A j \in Keys : held'[j] <= MaxHeld[j[2]]
  BY <1>1 DEF RateInv, Types
<1>17. reserved' \in [Keys -> [Sizes -> Nat]]
  BY <1>1 DEF RateInv, Types
<1>18. /\ DOMAIN buckets' = DOMAIN buckets \cup {k}
       /\ Bucket(k)' = b /\ \A j \in Keys : j # k => Bucket(j)' = Bucket(j)
  BY <1>1, WithIs
<1> QED
  BY <1>9, <1>13, <1>14, <1>15, <1>16, <1>17, <1>18, BucketChanges

LEMMA KeyIs ==
    ASSUME NEW d \in Devices, NEW c \in Classes
    PROVE  Key(d, c) \in Keys /\ Key(d, c)[2] = c /\ Limit(Key(d, c)) = Limits[c]
BY DEF Keys, Key, Limit

LEMMA MultipleDivided ==
    ASSUME NEW n \in Nat, NEW p \in Nat \ {0}
    PROVE  (n * p) \div p = n
BY Z3

(* The wait is at least what the missing part of a token takes: the unit of *)
(* a rate is a whole number of ticks, and milliseconds are rounded up.      *)
LEMMA RetryAfterCovers ==
    ASSUME NEW k \in Keys, Limit(k).refill # None, NEW b, b.tokens \in Nat, b.tokens < Scale
    PROVE  /\ RetryAfter(k, b) * Wait \in Nat
           /\ (RetryAfter(k, b) * Wait) * Rate(k) >= (Scale - b.tokens) * Per(k)
<1> DEFINE missing == Scale - b.tokens
           ticks == (missing * Per(k)) \div Rate(k)
           ms == (ticks + Wait - 1) \div Wait
           q == Per(k) \div Rate(k)
<1>1. /\ Scale \in Nat \ {0} /\ Wait \in Nat \ {0}
      /\ Rate(k) \in Nat \ {0} /\ Per(k) \in Nat \ {0} /\ Per(k) % Rate(k) = 0
  BY RatedFacts, LimitsAssumption
<1>2. missing \in Nat
  BY <1>1
<1> HIDE DEF missing
<1>3. q \in Nat /\ q * Rate(k) = Per(k)
  BY <1>1, Division, Exact
<1> HIDE DEF q
<1>4. missing * q \in Nat /\ missing * Per(k) = (missing * q) * Rate(k)
  <2>1. missing * (q * Rate(k)) = (missing * q) * Rate(k)
    BY <1>1, <1>2, <1>3, Z3
  <2> QED
    BY <1>2, <1>3, <2>1, ProductIsNat
<1>5. ticks = missing * q
  BY <1>1, <1>4, MultipleDivided
<1> HIDE DEF ticks
<1>6. ms \in Nat /\ ms * Wait >= ticks
  <2>1. ticks + Wait - 1 \in Nat
    BY <1>1, <1>4, <1>5
  <2>2. ms \in Nat /\ ticks + Wait - 1 < ms * Wait + Wait
    BY <1>1, <2>1, Division
  <2> HIDE DEF ms
  <2>3. ms * Wait \in Nat
    BY <1>1, <2>2, ProductIsNat
  <2> QED
    BY <1>1, <1>4, <1>5, <2>2, <2>3
<1>7. RetryAfter(k, b) = IF ms = 0 THEN 1 ELSE ms
  BY DEF RetryAfter, missing, ticks
<1> HIDE DEF ms
<1>8. RetryAfter(k, b) * Wait \in Nat /\ RetryAfter(k, b) * Wait >= ticks
  <2>1. CASE ms = 0
    <3>1. RetryAfter(k, b) * Wait = Wait /\ ms * Wait = 0
      BY <1>1, <1>7, <2>1
    <3> QED
      BY <1>1, <1>4, <1>5, <1>6, <3>1
  <2>2. CASE ms # 0
    BY <1>1, <1>6, <1>7, <2>2, ProductIsNat
  <2> QED
    BY <2>1, <2>2
<1>9. ticks * Rate(k) <= (RetryAfter(k, b) * Wait) * Rate(k)
  BY <1>1, <1>4, <1>5, <1>8, ProductOrder
<1>10. ticks * Rate(k) = missing * Per(k)
  BY <1>4, <1>5
<1>11. ticks * Rate(k) \in Int /\ (RetryAfter(k, b) * Wait) * Rate(k) \in Int
  BY <1>1, <1>4, <1>5, <1>8, SumTimes
<1> QED
  BY <1>8, <1>9, <1>10, <1>11 DEF missing

LEMMA FilledUp ==
    ASSUME NEW r, NEW t, NEW i,
           r = [tokens |-> r.tokens, idle |-> r.idle, inFlight |-> r.inFlight, bytes |-> r.bytes]
    PROVE  [r EXCEPT !.tokens = t, !.idle = i]
           = [tokens |-> t, idle |-> i, inFlight |-> r.inFlight, bytes |-> r.bytes]
<1>1. PICK q : q = [r EXCEPT !.tokens = t]
  OBVIOUS
<1>2. q = [tokens |-> t, idle |-> r.idle, inFlight |-> r.inFlight, bytes |-> r.bytes]
  BY <1>1
<1>3. [q EXCEPT !.idle = i] = [tokens |-> q.tokens, idle |-> i, inFlight |-> q.inFlight, bytes |-> q.bytes]
  BY <1>2
<1>4. q.tokens = t /\ q.inFlight = r.inFlight /\ q.bytes = r.bytes
  BY <1>2
<1>5. [r EXCEPT !.tokens = t, !.idle = i] = [q EXCEPT !.idle = i]
  BY <1>1
<1> QED
  BY <1>3, <1>4, <1>5

(* What a refill cuts off is less than a unit.                              *)
LEMMA RefillCutsLittle ==
    ASSUME Types, NEW k \in Keys, Refill(k) # Bucket(k), Refill(k).tokens < Capacity(k)
    PROVE  /\ Refill(k).idle = 0
           /\ Worth(k) <= Refill(k).tokens * Per(k) + Per(k)
<1> DEFINE b == Bucket(k)
           added == (b.idle * Rate(k)) \div Per(k)
           t == Smaller(Capacity(k), b.tokens + added)
<1>1. /\ IsBucket(k, b)
      /\ Capacity(k) \in Nat /\ Per(k) \in Nat \ {0} /\ Rate(k) \in Nat /\ Horizon \in Nat
  BY KeyFacts DEF Types
<1>2. b.tokens \in Nat /\ b.idle \in Nat
  BY <1>1 DEF IsBucket
<1>3. Refill(k) = [b EXCEPT !.tokens = t, !.idle = 0]
  BY DEF Refill
<1> HIDE DEF b
<1>4. b.idle * Rate(k) \in Nat
  BY <1>1, <1>2, ProductIsNat
<1>5. added \in Nat /\ b.idle * Rate(k) < added * Per(k) + Per(k)
  BY <1>1, <1>4, Division
<1> HIDE DEF added, t
<1>6. Refill(k).tokens = t /\ Refill(k).idle = 0
  BY <1>1, <1>3, FilledUp DEF IsBucket
<1>7. t = b.tokens + added
  BY <1>1, <1>2, <1>5, <1>6 DEF Smaller, t
<1>8. /\ (b.tokens + added) * Per(k) = b.tokens * Per(k) + added * Per(k)
      /\ b.tokens * Per(k) \in Int /\ added * Per(k) \in Int
  BY <1>1, <1>2, <1>5, SumTimes
<1>9. Worth(k) = b.tokens * Per(k) + b.idle * Rate(k)
  BY DEF Worth, b
<1> QED
  BY <1>1, <1>4, <1>5, <1>6, <1>7, <1>8, <1>9

(* An earlier promise holds after a refusal, with one unit more to be       *)
(* missed if the refill cut time off.                                       *)
LEMMA OldPromise ==
    ASSUME RateInv, NEW k \in Keys, promise[k] # None, Refill(k).tokens < Scale
    PROVE  Covers(k, Refill(k), promise[k], asked[k] + Cuts(k))
<1> DEFINE b == Bucket(k)
           r == Refill(k)
           p == promise[k]
           n == asked[k]
<1>1. Limit(k).refill # None
      /\ (b.idle + p) * Rate(k) + n * Per(k) >= (Scale - b.tokens) * Per(k)
  BY DEF RateInv, PromiseCovers, Covers
<1>2. /\ Per(k) \in Nat \ {0} /\ Rate(k) \in Nat \ {0} /\ Scale \in Nat \ {0}
      /\ Capacity(k) \in Nat /\ Capacity(k) >= Scale
  BY <1>1, KeyFacts, RatedFacts
<1>3. p \in Nat /\ n \in Nat
  BY DEF RateInv, Types
<1>4. IsBucket(k, b) /\ IsBucket(k, r)
  BY RefillIs DEF RateInv, Types
<1>5. b.idle \in Nat /\ b.tokens \in Nat /\ r.tokens \in Nat
  BY <1>2, <1>4 DEF IsBucket
<1>6. CASE r = b
  <2>1. Cuts(k) = 0 /\ n + 0 = n
    BY <1>3, <1>6 DEF Cuts
  <2> QED
    BY <1>1, <1>6, <2>1 DEF Covers
<1>7. CASE r # b
  <2>1. Cuts(k) = 1
    BY <1>7 DEF Cuts
  <2>2. r.tokens < Capacity(k)
    BY <1>2, <1>5
  <2>3. r.idle = 0 /\ b.tokens * Per(k) + b.idle * Rate(k) <= r.tokens * Per(k) + Per(k)
    BY <1>7, <2>2, RefillCutsLittle DEF RateInv, Worth
  <2> HIDE DEF b, r, p, n
  <2>4. /\ (b.idle + p) * Rate(k) = b.idle * Rate(k) + p * Rate(k)
        /\ (0 + p) * Rate(k) = p * Rate(k)
        /\ b.idle * Rate(k) \in Int /\ p * Rate(k) \in Int
    BY <1>2, <1>3, <1>5, SumTimes
  <2>5. /\ (n + 1) * Per(k) = n * Per(k) + Per(k) /\ n * Per(k) \in Int
    BY <1>2, <1>3, SumTimes
  <2>6. /\ (Scale - b.tokens) * Per(k) = Scale * Per(k) - b.tokens * Per(k)
        /\ (Scale - r.tokens) * Per(k) = Scale * Per(k) - r.tokens * Per(k)
        /\ Scale * Per(k) \in Int /\ b.tokens * Per(k) \in Int /\ r.tokens * Per(k) \in Int
    BY <1>2, <1>5, SumTimes
  <2>7. (0 + p) * Rate(k) + (n + 1) * Per(k) >= (Scale - r.tokens) * Per(k)
    BY <1>1, <1>2, <2>3, <2>4, <2>5, <2>6
  <2> QED
    BY <2>1, <2>3, <2>7 DEF Covers, r, p, n
<1> QED
  BY <1>6, <1>7

LEMMA RefuseRate ==
    ASSUME RateInv, NEW k \in Keys, Refuse(k)
    PROVE  RateInv'
<1> DEFINE r == Refill(k)
           p == RetryAfter(k, r) * Wait
           New == /\ promise' = [promise EXCEPT ![k] = IF Limit(k).refill = None THEN None ELSE p]
                  /\ asked' = [asked EXCEPT ![k] = 0]
           Old == /\ promise[k] # None
                  /\ asked' = [asked EXCEPT ![k] = @ + Cuts(k)]
                  /\ promise' = promise
           Told == /\ promise' \in [Keys -> Nat \cup {None}] /\ asked' \in [Keys -> Nat]
                   /\ \A j \in Keys : j # k => promise'[j] = promise[j] /\ asked'[j] = asked[j]
                   /\ promise'[k] # None =>
                          Limit(k).refill # None /\ Covers(k, r, promise'[k], asked'[k])
<1>1. /\ ~(r.tokens >= Scale)
      /\ buckets' = With(k, r)
      /\ New \/ Old
      /\ UNCHANGED <<held, reserved, exact>>
  BY DEF Refuse, HasToken
<1>2. IsBucket(k, r)
  BY RefillIs DEF RateInv
<1>3. /\ Capacity(k) \in Nat /\ Per(k) \in Nat \ {0} /\ Rate(k) \in Nat /\ Scale \in Nat \ {0}
  BY KeyFacts
<1>4. exact[k] >= r.tokens * Per(k) + r.idle * Rate(k)
  BY RefillCovers
<1>5. r.tokens \in Nat /\ r.idle \in Nat /\ r.tokens < Scale
  <2>1. r.tokens \in 0..Capacity(k) /\ r.idle \in 0..Horizon /\ Horizon \in Nat
    BY <1>2, KeyFacts DEF IsBucket
  <2> HIDE DEF r
  <2> QED
    BY <1>1, <1>3, <2>1
<1>6. Limit(k).refill # None => r.tokens < Capacity(k)
  BY <1>3, <1>5, RatedFacts
<1>7. Limit(k).refill # None =>
          p \in Nat /\ p * Rate(k) >= (Scale - r.tokens) * Per(k)
  BY <1>5, RetryAfterCovers
<1>8. ASSUME New
      PROVE  Told
  <2> HIDE DEF p, r
  <2>1. /\ promise' \in [Keys -> Nat \cup {None}]
        /\ \A j \in Keys : j # k => promise'[j] = promise[j] /\ asked'[j] = asked[j]
        /\ promise'[k] # None => Limit(k).refill # None /\ promise'[k] = p
        /\ asked' \in [Keys -> Nat] /\ asked'[k] = 0
    BY <1>7, <1>8 DEF RateInv, Types
  <2>2. ASSUME Limit(k).refill # None
        PROVE  (r.idle + p) * Rate(k) + 0 * Per(k) >= (Scale - r.tokens) * Per(k)
    <3>1. (r.idle + p) * Rate(k) = r.idle * Rate(k) + p * Rate(k) /\ 0 * Per(k) = 0
      BY <1>3, <1>5, <1>7, <2>2, SumTimes
    <3>2. r.idle * Rate(k) \in Nat /\ p * Rate(k) \in Nat /\ (Scale - r.tokens) * Per(k) \in Int
      BY <1>3, <1>5, <1>7, <2>2, ProductIsNat, SumTimes
    <3> QED
      BY <1>7, <2>2, <3>1, <3>2
  <2> QED
    BY <2>1, <2>2 DEF Covers
<1>9. ASSUME Old
      PROVE  Told
  <2>1. Cuts(k) \in Nat /\ asked[k] \in Nat
    BY DEF Cuts, RateInv, Types
  <2>2. asked' \in [Keys -> Nat] /\ asked'[k] = asked[k] + Cuts(k)
        /\ \A j \in Keys : j # k => asked'[j] = asked[j]
    BY <1>9, <2>1 DEF RateInv, Types
  <2>3. Covers(k, Refill(k), promise[k], asked[k] + Cuts(k))
    BY <1>5, <1>9, OldPromise
  <2> QED
    BY <1>9, <2>2, <2>3 DEF RateInv, Types, PromiseCovers
<1>10. /\ exact' \in [Keys -> Int] /\ exact'[k] = exact[k]
       /\ \A j \in Keys : j # k => exact'[j] = exact[j]
       /\ held' \in [Keys -> Nat] /\ \A j \in Keys : held'[j] <= MaxHeld[j[2]]
       /\ reserved' \in [Keys -> [Sizes -> Nat]]
  BY <1>1 DEF RateInv, Types
<1>11. /\ DOMAIN buckets' = DOMAIN buckets \cup {k}
       /\ Bucket(k)' = r /\ \A j \in Keys : j # k => Bucket(j)' = Bucket(j)
  BY <1>1, WithIs
<1>12. exact'[k] >= r.tokens * Per(k) + r.idle * Rate(k)
  BY <1>4, <1>10
<1>13. Told
  BY <1>1, <1>8, <1>9
<1> HIDE DEF r
<1> QED
  BY <1>2, <1>6, <1>10, <1>11, <1>12, <1>13, BucketChanges

(* Nothing changes but what is held.                                        *)
LEMMA HeldChanges ==
    ASSUME RateInv, UNCHANGED <<buckets, exact, promise, asked>>,
           held' \in [Keys -> Nat], \A j \in Keys : held'[j] <= MaxHeld[j[2]],
           reserved' \in [Keys -> [Sizes -> Nat]]
    PROVE  RateInv'
BY DEF RateInv, Types, NeverLeftFull, LevelCovers, PromiseCovers, Covers, Worth, Bucket, NewBucket,
       IsBucket, Limit, Capacity, Per, Rate, Brimful

LEMMA SlotsUsed ==
    ASSUME NEW k \in Keys, NEW b, IsBucket(k, b), NEW n \in Nat
    PROVE  /\ IsBucket(k, [b EXCEPT !.inFlight = n])
           /\ [b EXCEPT !.inFlight = n].tokens = b.tokens /\ [b EXCEPT !.inFlight = n].idle = b.idle
           /\ [b EXCEPT !.inFlight = n].inFlight = n /\ [b EXCEPT !.inFlight = n].bytes = b.bytes
<1>1. b = [tokens |-> b.tokens, idle |-> b.idle, inFlight |-> b.inFlight, bytes |-> b.bytes]
  BY DEF IsBucket
<1>2. [b EXCEPT !.inFlight = n]
      = [tokens |-> b.tokens, idle |-> b.idle, inFlight |-> n, bytes |-> b.bytes]
  BY <1>1
<1>3. /\ b.tokens \in 0..Capacity(k) /\ b.idle \in 0..Horizon
      /\ b.inFlight \in Nat /\ b.bytes \in Nat
  BY DEF IsBucket
<1>4. IsBucket(k, [b EXCEPT !.inFlight = n])
  BY <1>2, <1>3 DEF IsBucket
<1> QED
  BY <1>2, <1>4

LEMMA BytesUsed ==
    ASSUME NEW k \in Keys, NEW b, IsBucket(k, b), NEW n \in Nat
    PROVE  /\ IsBucket(k, [b EXCEPT !.bytes = n])
           /\ [b EXCEPT !.bytes = n].tokens = b.tokens /\ [b EXCEPT !.bytes = n].idle = b.idle
           /\ [b EXCEPT !.bytes = n].bytes = n /\ [b EXCEPT !.bytes = n].inFlight = b.inFlight
<1>1. b = [tokens |-> b.tokens, idle |-> b.idle, inFlight |-> b.inFlight, bytes |-> b.bytes]
  BY DEF IsBucket
<1>2. [b EXCEPT !.bytes = n]
      = [tokens |-> b.tokens, idle |-> b.idle, inFlight |-> b.inFlight, bytes |-> n]
  BY <1>1
<1>3. /\ b.tokens \in 0..Capacity(k) /\ b.idle \in 0..Horizon
      /\ b.inFlight \in Nat /\ b.bytes \in Nat
  BY DEF IsBucket
<1>4. IsBucket(k, [b EXCEPT !.bytes = n])
  BY <1>2, <1>3 DEF IsBucket
<1> QED
  BY <1>2, <1>4

LEMMA TryAcquireRate ==
    ASSUME RateInv, NEW d \in Devices, NEW c \in Classes, TryAcquire(d, c)
    PROVE  RateInv'
<1> DEFINE k == Key(d, c)
<1>1. k \in Keys
  BY KeyIs
<1>2. Spend(k, 0) \/ Refuse(k)
  BY DEF TryAcquire
<1>3. held[k] \in Nat /\ held[k] + 0 <= MaxHeld[k[2]]
  BY <1>1 DEF RateInv, Types
<1> HIDE DEF k
<1> QED
  BY <1>1, <1>2, <1>3, SpendRate, RefuseRate

LEMMA AcquireSlotRate ==
    ASSUME RateInv, NEW d \in Devices, NEW c \in Classes, AcquireSlot(d, c)
    PROVE  RateInv'
<1> DEFINE k == Key(d, c)
<1>1. k \in Keys /\ k[2] = c /\ Limit(k) = Limits[c]
  BY KeyIs
<1>2. /\ held[k] < MaxHeld[k[2]]
      /\ IF Budgeted(c) THEN Spend(k, 1) \/ Refuse(k)
         ELSE /\ buckets' = With(k, [Bucket(k) EXCEPT !.inFlight = @ + 1])
              /\ held' = [held EXCEPT ![k] = @ + 1]
              /\ UNCHANGED <<reserved, exact, promise, asked>>
  BY <1>1 DEF AcquireSlot
<1>3. held[k] \in Nat /\ MaxHeld[k[2]] \in Nat
  BY <1>1, LimitsAssumption DEF RateInv, Types
<1>4. held[k] + 1 <= MaxHeld[k[2]]
  BY <1>2, <1>3
<1> HIDE DEF k
<1>5. CASE Budgeted(c)
  BY <1>1, <1>2, <1>4, <1>5, SpendRate, RefuseRate
<1>6. CASE ~Budgeted(c)
  <2> DEFINE n == Bucket(k).inFlight + 1
             b == [Bucket(k) EXCEPT !.inFlight = n]
  <2>1. /\ buckets' = With(k, b)
        /\ held' = [held EXCEPT ![k] = @ + 1]
        /\ UNCHANGED <<reserved, exact, promise, asked>>
    BY <1>2, <1>6
  <2>2. IsBucket(k, Bucket(k)) /\ n \in Nat
    BY <1>1 DEF RateInv, Types, IsBucket
  <2>3. IsBucket(k, b) /\ b.tokens = Bucket(k).tokens /\ b.idle = Bucket(k).idle
    <3> HIDE DEF n
    <3> QED
      BY <1>1, <2>2, SlotsUsed
  <2> HIDE DEF b
  <2>4. Limit(k).refill = None
    BY <1>1, <1>6 DEF Budgeted
  <2>5. /\ DOMAIN buckets' = DOMAIN buckets \cup {k}
        /\ Bucket(k)' = b /\ \A j \in Keys : j # k => Bucket(j)' = Bucket(j)
    BY <1>1, <2>1, WithIs
  <2>6. /\ held' \in [Keys -> Nat] /\ \A j \in Keys : held'[j] <= MaxHeld[j[2]]
        /\ reserved' \in [Keys -> [Sizes -> Nat]]
    BY <1>1, <1>4, <2>1 DEF RateInv, Types
  <2> QED
    BY <1>1, <2>1, <2>3, <2>4, <2>5, <2>6, UseChanges
<1> QED
  BY <1>5, <1>6

(* Who is at the ceiling of slots has a bucket: the ceiling is one or more. *)
LEMMA SlotRefusedRate ==
    ASSUME RateInv, NEW d \in Devices, NEW c \in Classes, SlotRefused(d, c)
    PROVE  RateInv'
<1> DEFINE k == Key(d, c)
<1>1. k \in Keys /\ k[2] = c /\ Limit(k) = Limits[c]
  BY KeyIs
<1>2. AtCeiling(k) /\ buckets' = With(k, Bucket(k)) /\ UNCHANGED <<held, reserved, exact, promise, asked>>
  BY DEF SlotRefused
<1> HIDE DEF k
<1>3. IsBucket(k, Bucket(k))
  BY <1>1 DEF RateInv, Types
<1>4. k \in DOMAIN buckets
  <2> SUFFICES ASSUME k \notin DOMAIN buckets
               PROVE  FALSE
    OBVIOUS
  <2>1. Bucket(k).inFlight = 0
    BY DEF Bucket, NewBucket
  <2>2. Limits[c].maxConcurrent \in Nat \ {0}
    BY <1>1, <1>2, LimitsAssumption DEF AtCeiling
  <2> QED
    BY <1>1, <1>2, <2>1, <2>2 DEF AtCeiling
<1>5. /\ DOMAIN buckets' = DOMAIN buckets \cup {k}
      /\ Bucket(k)' = Bucket(k) /\ \A j \in Keys : j # k => Bucket(j)' = Bucket(j)
  BY <1>1, <1>2, WithIs
<1>6. /\ held' \in [Keys -> Nat] /\ \A j \in Keys : held'[j] <= MaxHeld[j[2]]
      /\ reserved' \in [Keys -> [Sizes -> Nat]]
  BY <1>2 DEF RateInv, Types
<1>7. UNCHANGED <<exact, promise, asked>>
  BY <1>2
<1> QED
  BY <1>1, <1>3, <1>4, <1>5, <1>6, <1>7, UseChanges

(* One field of a bucket that is there.                                     *)
LEMMA OneBucket ==
    ASSUME NEW k \in DOMAIN buckets, NEW b, buckets' = [buckets EXCEPT ![k] = b]
    PROVE  /\ DOMAIN buckets' = DOMAIN buckets \cup {k}
           /\ Bucket(k)' = b /\ buckets'[k] = b
           /\ \A j \in Keys : j # k => Bucket(j)' = Bucket(j)
BY DEF Bucket, NewBucket

LEMMA ReleaseRate ==
    ASSUME RateInv, NEW k \in Keys, Release(k)
    PROVE  RateInv'
<1>1. /\ held[k] > 0 /\ held' = [held EXCEPT ![k] = @ - 1]
      /\ UNCHANGED <<reserved, exact, promise, asked>>
      /\ buckets' = IF k \notin DOMAIN buckets THEN buckets
                    ELSE [buckets EXCEPT ![k].inFlight = IF @ = 0 THEN 0 ELSE @ - 1]
  BY DEF Release
<1>2. held[k] \in Nat /\ held[k] <= MaxHeld[k[2]] /\ MaxHeld[k[2]] \in Nat
  BY KeyFacts, LimitsAssumption DEF RateInv, Types
<1>3. /\ held' \in [Keys -> Nat] /\ \A j \in Keys : held'[j] <= MaxHeld[j[2]]
      /\ reserved' \in [Keys -> [Sizes -> Nat]]
  BY <1>1, <1>2 DEF RateInv, Types
<1>4. CASE k \notin DOMAIN buckets
  BY <1>1, <1>3, <1>4, HeldChanges
<1>5. CASE k \in DOMAIN buckets
  <2> DEFINE f == buckets[k].inFlight
             n == IF f = 0 THEN 0 ELSE f - 1
             b == [Bucket(k) EXCEPT !.inFlight = n]
  <2>1. buckets' = [buckets EXCEPT ![k] = b]
    BY <1>1, <1>5 DEF Bucket
  <2>2. IsBucket(k, Bucket(k)) /\ n \in Nat
    <3>1. IsBucket(k, Bucket(k)) /\ Bucket(k) = buckets[k]
      BY <1>5 DEF RateInv, Types, Bucket
    <3>2. f \in Nat
      BY <3>1 DEF IsBucket
    <3> QED
      BY <3>1, <3>2
  <2>3. IsBucket(k, b) /\ b.tokens = Bucket(k).tokens /\ b.idle = Bucket(k).idle
    <3> HIDE DEF n
    <3> QED
      BY <2>2, SlotsUsed
  <2> HIDE DEF b
  <2>4. /\ DOMAIN buckets' = DOMAIN buckets \cup {k}
        /\ Bucket(k)' = b /\ \A j \in Keys : j # k => Bucket(j)' = Bucket(j)
    BY <1>5, <2>1, OneBucket
  <2> QED
    BY <1>1, <1>3, <1>5, <2>3, <2>4, UseChanges
<1> QED
  BY <1>4, <1>5

LEMMA ReserveRate ==
    ASSUME RateInv, NEW d \in Devices, NEW c \in Classes, NEW n \in Sizes, Reserve(d, c, n)
    PROVE  RateInv'
<1> DEFINE k == Key(d, c)
           m == Bucket(k).bytes + n
           b == [Bucket(k) EXCEPT !.bytes = m]
<1>1. k \in Keys /\ k[2] = c /\ Limit(k) = Limits[c] /\ n \in Nat
  BY KeyIs, LimitsAssumption
<1>2. /\ Limits[c].maxBytes # None /\ buckets' = With(k, b)
      /\ reserved' = [reserved EXCEPT ![k][n] = @ + 1]
      /\ UNCHANGED <<held, exact, promise, asked>>
  BY DEF Reserve
<1> HIDE DEF k
<1>3. IsBucket(k, Bucket(k)) /\ m \in Nat
  BY <1>1 DEF RateInv, Types, IsBucket
<1>4. IsBucket(k, b) /\ b.tokens = Bucket(k).tokens /\ b.idle = Bucket(k).idle
  <2> HIDE DEF m
  <2> QED
    BY <1>1, <1>3, BytesUsed
<1> HIDE DEF b
<1>5. Limit(k).refill = None
  BY <1>1, <1>2, RatedFacts
<1>6. /\ DOMAIN buckets' = DOMAIN buckets \cup {k}
      /\ Bucket(k)' = b /\ \A j \in Keys : j # k => Bucket(j)' = Bucket(j)
  BY <1>1, <1>2, WithIs
<1>7. /\ held' \in [Keys -> Nat] /\ \A j \in Keys : held'[j] <= MaxHeld[j[2]]
      /\ reserved' \in [Keys -> [Sizes -> Nat]]
  BY <1>1, <1>2 DEF RateInv, Types
<1>8. UNCHANGED <<exact, promise, asked>>
  BY <1>2
<1> QED
  BY <1>1, <1>4, <1>5, <1>6, <1>7, <1>8, UseChanges

LEMMA ReleaseBytesRate ==
    ASSUME RateInv, NEW k \in Keys, NEW n \in Sizes, ReleaseBytes(k, n)
    PROVE  RateInv'
<1>1. /\ reserved[k][n] > 0 /\ reserved' = [reserved EXCEPT ![k][n] = @ - 1]
      /\ UNCHANGED <<held, exact, promise, asked>>
      /\ buckets' = IF k \notin DOMAIN buckets THEN buckets
                    ELSE [buckets EXCEPT ![k].bytes = IF @ < n THEN 0 ELSE @ - n]
  BY DEF ReleaseBytes
<1>2. n \in Nat /\ reserved[k][n] \in Nat
  BY LimitsAssumption DEF RateInv, Types
<1>3. /\ held' \in [Keys -> Nat] /\ \A j \in Keys : held'[j] <= MaxHeld[j[2]]
      /\ reserved' \in [Keys -> [Sizes -> Nat]]
  BY <1>1, <1>2 DEF RateInv, Types
<1>4. CASE k \notin DOMAIN buckets
  BY <1>1, <1>3, <1>4, HeldChanges
<1>5. CASE k \in DOMAIN buckets
  <2> DEFINE f == buckets[k].bytes
             m == IF f < n THEN 0 ELSE f - n
             b == [Bucket(k) EXCEPT !.bytes = m]
  <2>1. buckets' = [buckets EXCEPT ![k] = b]
    BY <1>1, <1>5 DEF Bucket
  <2>2. IsBucket(k, Bucket(k)) /\ m \in Nat
    <3>1. IsBucket(k, Bucket(k)) /\ Bucket(k) = buckets[k]
      BY <1>5 DEF RateInv, Types, Bucket
    <3>2. f \in Nat
      BY <3>1 DEF IsBucket
    <3> QED
      BY <1>2, <3>1, <3>2
  <2>3. IsBucket(k, b) /\ b.tokens = Bucket(k).tokens /\ b.idle = Bucket(k).idle
    <3> HIDE DEF m
    <3> QED
      BY <2>2, BytesUsed
  <2> HIDE DEF b
  <2>4. /\ DOMAIN buckets' = DOMAIN buckets \cup {k}
        /\ Bucket(k)' = b /\ \A j \in Keys : j # k => Bucket(j)' = Bucket(j)
    BY <1>5, <2>1, OneBucket
  <2> QED
    BY <1>1, <1>3, <1>5, <2>3, <2>4, UseChanges
<1> QED
  BY <1>4, <1>5

LEMMA ResetRate ==
    ASSUME RateInv, NEW k \in Keys, Reset(k)
    PROVE  RateInv'
<1> DEFINE b == [Bucket(k) EXCEPT !.tokens = Capacity(k), !.idle = 0]
<1>1. /\ Limit(k).refill = None /\ buckets' = With(k, b)
      /\ exact' = [exact EXCEPT ![k] = Brimful(k)]
      /\ promise' = [promise EXCEPT ![k] = None]
      /\ asked' = [asked EXCEPT ![k] = 0]
      /\ UNCHANGED <<held, reserved>>
  BY DEF Reset
<1>2. Capacity(k) \in Nat /\ Horizon \in Nat /\ Brimful(k) \in Nat
  BY KeyFacts
<1>3. IsBucket(k, Bucket(k))
  BY DEF RateInv, Types
<1>4. IsBucket(k, b)
  <2>1. b = [tokens |-> Capacity(k), idle |-> 0,
             inFlight |-> Bucket(k).inFlight, bytes |-> Bucket(k).bytes]
    <3>1. /\ Bucket(k) = [tokens |-> Bucket(k).tokens, idle |-> Bucket(k).idle,
                          inFlight |-> Bucket(k).inFlight, bytes |-> Bucket(k).bytes]
      BY <1>3 DEF IsBucket
    <3> QED
      BY <3>1, FilledUp
  <2>2. /\ Capacity(k) \in 0..Capacity(k) /\ 0 \in 0..Horizon
        /\ Bucket(k).inFlight \in Nat /\ Bucket(k).bytes \in Nat
    BY <1>2, <1>3 DEF IsBucket
  <2> HIDE DEF b
  <2> QED
    BY <2>1, <2>2 DEF IsBucket
<1> HIDE DEF b
<1>5. /\ DOMAIN buckets' = DOMAIN buckets \cup {k}
      /\ Bucket(k)' = b /\ \A j \in Keys : j # k => Bucket(j)' = Bucket(j)
  BY <1>1, WithIs
<1>6. /\ held' \in [Keys -> Nat] /\ \A j \in Keys : held'[j] <= MaxHeld[j[2]]
      /\ reserved' \in [Keys -> [Sizes -> Nat]]
  BY <1>1 DEF RateInv, Types
<1>7. /\ exact' \in [Keys -> Int] /\ exact'[k] >= Brimful(k)
      /\ \A j \in Keys : j # k => exact'[j] = exact[j]
  BY <1>1, <1>2 DEF RateInv, Types
<1>8. /\ promise' \in [Keys -> Nat \cup {None}] /\ promise'[k] = None
      /\ \A j \in Keys : j # k => promise'[j] = promise[j]
      /\ asked' \in [Keys -> Nat] /\ \A j \in Keys : j # k => asked'[j] = asked[j]
  BY <1>1 DEF RateInv, Types
<1> QED
  BY <1>1, <1>4, <1>5, <1>6, <1>7, <1>8, BucketChanges

LEMMA ForgetDeviceRate ==
    ASSUME RateInv, NEW d \in Devices, ForgetDevice(d)
    PROVE  RateInv'
<1> DEFINE own == KeysOf(d)
<1>1. /\ buckets' = [k \in DOMAIN buckets \ own |-> buckets[k]]
      /\ exact' = [k \in Keys |-> IF k \in own THEN Brimful(k) ELSE exact[k]]
      /\ promise' = [k \in Keys |-> IF k \in own THEN None ELSE promise[k]]
      /\ asked' = [k \in Keys |-> IF k \in own THEN 0 ELSE asked[k]]
      /\ UNCHANGED <<held, reserved>>
  BY DEF ForgetDevice
<1> HIDE DEF own
<1>2. \A k \in Keys : Bucket(k)' = IF k \in own THEN NewBucket(k) ELSE Bucket(k)
  <2>1. \A k \in Keys : NewBucket(k)' = NewBucket(k)
    BY DEF NewBucket, Capacity, Limit
  <2> QED
    BY <1>1, <2>1 DEF Bucket
<1>3. Types'
  <2>1. \A k \in Keys : IsBucket(k, Bucket(k)')
    BY <1>2, NewBucketIs DEF RateInv, Types
  <2>2. \A k \in Keys : IsBucket(k, Bucket(k))'
    BY <2>1 DEF IsBucket, Capacity, Limit
  <2>3. \A k \in Keys : Brimful(k) \in Int
    BY KeyFacts
  <2>4. exact' \in [Keys -> Int] /\ promise' \in [Keys -> Nat \cup {None}]
        /\ asked' \in [Keys -> Nat]
    BY <1>1, <2>3 DEF RateInv, Types
  <2>5. DOMAIN buckets' \subseteq Keys
    BY <1>1 DEF RateInv, Types
  <2> QED
    BY <1>1, <2>2, <2>4, <2>5 DEF RateInv, Types
<1>4. NeverLeftFull'
  BY <1>1 DEF RateInv, NeverLeftFull, Limit, Capacity
<1>5. LevelCovers'
  <2> SUFFICES ASSUME NEW k \in Keys
               PROVE  \/ exact'[k] >= Brimful(k)
                      \/ exact'[k] >= Bucket(k)'.tokens * Per(k) + Bucket(k)'.idle * Rate(k)
    BY DEF LevelCovers, Worth, Brimful, Per, Rate, Capacity, Limit
  <2>1. CASE k \in own
    BY <1>1, <2>1, KeyFacts
  <2>2. CASE k \notin own
    BY <1>1, <1>2, <2>2 DEF RateInv, LevelCovers, Worth
  <2> QED
    BY <2>1, <2>2
<1>6. PromiseCovers'
  <2> SUFFICES ASSUME NEW k \in Keys, promise'[k] # None
               PROVE  /\ Limit(k).refill # None
                      /\ Covers(k, Bucket(k)', promise'[k], asked'[k])
    BY DEF PromiseCovers, Covers, Per, Rate, Limit
  <2>1. k \notin own /\ promise'[k] = promise[k] /\ asked'[k] = asked[k]
    BY <1>1
  <2> QED
    BY <1>2, <2>1 DEF RateInv, PromiseCovers
<1> QED
  BY <1>3, <1>4, <1>5, <1>6 DEF RateInv

(* Time: a bucket's idle time grows by one at most, and the exact bucket by *)
(* the rate unless it is full.                                              *)
LEMMA TickIs ==
    ASSUME RateInv, Tick, NEW k \in Keys
    PROVE  /\ IsBucket(k, Bucket(k)') /\ Bucket(k)'.tokens = Bucket(k).tokens
           /\ Bucket(k)'.inFlight = Bucket(k).inFlight /\ Bucket(k)'.bytes = Bucket(k).bytes
           /\ Bucket(k)'.idle <= Bucket(k).idle + 1
           /\ k \in DOMAIN buckets /\ Limit(k).refill # None =>
                  Bucket(k)'.idle = Smaller(Horizon, Bucket(k).idle + 1)
<1>1. buckets' = [j \in DOMAIN buckets |-> [buckets[j] EXCEPT
            !.idle = IF Limit(j).refill = None THEN 0 ELSE Smaller(Horizon, @ + 1)]]
  BY DEF Tick
<1>2. IsBucket(k, Bucket(k)) /\ Horizon \in Nat
  BY KeyFacts DEF RateInv, Types
<1>3. Bucket(k).idle \in Nat
  BY <1>2 DEF IsBucket
<1>4. CASE k \notin DOMAIN buckets
  <2>1. k \notin DOMAIN buckets' /\ NewBucket(k)' = NewBucket(k)
    BY <1>1, <1>4 DEF NewBucket, Capacity, Limit
  <2>2. Bucket(k)' = Bucket(k)
    BY <1>4, <2>1 DEF Bucket
  <2> QED
    BY <1>2, <1>3, <1>4, <2>2
<1>5. CASE k \in DOMAIN buckets
  <2> DEFINE b == Bucket(k)
             i == IF Limit(k).refill = None THEN 0 ELSE Smaller(Horizon, b.idle + 1)
  <2>1. Bucket(k)' = [b EXCEPT !.idle = i]
    BY <1>1, <1>5 DEF Bucket
  <2>2. i \in 0..Horizon /\ i <= b.idle + 1
    <3> HIDE DEF b
    <3>1. b.idle \in Nat
      BY <1>3 DEF b
    <3> QED
      BY <1>2, <3>1 DEF Smaller
  <2>3. Limit(k).refill # None => i = Smaller(Horizon, b.idle + 1)
    OBVIOUS
  <2> HIDE DEF i
  <2>4. b = [tokens |-> b.tokens, idle |-> b.idle, inFlight |-> b.inFlight, bytes |-> b.bytes]
        /\ b.tokens \in 0..Capacity(k) /\ b.inFlight \in Nat /\ b.bytes \in Nat
    BY <1>2 DEF IsBucket
  <2> HIDE DEF b
  <2>5. [b EXCEPT !.idle = i]
        = [tokens |-> b.tokens, idle |-> i, inFlight |-> b.inFlight, bytes |-> b.bytes]
    BY <2>4
  <2>6. IsBucket(k, [b EXCEPT !.idle = i])
    BY <2>2, <2>4, <2>5 DEF IsBucket
  <2>7. /\ [b EXCEPT !.idle = i].idle = i /\ [b EXCEPT !.idle = i].tokens = b.tokens
        /\ [b EXCEPT !.idle = i].inFlight = b.inFlight /\ [b EXCEPT !.idle = i].bytes = b.bytes
    BY <2>5
  <2> QED
    BY <2>1, <2>2, <2>3, <2>6, <2>7 DEF b
<1> QED
  BY <1>4, <1>5

LEMMA TickRate ==
    ASSUME RateInv, Tick
    PROVE  RateInv'
<1>1. /\ exact' = [k \in Keys |-> Smaller(Brimful(k), exact[k] + Rate(k))]
      /\ promise' = [k \in Keys |-> IF promise[k] \in {None, 0} THEN promise[k] ELSE promise[k] - 1]
      /\ UNCHANGED <<held, reserved, asked>>
      /\ DOMAIN buckets' = DOMAIN buckets
  BY DEF Tick
<1>2. Types'
  <2>1. \A k \in Keys : IsBucket(k, Bucket(k)')
    BY TickIs
  <2>2. \A k \in Keys : IsBucket(k, Bucket(k))'
    BY <2>1 DEF IsBucket, Capacity, Limit
  <2>3. \A k \in Keys : Brimful(k) \in Int /\ Rate(k) \in Int
    BY KeyFacts
  <2>4. exact' \in [Keys -> Int]
    BY <1>1, <2>3 DEF RateInv, Types, Smaller
  <2>5. promise' \in [Keys -> Nat \cup {None}]
    <3> SUFFICES ASSUME NEW k \in Keys, promise[k] \notin {None, 0}
                 PROVE  promise[k] - 1 \in Nat
      BY <1>1 DEF RateInv, Types
    <3>1. promise[k] \in Nat
      BY DEF RateInv, Types
    <3> QED
      BY <3>1
  <2> QED
    BY <1>1, <2>2, <2>4, <2>5 DEF RateInv, Types
<1>3. NeverLeftFull'
  <2> SUFFICES ASSUME NEW k \in DOMAIN buckets', Limit(k).refill # None
               PROVE  buckets'[k].tokens < Capacity(k)
    BY DEF NeverLeftFull, Limit, Capacity
  <2>1. k \in Keys /\ k \in DOMAIN buckets
    BY <1>1 DEF RateInv, Types
  <2>2. Bucket(k)'.tokens = Bucket(k).tokens
    BY <2>1, TickIs
  <2>3. Bucket(k)' = buckets'[k] /\ Bucket(k) = buckets[k]
    BY <2>1 DEF Bucket
  <2> QED
    BY <2>1, <2>2, <2>3 DEF RateInv, NeverLeftFull
<1>4. LevelCovers'
  <2> SUFFICES ASSUME NEW k \in Keys
               PROVE  \/ exact'[k] >= Brimful(k)
                      \/ exact'[k] >= Bucket(k)'.tokens * Per(k) + Bucket(k)'.idle * Rate(k)
    BY DEF LevelCovers, Worth, Brimful, Per, Rate, Capacity, Limit
  <2> DEFINE t == Bucket(k).tokens
             i == Bucket(k).idle
             j == Bucket(k)'.idle
  <2>1. /\ Per(k) \in Nat /\ Rate(k) \in Nat /\ Brimful(k) \in Nat /\ exact[k] \in Int
    BY KeyFacts DEF RateInv, Types
  <2>2. t \in Nat /\ i \in Nat /\ j \in Nat /\ j <= i + 1 /\ Bucket(k)'.tokens = t
    BY TickIs, KeyFacts DEF RateInv, Types, IsBucket
  <2>3. exact[k] >= Brimful(k) \/ exact[k] >= t * Per(k) + i * Rate(k)
    BY DEF RateInv, LevelCovers, Worth
  <2>4. exact'[k] = Smaller(Brimful(k), exact[k] + Rate(k))
    BY <1>1
  <2> HIDE DEF t, i, j
  <2>5. j * Rate(k) <= (i + 1) * Rate(k)
    BY <2>1, <2>2, ProductOrder
  <2>6. /\ (i + 1) * Rate(k) = i * Rate(k) + Rate(k)
        /\ i * Rate(k) \in Int /\ j * Rate(k) \in Int /\ t * Per(k) \in Int
    BY <2>1, <2>2, SumTimes
  <2>7. exact'[k] >= Brimful(k) \/ exact'[k] >= t * Per(k) + j * Rate(k)
    BY <2>1, <2>3, <2>4, <2>5, <2>6 DEF Smaller
  <2> QED
    BY <2>2, <2>7 DEF j
<1>5. PromiseCovers'
  <2> SUFFICES ASSUME NEW k \in Keys, promise'[k] # None
               PROVE  /\ Limit(k).refill # None
                      /\ Covers(k, Bucket(k)', promise'[k], asked'[k])
    BY DEF PromiseCovers, Covers, Per, Rate, Limit
  <2> DEFINE t == Bucket(k).tokens
             i == Bucket(k).idle
             j == Bucket(k)'.idle
             p == promise[k]
             q == promise'[k]
             n == asked[k]
  <2>1. p # None /\ p \in Nat /\ q \in Nat /\ q >= p - 1 /\ q = IF p = 0 THEN 0 ELSE p - 1
    <3>1. p # None
      BY <1>1
    <3>2. p \in Nat
      BY <3>1 DEF RateInv, Types
    <3>3. q = IF p = 0 THEN 0 ELSE p - 1
      BY <1>1, <3>1
    <3> HIDE DEF p, q
    <3> QED
      BY <3>1, <3>2, <3>3
  <2>2. /\ Limit(k).refill # None
        /\ (i + p) * Rate(k) + n * Per(k) >= (Scale - t) * Per(k)
    BY <2>1 DEF RateInv, PromiseCovers, Covers
  <2>3. /\ Per(k) \in Nat \ {0} /\ Rate(k) \in Nat \ {0} /\ Capacity(k) >= Scale /\ Capacity(k) \in Nat
        /\ Horizon * Rate(k) >= Brimful(k) /\ Scale \in Nat \ {0} /\ Horizon \in Nat
        /\ Brimful(k) = Capacity(k) * Per(k)
    BY <2>2, KeyFacts, RatedFacts
  <2>4. /\ t \in Nat /\ i \in Nat /\ j \in Nat /\ Bucket(k)'.tokens = t
        /\ k \in DOMAIN buckets => j = Smaller(Horizon, i + 1)
    BY <2>2, <2>3, TickIs DEF RateInv, Types, IsBucket
  <2>5. k \notin DOMAIN buckets => t = Capacity(k)
    BY DEF Bucket, NewBucket
  <2>7. n \in Nat /\ asked'[k] = n
    BY <1>1 DEF RateInv, Types
  <2> HIDE DEF t, i, j, p, q, n
  <2>6. (j + q) * Rate(k) + n * Per(k) >= (Scale - t) * Per(k)
    <3>1. /\ (j + q) * Rate(k) \in Nat /\ (Scale - t) * Per(k) \in Int /\ (i + p) * Rate(k) \in Int
          /\ n * Per(k) \in Nat
      BY <2>1, <2>3, <2>4, <2>7, ProductIsNat, SumTimes
    <3>2. CASE k \notin DOMAIN buckets
      <4>1. Scale - t <= 0
        BY <2>3, <2>4, <2>5, <3>2
      <4>2. (Scale - t) * Per(k) <= 0 * Per(k)
        BY <2>3, <2>4, <4>1, ProductOrder
      <4>3. 0 * Per(k) = 0
        BY <2>3
      <4> QED
        BY <3>1, <4>2, <4>3
    <3>3. CASE k \in DOMAIN buckets /\ i + 1 <= Horizon
      <4>1. i + p <= j + q
        BY <2>1, <2>3, <2>4, <3>3 DEF Smaller
      <4>2. (i + p) * Rate(k) <= (j + q) * Rate(k)
        BY <2>1, <2>3, <2>4, <4>1, ProductOrder
      <4> QED
        BY <2>2, <3>1, <4>2
    <3>4. CASE k \in DOMAIN buckets /\ ~(i + 1 <= Horizon)
      <4>1. Horizon <= j + q
        BY <2>1, <2>3, <2>4, <3>4 DEF Smaller
      <4>2. Horizon * Rate(k) <= (j + q) * Rate(k)
        BY <2>1, <2>3, <2>4, <4>1, ProductOrder
      <4>3. (Scale - t) * Per(k) <= Capacity(k) * Per(k)
        <5>1. Scale - t <= Capacity(k)
          BY <2>3, <2>4
        <5> QED
          BY <2>3, <2>4, <5>1, ProductOrder
      <4>4. Horizon * Rate(k) \in Int /\ Capacity(k) * Per(k) \in Int
        BY <2>3, SumTimes
      <4> QED
        BY <2>3, <3>1, <4>2, <4>3, <4>4
    <3> QED
      BY <3>2, <3>3, <3>4
  <2> QED
    BY <2>2, <2>4, <2>6, <2>7 DEF j, q, Covers
<1> QED
  BY <1>2, <1>3, <1>4, <1>5 DEF RateInv

LEMMA InitRate == LimiterInit => RateInv
<1> SUFFICES ASSUME LimiterInit
             PROVE  RateInv
  OBVIOUS
<1>1. DOMAIN buckets = {} /\ \A k \in Keys : Bucket(k) = NewBucket(k)
  BY DEF LimiterInit, Bucket
<1>2. \A k \in Keys : Brimful(k) \in Nat /\ MaxHeld[k[2]] \in Nat
  BY KeyFacts, LimitsAssumption
<1>3. Types
  <2>1. \A k \in Keys : IsBucket(k, Bucket(k))
    BY <1>1, NewBucketIs
  <2>2. \A n \in Sizes : 0 \in Nat
    OBVIOUS
  <2> QED
    BY <1>1, <1>2, <2>1, <2>2 DEF LimiterInit, Types
<1>4. LevelCovers
  BY <1>2 DEF LimiterInit, LevelCovers
<1> QED
  BY <1>1, <1>3, <1>4 DEF LimiterInit, RateInv, NeverLeftFull, PromiseCovers

LEMMA NextRate == RateInv /\ [LimiterNext]_limiterVars => RateInv'
<1> SUFFICES ASSUME RateInv, [LimiterNext]_limiterVars
             PROVE  RateInv'
  OBVIOUS
<1>1. CASE UNCHANGED limiterVars
  BY <1>1, HeldChanges DEF limiterVars, RateInv, Types
<1>2. ASSUME NEW d \in Devices, NEW c \in Classes, TryAcquire(d, c)
      PROVE  RateInv'
  BY <1>2, TryAcquireRate
<1>3. ASSUME NEW d \in Devices, NEW c \in Classes, AcquireSlot(d, c)
      PROVE  RateInv'
  BY <1>3, AcquireSlotRate
<1>4. ASSUME NEW d \in Devices, NEW c \in Classes, SlotRefused(d, c)
      PROVE  RateInv'
  BY <1>4, SlotRefusedRate
<1>5. ASSUME NEW k \in Keys, Release(k)
      PROVE  RateInv'
  BY <1>5, ReleaseRate
<1>6. ASSUME NEW k \in Keys, Reset(k)
      PROVE  RateInv'
  BY <1>6, ResetRate
<1>7. ASSUME NEW d \in Devices, NEW c \in Classes, NEW n \in Sizes, Reserve(d, c, n)
      PROVE  RateInv'
  BY <1>7, ReserveRate
<1>8. ASSUME NEW k \in Keys, NEW n \in Sizes, ReleaseBytes(k, n)
      PROVE  RateInv'
  BY <1>8, ReleaseBytesRate
<1>9. ASSUME NEW d \in Devices, ForgetDevice(d)
      PROVE  RateInv'
  BY <1>9, ForgetDeviceRate
<1>10. CASE Tick
  BY <1>10, TickRate
<1> QED
  BY <1>1, <1>2, <1>3, <1>4, <1>5, <1>6, <1>7, <1>8, <1>9, <1>10 DEF LimiterNext

(* The buckets stay within their budgets, and the invariants below hold of  *)
(* them, for every table of limits, however often devices are forgotten     *)
(* (rate_limit.rs:508-825).                                                 *)
THEOREM RateInvariance == LimiterSpec => []RateInv
BY InitRate, NextRate, PTL DEF LimiterSpec

-----------------------------------------------------------------------------
(* No more is granted than an exact bucket has: what refilling rounds off   *)
(* is lost to the caller and never gained (rate_limit.rs:535-569).          *)
THEOREM NoFasterThanTheRate == LimiterSpec => []NeverFaster
<1>1. RateInv => NeverFaster
  <2> SUFFICES ASSUME RateInv, NEW k \in Keys
               PROVE  exact[k] >= 0
    BY DEF NeverFaster
  <2>1. /\ exact[k] \in Int /\ Refill(k).tokens * Per(k) \in Int /\ Refill(k).idle * Rate(k) \in Int
        /\ exact[k] >= Refill(k).tokens * Per(k) + Refill(k).idle * Rate(k)
    BY RefillCovers
  <2>2. /\ Refill(k).tokens \in Nat /\ Refill(k).idle \in Nat
        /\ Per(k) \in Nat /\ Rate(k) \in Nat
    BY RefillIs, KeyFacts DEF RateInv, IsBucket
  <2>3. Refill(k).tokens * Per(k) \in Nat /\ Refill(k).idle * Rate(k) \in Nat
    BY <2>2, ProductIsNat
  <2> QED
    BY <2>1, <2>3
<1> QED
  BY <1>1, RateInvariance, PTL

(* A caller who waits as long as its refusal says, if nobody took a token   *)
(* meanwhile, finds one, or one less a unit for each later refusal that cut *)
(* time off (rate_limit.rs:541-557, 571-582).                               *)
THEOREM WaitingSuffices == LimiterSpec => []RetrySuffices
<1>1. RateInv => RetrySuffices
  <2> SUFFICES ASSUME RateInv, NEW k \in Keys, promise[k] = 0
               PROVE  Refill(k).tokens + asked[k] >= Scale
    BY DEF RetrySuffices
  <2> DEFINE b == Bucket(k)
             added == (b.idle * Rate(k)) \div Per(k)
             n == asked[k]
             missing == Scale - b.tokens - n
  <2>1. promise[k] # None
    BY LimitsAssumption
  <2>2. /\ Limit(k).refill # None
        /\ (b.idle + promise[k]) * Rate(k) + n * Per(k) >= (Scale - b.tokens) * Per(k)
    BY <2>1 DEF RateInv, PromiseCovers, Covers
  <2>3. /\ Per(k) \in Nat \ {0} /\ Rate(k) \in Nat \ {0}
        /\ Capacity(k) >= Scale /\ Capacity(k) \in Nat /\ Scale \in Nat
    BY <2>2, KeyFacts, RatedFacts
  <2>4. b.tokens \in Nat /\ b.idle \in Nat /\ n \in Nat
    BY KeyFacts DEF RateInv, Types, IsBucket
  <2>5. Refill(k) = IF added = 0 THEN b
                    ELSE [b EXCEPT !.tokens = Smaller(Capacity(k), b.tokens + added), !.idle = 0]
    BY DEF Refill
  <2>6. IsBucket(k, b)
    BY DEF RateInv, Types
  <2> HIDE DEF b, n
  <2>7. b.idle * Rate(k) \in Nat
    BY <2>3, <2>4, ProductIsNat
  <2>8. added \in Nat /\ b.idle * Rate(k) < added * Per(k) + Per(k)
    BY <2>3, <2>7, Division
  <2> HIDE DEF added
  <2>9. b.idle * Rate(k) >= missing * Per(k)
    <3>1. /\ missing * Per(k) = (Scale - b.tokens) * Per(k) - n * Per(k)
          /\ (Scale - b.tokens) * Per(k) \in Int /\ n * Per(k) \in Int
      BY <2>3, <2>4, SumTimes
    <3>2. b.idle + promise[k] = b.idle
      BY <2>4
    <3> QED
      BY <2>2, <2>7, <3>1, <3>2
  <2>10. added >= missing
    <3> SUFFICES ASSUME added + 1 <= missing
                 PROVE  FALSE
      BY <2>3, <2>4, <2>8
    <3>1. missing \in Int
      BY <2>3, <2>4
    <3> HIDE DEF missing
    <3>2. (added + 1) * Per(k) <= missing * Per(k)
      BY <2>3, <2>8, <3>1, ProductOrder
    <3>3. /\ (added + 1) * Per(k) = added * Per(k) + Per(k)
          /\ added * Per(k) \in Int /\ missing * Per(k) \in Int
      BY <2>3, <2>8, <3>1, SumTimes
    <3> QED
      BY <2>3, <2>7, <2>8, <2>9, <3>2, <3>3
  <2>11. CASE added = 0
    BY <2>3, <2>4, <2>5, <2>10, <2>11 DEF n
  <2>12. CASE added # 0
    <3> DEFINE t == Smaller(Capacity(k), b.tokens + added)
    <3>1. t + n >= Scale
      BY <2>3, <2>4, <2>8, <2>10 DEF Smaller
    <3> HIDE DEF t
    <3>2. [b EXCEPT !.tokens = t, !.idle = 0].tokens = t
      BY <2>6, FilledUp DEF IsBucket
    <3> QED
      BY <2>5, <2>12, <3>1, <3>2 DEF t, n
  <2> QED
    BY <2>11, <2>12
<1> QED
  BY <1>1, RateInvariance, PTL

-----------------------------------------------------------------------------
(* What is in use: slots and bytes. *)

(* Forgotten with slots held, a device leaves slots that no bucket counts:  *)
(* what a bucket counts of those that are held is off by them at most.      *)
Counts(k, counted, out, astray) ==
    /\ counted <= out /\ out <= counted + astray
    /\ Limit(k).maxConcurrent # None => out <= Limit(k).maxConcurrent + astray

Strays == stray \in [Keys -> Nat]

UseInv == RateInv /\ Strays /\ SlotsCounted /\ BytesCounted

LEMMA UseFacts ==
    ASSUME UseInv, NEW k \in Keys
    PROVE  /\ Bucket(k).inFlight \in Nat /\ held[k] \in Nat /\ stray[k] \in Nat
           /\ Counts(k, Bucket(k).inFlight, held[k], stray[k])
           /\ Limit(k).maxConcurrent # None => Limit(k).maxConcurrent \in Nat
<1>1. Limit(k).maxConcurrent # None => Limit(k).maxConcurrent \in Nat
  BY KeyFacts, LimitsAssumption
<1>2. Bucket(k).inFlight \in Nat /\ held[k] \in Nat /\ stray[k] \in Nat
  BY DEF UseInv, Strays, RateInv, Types, IsBucket
<1> QED
  BY <1>1, <1>2 DEF UseInv, SlotsCounted, Counts

LEMMA Batch ==
    ASSUME NEW n \in Nat, NEW m
    PROVE  /\ IsFiniteSet({n} \X ({m} \X (1..n)))
           /\ Cardinality({n} \X ({m} \X (1..n))) = n
<1>1. IsFiniteSet(1..n) /\ Cardinality(1..n) = n
  BY FS_Interval
<1>2. IsFiniteSet({m}) /\ Cardinality({m}) = 1 /\ IsFiniteSet({n}) /\ Cardinality({n}) = 1
  BY FS_Singleton
<1>3. IsFiniteSet({m} \X (1..n)) /\ Cardinality({m} \X (1..n)) = 1 * n
  BY <1>1, <1>2, FS_Product
<1>4. /\ IsFiniteSet({n} \X ({m} \X (1..n)))
      /\ Cardinality({n} \X ({m} \X (1..n))) = 1 * (1 * n)
  BY <1>2, <1>3, FS_Product
<1> QED
  BY <1>4

BytesIn(f) == UNION {BytesOf(n, f[n]) : n \in Sizes}

LEMMA BytesAreFinite ==
    ASSUME NEW f \in [Sizes -> Nat]
    PROVE  IsFiniteSet(BytesIn(f))
<1> DEFINE T == {BytesOf(n, f[n]) : n \in Sizes}
           g == [n \in Sizes |-> BytesOf(n, f[n])]
<1>1. IsFiniteSet(Sizes) /\ Sizes \subseteq Nat
  BY LimitsAssumption
<1>2. g \in Surjection(Sizes, T)
  BY DEF Surjection
<1>3. IsFiniteSet(T)
  <2> HIDE DEF g, T
  <2> QED
    BY <1>1, <1>2, FS_Surjection
<1>4. ASSUME NEW n \in Sizes
      PROVE  IsFiniteSet(BytesOf(n, f[n]))
  <2>1. n \in Nat /\ f[n] \in Nat
    BY <1>1
  <2>2. IsFiniteSet({n}) /\ IsFiniteSet(1..f[n]) /\ IsFiniteSet(1..n)
    <3>1. IsFiniteSet({n})
      BY FS_Singleton
    <3>2. IsFiniteSet(1..f[n]) /\ IsFiniteSet(1..n)
      BY <2>1, FS_Interval
    <3> QED
      BY <3>1, <3>2
  <2>3. IsFiniteSet((1..f[n]) \X (1..n))
    BY <2>2, FS_Product
  <2>4. IsFiniteSet({n} \X ((1..f[n]) \X (1..n)))
    BY <2>2, <2>3, FS_Product
  <2> QED
    BY <2>4 DEF BytesOf
<1>5. \A B \in T : IsFiniteSet(B)
  BY <1>4
<1> HIDE DEF T
<1>6. IsFiniteSet(UNION T)
  BY <1>3, <1>5, FS_UNION
<1> QED
  BY <1>6 DEF BytesIn, T

(* One reservation more is its bytes more.                                  *)
LEMMA OneMore ==
    ASSUME NEW f \in [Sizes -> Nat], NEW g \in [Sizes -> Nat], NEW n \in Sizes,
           g = [f EXCEPT ![n] = f[n] + 1]
    PROVE  /\ Cardinality(BytesIn(f)) \in Nat
           /\ Cardinality(BytesIn(g)) = Cardinality(BytesIn(f)) + n
<1> DEFINE m == f[n] + 1
           D == {n} \X ({m} \X (1..n))
<1>1. n \in Nat /\ f[n] \in Nat
  BY LimitsAssumption
<1>2. IsFiniteSet(D) /\ Cardinality(D) = n
  BY <1>1, Batch
<1>3. IsFiniteSet(BytesIn(f)) /\ Cardinality(BytesIn(f)) \in Nat
  BY BytesAreFinite, FS_CardinalityType
<1>4. BytesOf(n, g[n]) = BytesOf(n, f[n]) \cup D
  <2>1. g[n] = m /\ 1..m = (1..f[n]) \cup {m}
    BY <1>1
  <2>2. (1..m) \X (1..n) = ((1..f[n]) \X (1..n)) \cup ({m} \X (1..n))
    BY <2>1
  <2> HIDE DEF m
  <2> QED
    BY <2>1, <2>2 DEF BytesOf
<1>5. \A x \in Sizes : x # n => BytesOf(x, g[x]) = BytesOf(x, f[x])
  OBVIOUS
<1> HIDE DEF D
<1>6. BytesIn(g) = BytesIn(f) \cup D
  BY <1>4, <1>5 DEF BytesIn
<1>7. BytesIn(f) \cap D = {}
  <2> SUFFICES ASSUME NEW x \in Sizes, NEW e \in BytesOf(x, f[x]), e \in D
               PROVE  FALSE
    BY DEF BytesIn
  <2>1. e[1] = x /\ e[2] \in (1..f[x]) \X (1..x)
    BY DEF BytesOf
  <2>2. e[1] = n /\ e[2] \in {m} \X (1..n)
    BY DEF D
  <2>3. e[2][1] \in 1..f[n] /\ e[2][1] = m
    BY <2>1, <2>2
  <2> QED
    BY <1>1, <2>3
<1>8. Cardinality(BytesIn(g)) = Cardinality(BytesIn(f)) + Cardinality(D) - Cardinality({})
  BY <1>2, <1>3, <1>6, <1>7, FS_Union
<1> QED
  BY <1>1, <1>2, <1>3, <1>8, FS_EmptySet

LEMMA BytesOutIs ==
    ASSUME NEW k
    PROVE  /\ BytesOut(k) = BytesIn(reserved[k])
           /\ BytesOut(k)' = BytesIn(reserved'[k])
BY DEF BytesOut, BytesIn, BytesOf

(* A step that counts what it hands out.                                    *)
LEMMA UseStep ==
    ASSUME UseInv, NEW k \in Keys, \A j \in Keys : j # k => Bucket(j)' = Bucket(j),
           \A j \in Keys : j # k => held'[j] = held[j] /\ stray'[j] = stray[j],
           reserved' = reserved, Bucket(k)'.bytes = Bucket(k).bytes,
           Counts(k, Bucket(k)'.inFlight, held'[k], stray'[k])
    PROVE  SlotsCounted' /\ BytesCounted'
<1>1. SlotsCounted'
  <2> SUFFICES ASSUME NEW j \in Keys
               PROVE  Counts(j, Bucket(j)'.inFlight, held'[j], stray'[j])
    BY DEF SlotsCounted, Counts, Limit
  <2>1. CASE j = k
    BY <2>1
  <2>2. CASE j # k
    BY <2>2, UseFacts
  <2> QED
    BY <2>1, <2>2
<1>2. BytesCounted'
  <2> SUFFICES ASSUME NEW j \in Keys, Limit(j).maxBytes # None
               PROVE  /\ Bucket(j)'.bytes = Cardinality(BytesIn(reserved'[j]))
                      /\ Cardinality(BytesIn(reserved'[j])) <= Limit(j).maxBytes
    BY BytesOutIs DEF BytesCounted, Limit
  <2>1. /\ Bucket(j).bytes = Cardinality(BytesIn(reserved[j]))
        /\ Cardinality(BytesIn(reserved[j])) <= Limit(j).maxBytes
    BY BytesOutIs DEF UseInv, BytesCounted
  <2>2. Bucket(j)'.bytes = Bucket(j).bytes
    OBVIOUS
  <2> QED
    BY <2>1, <2>2
<1> QED
  BY <1>1, <1>2

LEMMA SpendUse ==
    ASSUME UseInv, NEW k \in Keys, NEW slots \in {0, 1}, Spend(k, slots),
           slots = 1 => ~AtCeiling(k)
    PROVE  SlotsCounted' /\ BytesCounted'
<1> DEFINE r == Refill(k)
           b == [r EXCEPT !.tokens = @ - Scale, !.inFlight = @ + slots]
<1>1. /\ buckets' = With(k, b) /\ held' = [held EXCEPT ![k] = @ + slots]
      /\ UNCHANGED <<reserved, stray>>
  BY DEF Spend
<1>2. IsBucket(k, r) /\ r.inFlight = Bucket(k).inFlight /\ r.bytes = Bucket(k).bytes
  BY RefillIs DEF UseInv, RateInv
<1>3. b.inFlight = r.inFlight + slots /\ b.bytes = r.bytes
  <2> HIDE DEF r
  <2>1. r = [tokens |-> r.tokens, idle |-> r.idle, inFlight |-> r.inFlight, bytes |-> r.bytes]
    BY <1>2 DEF IsBucket
  <2> QED
    BY <2>1
<1> HIDE DEF b, r
<1>4. /\ Bucket(k)' = b /\ \A j \in Keys : j # k => Bucket(j)' = Bucket(j)
  BY <1>1, WithIs
<1>5. /\ Bucket(k).inFlight \in Nat /\ held[k] \in Nat /\ stray[k] \in Nat
      /\ Counts(k, Bucket(k).inFlight, held[k], stray[k])
      /\ Limit(k).maxConcurrent # None => Limit(k).maxConcurrent \in Nat
  BY UseFacts
<1>6. held'[k] = held[k] + slots /\ \A j \in Keys : j # k => held'[j] = held[j]
  BY <1>1 DEF UseInv, RateInv, Types
<1>7. Counts(k, Bucket(k).inFlight + slots, held[k] + slots, stray[k])
  BY <1>5 DEF Counts, AtCeiling
<1>8. Counts(k, Bucket(k)'.inFlight, held'[k], stray'[k]) /\ Bucket(k)'.bytes = Bucket(k).bytes
  BY <1>1, <1>2, <1>3, <1>4, <1>6, <1>7
<1> QED
  BY <1>1, <1>4, <1>6, <1>8, UseStep

LEMMA RefuseUse ==
    ASSUME UseInv, NEW k \in Keys, Refuse(k)
    PROVE  SlotsCounted' /\ BytesCounted'
<1>1. buckets' = With(k, Refill(k)) /\ UNCHANGED <<held, reserved, stray>>
  BY DEF Refuse
<1>2. Refill(k).inFlight = Bucket(k).inFlight /\ Refill(k).bytes = Bucket(k).bytes
  BY RefillIs DEF UseInv, RateInv
<1>3. /\ Bucket(k)' = Refill(k) /\ \A j \in Keys : j # k => Bucket(j)' = Bucket(j)
  BY <1>1, WithIs
<1>4. Counts(k, Bucket(k).inFlight, held[k], stray[k])
  BY UseFacts
<1> QED
  BY <1>1, <1>2, <1>3, <1>4, UseStep

LEMMA TryAcquireUse ==
    ASSUME UseInv, NEW d \in Devices, NEW c \in Classes, TryAcquire(d, c)
    PROVE  SlotsCounted' /\ BytesCounted'
<1> DEFINE k == Key(d, c)
<1>1. k \in Keys /\ (Spend(k, 0) \/ Refuse(k))
  BY KeyIs DEF TryAcquire
<1> HIDE DEF k
<1> QED
  BY <1>1, SpendUse, RefuseUse

LEMMA AcquireSlotUse ==
    ASSUME UseInv, NEW d \in Devices, NEW c \in Classes, AcquireSlot(d, c)
    PROVE  SlotsCounted' /\ BytesCounted'
<1> DEFINE k == Key(d, c)
<1>1. k \in Keys
  BY KeyIs
<1>2. /\ ~AtCeiling(k)
      /\ IF Budgeted(c) THEN Spend(k, 1) \/ Refuse(k)
         ELSE /\ buckets' = With(k, [Bucket(k) EXCEPT !.inFlight = @ + 1])
              /\ held' = [held EXCEPT ![k] = @ + 1]
              /\ UNCHANGED <<reserved, stray, exact, promise, asked>>
  BY DEF AcquireSlot
<1> HIDE DEF k
<1>3. CASE Budgeted(c)
  BY <1>1, <1>2, <1>3, SpendUse, RefuseUse
<1>4. CASE ~Budgeted(c)
  <2> DEFINE n == Bucket(k).inFlight + 1
             b == [Bucket(k) EXCEPT !.inFlight = n]
  <2>1. /\ buckets' = With(k, b)
        /\ held' = [held EXCEPT ![k] = @ + 1] /\ UNCHANGED <<reserved, stray>>
    BY <1>2, <1>4
  <2>2. IsBucket(k, Bucket(k))
    BY <1>1 DEF UseInv, RateInv, Types
  <2>3. /\ Bucket(k).inFlight \in Nat /\ held[k] \in Nat /\ stray[k] \in Nat
        /\ Counts(k, Bucket(k).inFlight, held[k], stray[k])
        /\ Limit(k).maxConcurrent # None => Limit(k).maxConcurrent \in Nat
    BY <1>1, UseFacts
  <2>4. n \in Nat
    BY <2>3
  <2>5. b.inFlight = n /\ b.bytes = Bucket(k).bytes
    <3> HIDE DEF n
    <3> QED
      BY <1>1, <2>2, <2>4, SlotsUsed
  <2> HIDE DEF b
  <2>6. Bucket(k)' = b /\ \A j \in Keys : j # k => Bucket(j)' = Bucket(j)
    BY <1>1, <2>1, WithIs
  <2>7. held'[k] = held[k] + 1 /\ \A j \in Keys : j # k => held'[j] = held[j]
    BY <1>1, <2>1 DEF UseInv, RateInv, Types
  <2>8. Counts(k, n, held[k] + 1, stray[k])
    BY <1>2, <2>3 DEF Counts, AtCeiling
  <2>9. Counts(k, Bucket(k)'.inFlight, held'[k], stray'[k]) /\ Bucket(k)'.bytes = Bucket(k).bytes
    BY <2>1, <2>5, <2>6, <2>7, <2>8
  <2> QED
    BY <1>1, <2>1, <2>6, <2>7, <2>9, UseStep
<1> QED
  BY <1>3, <1>4

LEMMA SlotRefusedUse ==
    ASSUME UseInv, NEW d \in Devices, NEW c \in Classes, SlotRefused(d, c)
    PROVE  SlotsCounted' /\ BytesCounted'
<1> DEFINE k == Key(d, c)
<1>1. k \in Keys /\ buckets' = With(k, Bucket(k)) /\ UNCHANGED <<held, reserved, stray>>
  BY KeyIs DEF SlotRefused
<1> HIDE DEF k
<1>2. Bucket(k)' = Bucket(k) /\ \A j \in Keys : j # k => Bucket(j)' = Bucket(j)
  BY <1>1, WithIs
<1>3. Counts(k, Bucket(k).inFlight, held[k], stray[k])
  BY <1>1, UseFacts
<1> QED
  BY <1>1, <1>2, <1>3, UseStep

LEMMA ReleaseUse ==
    ASSUME UseInv, NEW k \in Keys, Release(k)
    PROVE  SlotsCounted' /\ BytesCounted'
<1>1. /\ held[k] > 0 /\ held' = [held EXCEPT ![k] = @ - 1] /\ UNCHANGED reserved
      /\ stray' = [stray EXCEPT ![k] = Smaller(@, held[k] - 1)]
      /\ buckets' = IF k \notin DOMAIN buckets THEN buckets
                    ELSE [buckets EXCEPT ![k].inFlight = IF @ = 0 THEN 0 ELSE @ - 1]
  BY DEF Release
<1> DEFINE f == Bucket(k).inFlight
           n == IF f = 0 THEN 0 ELSE f - 1
           b == [Bucket(k) EXCEPT !.inFlight = n]
<1>2. /\ f \in Nat /\ held[k] \in Nat /\ stray[k] \in Nat
      /\ Counts(k, f, held[k], stray[k])
      /\ Limit(k).maxConcurrent # None => Limit(k).maxConcurrent \in Nat
  BY UseFacts
<1>3. Counts(k, n, held[k] - 1, Smaller(stray[k], held[k] - 1)) /\ n \in Nat
  <2> HIDE DEF f
  <2> QED
    BY <1>1, <1>2 DEF Counts, Smaller
<1>4. /\ held'[k] = held[k] - 1 /\ stray'[k] = Smaller(stray[k], held[k] - 1)
      /\ \A j \in Keys : j # k => held'[j] = held[j] /\ stray'[j] = stray[j]
  BY <1>1 DEF UseInv, Strays, RateInv, Types
<1>5. /\ Bucket(k)'.inFlight = n /\ Bucket(k)'.bytes = Bucket(k).bytes
      /\ \A j \in Keys : j # k => Bucket(j)' = Bucket(j)
  <2>1. CASE k \notin DOMAIN buckets
    <3>1. \A j \in Keys : Bucket(j)' = Bucket(j)
      BY <1>1, <2>1 DEF Bucket, NewBucket, Capacity, Limit
    <3>2. f = 0
      BY <2>1 DEF Bucket, NewBucket
    <3> QED
      BY <3>1, <3>2
  <2>2. CASE k \in DOMAIN buckets
    <3>1. buckets' = [buckets EXCEPT ![k] = b]
      BY <1>1, <2>2 DEF Bucket
    <3>2. IsBucket(k, Bucket(k))
      BY DEF UseInv, RateInv, Types
    <3>3. b.inFlight = n /\ b.bytes = Bucket(k).bytes
      <4> HIDE DEF n
      <4> QED
        BY <1>3, <3>2, SlotsUsed
    <3> HIDE DEF b
    <3> QED
      BY <2>2, <3>1, <3>3, OneBucket
  <2> QED
    BY <2>1, <2>2
<1> QED
  BY <1>1, <1>3, <1>4, <1>5, UseStep

(* A step that counts the bytes it reserves or gives back.                  *)
LEMMA BytesStep ==
    ASSUME UseInv, NEW k \in Keys, \A j \in Keys : j # k => Bucket(j)' = Bucket(j),
           held' = held, stray' = stray, \A j \in Keys : j # k => reserved'[j] = reserved[j],
           Bucket(k)'.inFlight = Bucket(k).inFlight,
           Limit(k).maxBytes # None =>
               /\ Bucket(k)'.bytes = Cardinality(BytesIn(reserved'[k]))
               /\ Cardinality(BytesIn(reserved'[k])) <= Limit(k).maxBytes
    PROVE  SlotsCounted' /\ BytesCounted'
<1>1. SlotsCounted'
  <2> SUFFICES ASSUME NEW j \in Keys
               PROVE  Counts(j, Bucket(j)'.inFlight, held[j], stray[j])
    BY DEF SlotsCounted, Counts, Limit
  <2>1. Bucket(j)'.inFlight = Bucket(j).inFlight
    OBVIOUS
  <2> QED
    BY <2>1, UseFacts
<1>2. BytesCounted'
  <2> SUFFICES ASSUME NEW j \in Keys, Limit(j).maxBytes # None
               PROVE  /\ Bucket(j)'.bytes = Cardinality(BytesIn(reserved'[j]))
                      /\ Cardinality(BytesIn(reserved'[j])) <= Limit(j).maxBytes
    BY BytesOutIs DEF BytesCounted, Limit
  <2>1. CASE j = k
    BY <2>1
  <2>2. CASE j # k
    BY <2>2, BytesOutIs DEF UseInv, BytesCounted
  <2> QED
    BY <2>1, <2>2
<1> QED
  BY <1>1, <1>2

LEMMA ReserveUse ==
    ASSUME UseInv, NEW d \in Devices, NEW c \in Classes, NEW n \in Sizes, Reserve(d, c, n)
    PROVE  SlotsCounted' /\ BytesCounted'
<1> DEFINE k == Key(d, c)
           m == Bucket(k).bytes + n
           b == [Bucket(k) EXCEPT !.bytes = m]
<1>1. k \in Keys /\ k[2] = c /\ Limit(k) = Limits[c] /\ n \in Nat
  BY KeyIs, LimitsAssumption
<1>2. /\ Limits[c].maxBytes # None /\ Bucket(k).bytes + n <= Limits[c].maxBytes
      /\ buckets' = With(k, b)
      /\ reserved' = [reserved EXCEPT ![k][n] = @ + 1]
      /\ UNCHANGED <<held, stray>>
  BY DEF Reserve
<1> HIDE DEF k
<1>3. IsBucket(k, Bucket(k)) /\ m \in Nat
  BY <1>1 DEF UseInv, RateInv, Types, IsBucket
<1>4. b.bytes = m /\ b.inFlight = Bucket(k).inFlight
  <2> HIDE DEF m
  <2> QED
    BY <1>1, <1>3, BytesUsed
<1> HIDE DEF b
<1>5. Bucket(k)' = b /\ \A j \in Keys : j # k => Bucket(j)' = Bucket(j)
  BY <1>1, <1>2, WithIs
<1>6. /\ reserved[k] \in [Sizes -> Nat] /\ reserved'[k] \in [Sizes -> Nat]
      /\ reserved'[k] = [reserved[k] EXCEPT ![n] = reserved[k][n] + 1]
      /\ \A j \in Keys : j # k => reserved'[j] = reserved[j]
  <2>1. reserved \in [Keys -> [Sizes -> Nat]]
    BY DEF UseInv, RateInv, Types
  <2>2. reserved[k][n] + 1 \in Nat
    BY <1>1, <2>1
  <2> QED
    BY <1>1, <1>2, <2>1, <2>2
<1>7. Cardinality(BytesIn(reserved'[k])) = Cardinality(BytesIn(reserved[k])) + n
  BY <1>6, OneMore
<1>8. Bucket(k).bytes = Cardinality(BytesIn(reserved[k]))
  BY <1>1, <1>2, BytesOutIs DEF UseInv, BytesCounted
<1>9. /\ Bucket(k)'.bytes = Cardinality(BytesIn(reserved'[k]))
      /\ Cardinality(BytesIn(reserved'[k])) <= Limit(k).maxBytes
  BY <1>1, <1>2, <1>4, <1>5, <1>7, <1>8
<1> QED
  BY <1>1, <1>2, <1>4, <1>5, <1>6, <1>9, BytesStep

LEMMA ReleaseBytesUse ==
    ASSUME UseInv, NEW k \in Keys, NEW n \in Sizes, ReleaseBytes(k, n)
    PROVE  SlotsCounted' /\ BytesCounted'
<1>1. /\ reserved[k][n] > 0 /\ reserved' = [reserved EXCEPT ![k][n] = @ - 1]
      /\ UNCHANGED <<held, stray>>
      /\ buckets' = IF k \notin DOMAIN buckets THEN buckets
                    ELSE [buckets EXCEPT ![k].bytes = IF @ < n THEN 0 ELSE @ - n]
  BY DEF ReleaseBytes
<1>2. /\ reserved[k] \in [Sizes -> Nat] /\ reserved'[k] \in [Sizes -> Nat]
      /\ reserved[k] = [reserved'[k] EXCEPT ![n] = reserved'[k][n] + 1]
      /\ \A j \in Keys : j # k => reserved'[j] = reserved[j]
  <2>1. reserved \in [Keys -> [Sizes -> Nat]]
    BY DEF UseInv, RateInv, Types
  <2>2. reserved[k][n] - 1 \in Nat /\ (reserved[k][n] - 1) + 1 = reserved[k][n]
    BY <1>1, <2>1
  <2>3. reserved'[k] = [reserved[k] EXCEPT ![n] = reserved[k][n] - 1]
    BY <1>1, <2>1
  <2>4. reserved'[k] \in [Sizes -> Nat] /\ reserved'[k][n] = reserved[k][n] - 1
    BY <2>1, <2>2, <2>3
  <2>5. reserved[k] = [reserved'[k] EXCEPT ![n] = reserved[k][n]]
    BY <2>1, <2>3
  <2>6. \A j \in Keys : j # k => reserved'[j] = reserved[j]
    BY <1>1, <2>1
  <2> QED
    BY <2>1, <2>2, <2>4, <2>5, <2>6
<1>3. /\ Cardinality(BytesIn(reserved'[k])) \in Nat
      /\ Cardinality(BytesIn(reserved[k])) = Cardinality(BytesIn(reserved'[k])) + n
  BY <1>2, OneMore
<1>4. n \in Nat
  BY LimitsAssumption
<1>5. CASE k \notin DOMAIN buckets
  <2>1. \A j \in Keys : Bucket(j)' = Bucket(j)
    BY <1>1, <1>5 DEF Bucket, NewBucket, Capacity, Limit
  <2>2. Bucket(k).bytes = 0
    BY <1>5 DEF Bucket, NewBucket
  <2>3. Limit(k).maxBytes # None =>
            /\ Bucket(k).bytes = Cardinality(BytesIn(reserved[k]))
            /\ Cardinality(BytesIn(reserved[k])) <= Limit(k).maxBytes
    BY BytesOutIs DEF UseInv, BytesCounted
  <2>4. Limit(k).maxBytes # None => Limit(k).maxBytes \in Nat
    BY KeyFacts, LimitsAssumption
  <2>5. Limit(k).maxBytes # None =>
            /\ Bucket(k)'.bytes = Cardinality(BytesIn(reserved'[k]))
            /\ Cardinality(BytesIn(reserved'[k])) <= Limit(k).maxBytes
    <3> SUFFICES ASSUME Limit(k).maxBytes # None
                 PROVE  /\ Bucket(k)'.bytes = Cardinality(BytesIn(reserved'[k]))
                        /\ Cardinality(BytesIn(reserved'[k])) <= Limit(k).maxBytes
      OBVIOUS
    <3>1. Cardinality(BytesIn(reserved[k])) = 0
      BY <2>2, <2>3
    <3>2. Cardinality(BytesIn(reserved'[k])) = 0
      BY <1>3, <1>4, <3>1
    <3>3. Bucket(k)'.bytes = 0
      BY <2>1, <2>2
    <3> QED
      BY <2>4, <3>2, <3>3
  <2> QED
    BY <1>1, <1>2, <2>1, <2>5, BytesStep
<1>6. CASE k \in DOMAIN buckets
  <2> DEFINE f == buckets[k].bytes
             m == IF f < n THEN 0 ELSE f - n
             b == [Bucket(k) EXCEPT !.bytes = m]
  <2>1. buckets' = [buckets EXCEPT ![k] = b] /\ Bucket(k) = buckets[k]
    BY <1>1, <1>6 DEF Bucket
  <2>2. IsBucket(k, Bucket(k)) /\ f \in Nat
    BY <2>1 DEF UseInv, RateInv, Types, IsBucket
  <2>3. m \in Nat
    BY <1>4, <2>2
  <2>4. Limit(k).maxBytes # None =>
            /\ f = Cardinality(BytesIn(reserved[k]))
            /\ Cardinality(BytesIn(reserved[k])) <= Limit(k).maxBytes
    BY <2>1, BytesOutIs DEF UseInv, BytesCounted
  <2>5. Limit(k).maxBytes # None => Limit(k).maxBytes \in Nat
    BY KeyFacts, LimitsAssumption
  <2>6. Limit(k).maxBytes # None =>
            /\ m = Cardinality(BytesIn(reserved'[k]))
            /\ Cardinality(BytesIn(reserved'[k])) <= Limit(k).maxBytes
    <3> HIDE DEF f
    <3> QED
      BY <1>3, <1>4, <2>4, <2>5
  <2>7. b.bytes = m /\ b.inFlight = Bucket(k).inFlight
    <3> HIDE DEF m
    <3> QED
      BY <2>2, <2>3, BytesUsed
  <2> HIDE DEF b, m
  <2>8. Bucket(k)' = b /\ \A j \in Keys : j # k => Bucket(j)' = Bucket(j)
    BY <1>6, <2>1, OneBucket
  <2> QED
    BY <1>1, <1>2, <2>6, <2>7, <2>8, BytesStep
<1> QED
  BY <1>5, <1>6

LEMMA ResetUse ==
    ASSUME UseInv, NEW k \in Keys, Reset(k)
    PROVE  SlotsCounted' /\ BytesCounted'
<1> DEFINE b == [Bucket(k) EXCEPT !.tokens = Capacity(k), !.idle = 0]
<1>1. buckets' = With(k, b) /\ UNCHANGED <<held, reserved, stray>>
  BY DEF Reset
<1>2. b.inFlight = Bucket(k).inFlight /\ b.bytes = Bucket(k).bytes
  <2>1. IsBucket(k, Bucket(k))
    BY DEF UseInv, RateInv, Types
  <2> QED
    BY <2>1, FilledUp DEF IsBucket
<1> HIDE DEF b
<1>3. Bucket(k)' = b /\ \A j \in Keys : j # k => Bucket(j)' = Bucket(j)
  BY <1>1, WithIs
<1>4. Counts(k, Bucket(k).inFlight, held[k], stray[k])
  BY UseFacts
<1> QED
  BY <1>1, <1>2, <1>3, <1>4, UseStep

(* A device's buckets count slots and no bytes: the ceiling of bytes is one *)
(* for the daemon.                                                          *)
LEMMA ForgetDeviceUse ==
    ASSUME UseInv, NEW d \in Devices, ForgetDevice(d)
    PROVE  SlotsCounted' /\ BytesCounted'
<1> DEFINE own == KeysOf(d)
<1>1. /\ stray' = [k \in Keys |-> IF k \in own THEN held[k] ELSE stray[k]]
      /\ buckets' = [k \in DOMAIN buckets \ own |-> buckets[k]]
      /\ UNCHANGED <<held, reserved>>
  BY DEF ForgetDevice
<1>2. \A k \in Keys : Limit(k).maxBytes # None => k \notin own
  <2> SUFFICES ASSUME NEW k \in Keys, Limit(k).maxBytes # None, k[1] = d
               PROVE  FALSE
    BY DEF KeysOf
  <2>1. PICK e \in Devices, c \in Classes : k = Key(e, c)
    BY DEF Keys
  <2>2. k[2] = c /\ Limits[c].maxBytes # None
    BY <2>1, KeyIs DEF Limit
  <2>3. Limits[c].scope = "global"
    BY <2>2, LimitsAssumption
  <2>4. k[1] = Everyone
    BY <2>1, <2>3 DEF Key
  <2> QED
    BY <2>4, LimitsAssumption
<1> HIDE DEF own
<1>3. \A k \in Keys : Bucket(k)' = IF k \in own THEN NewBucket(k) ELSE Bucket(k)
  <2>1. \A k \in Keys : NewBucket(k)' = NewBucket(k)
    BY DEF NewBucket, Capacity, Limit
  <2> QED
    BY <1>1, <2>1 DEF Bucket
<1>4. SlotsCounted'
  <2> SUFFICES ASSUME NEW k \in Keys
               PROVE  Counts(k, Bucket(k)'.inFlight, held[k], stray'[k])
    BY <1>1 DEF SlotsCounted, Counts, Limit
  <2>1. /\ held[k] \in Nat
        /\ Counts(k, Bucket(k).inFlight, held[k], stray[k])
        /\ Limit(k).maxConcurrent # None => Limit(k).maxConcurrent \in Nat
    BY UseFacts
  <2>2. CASE k \in own
    <3>1. Bucket(k)'.inFlight = 0 /\ stray'[k] = held[k]
      BY <1>1, <1>3, <2>2 DEF NewBucket
    <3> QED
      BY <2>1, <3>1 DEF Counts
  <2>3. CASE k \notin own
    BY <1>1, <1>3, <2>1, <2>3
  <2> QED
    BY <2>2, <2>3
<1>5. BytesCounted'
  <2> SUFFICES ASSUME NEW k \in Keys, Limit(k).maxBytes # None
               PROVE  /\ Bucket(k)'.bytes = Cardinality(BytesIn(reserved'[k]))
                      /\ Cardinality(BytesIn(reserved'[k])) <= Limit(k).maxBytes
    BY BytesOutIs DEF BytesCounted, Limit
  <2>1. Bucket(k)' = Bucket(k) /\ reserved' = reserved
    BY <1>1, <1>2, <1>3
  <2> QED
    BY <2>1, BytesOutIs DEF UseInv, BytesCounted
<1> QED
  BY <1>4, <1>5

LEMMA TickUse ==
    ASSUME UseInv, Tick
    PROVE  SlotsCounted' /\ BytesCounted'
<1>1. UNCHANGED <<held, reserved, stray>>
  BY DEF Tick
<1>2. \A k \in Keys : Bucket(k)'.inFlight = Bucket(k).inFlight /\ Bucket(k)'.bytes = Bucket(k).bytes
  BY TickIs DEF UseInv
<1>3. SlotsCounted'
  BY <1>1, <1>2 DEF UseInv, SlotsCounted, Limit
<1>4. BytesCounted'
  <2> SUFFICES ASSUME NEW k \in Keys, Limit(k).maxBytes # None
               PROVE  /\ Bucket(k)'.bytes = Cardinality(BytesIn(reserved'[k]))
                      /\ Cardinality(BytesIn(reserved'[k])) <= Limit(k).maxBytes
    BY BytesOutIs DEF BytesCounted, Limit
  <2> QED
    BY <1>1, <1>2, BytesOutIs DEF UseInv, BytesCounted
<1> QED
  BY <1>3, <1>4

LEMMA InitUse == LimiterInit => UseInv
<1> SUFFICES ASSUME LimiterInit
             PROVE  UseInv
  OBVIOUS
<1>1. RateInv
  BY InitRate
<1>2. \A k \in Keys : Bucket(k).inFlight = 0 /\ Bucket(k).bytes = 0 /\ held[k] = 0 /\ stray[k] = 0
  BY DEF LimiterInit, Bucket, NewBucket
<1>3. \A k \in Keys : Limit(k).maxConcurrent # None => Limit(k).maxConcurrent \in Nat
  BY KeyFacts, LimitsAssumption
<1>4. SlotsCounted
  BY <1>2, <1>3 DEF SlotsCounted
<1>5. BytesCounted
  <2> SUFFICES ASSUME NEW k \in Keys, Limit(k).maxBytes # None
               PROVE  /\ Bucket(k).bytes = Cardinality(BytesOut(k))
                      /\ Cardinality(BytesOut(k)) <= Limit(k).maxBytes
    BY DEF BytesCounted
  <2>1. \A n \in Sizes : BytesOf(n, reserved[k][n]) = {}
    <3>1. \A n \in Sizes : reserved[k][n] = 0
      BY DEF LimiterInit
    <3>2. 1..0 = {}
      OBVIOUS
    <3> QED
      BY <3>1, <3>2 DEF BytesOf
  <2>2. BytesOut(k) = {}
    BY <2>1 DEF BytesOut
  <2>3. Limit(k).maxBytes \in Nat
    BY KeyFacts, LimitsAssumption
  <2> QED
    BY <1>2, <2>2, <2>3, FS_EmptySet
<1> QED
  BY <1>1, <1>4, <1>5 DEF LimiterInit, UseInv, Strays

LEMMA StraysStep ==
    ASSUME UseInv, [LimiterNext]_limiterVars
    PROVE  Strays'
<1>1. ASSUME NEW k \in Keys, Release(k)
      PROVE  Strays'
  <2>1. stray' = [stray EXCEPT ![k] = Smaller(@, held[k] - 1)] /\ held[k] > 0
    BY <1>1 DEF Release
  <2>2. held[k] \in Nat /\ stray[k] \in Nat /\ stray \in [Keys -> Nat]
    BY UseFacts DEF UseInv, Strays
  <2>3. Smaller(stray[k], held[k] - 1) \in Nat
    BY <2>1, <2>2 DEF Smaller
  <2> QED
    BY <2>1, <2>2, <2>3 DEF Strays
<1>2. ASSUME NEW d \in Devices, ForgetDevice(d)
      PROVE  Strays'
  <2>1. stray' = [k \in Keys |-> IF k \in KeysOf(d) THEN held[k] ELSE stray[k]]
    BY <1>2 DEF ForgetDevice
  <2>2. \A k \in Keys : held[k] \in Nat /\ stray[k] \in Nat
    BY UseFacts
  <2> QED
    BY <2>1, <2>2 DEF Strays
<1>3. stray' = stray => Strays'
  BY DEF UseInv, Strays
<1>4. ASSUME NEW k, Spend(k, 0) \/ Spend(k, 1) \/ Refuse(k)
      PROVE  stray' = stray
  BY <1>4 DEF Spend, Refuse
<1>5. ASSUME NEW d \in Devices, NEW c \in Classes,
             TryAcquire(d, c) \/ AcquireSlot(d, c) \/ SlotRefused(d, c)
      PROVE  stray' = stray
  <2>1. CASE TryAcquire(d, c)
    BY <1>4, <2>1 DEF TryAcquire
  <2>2. CASE AcquireSlot(d, c)
    BY <1>4, <2>2 DEF AcquireSlot
  <2>3. CASE SlotRefused(d, c)
    BY <2>3 DEF SlotRefused
  <2> QED
    BY <1>5, <2>1, <2>2, <2>3
<1>6. ASSUME NEW d \in Devices, NEW c \in Classes, NEW n \in Sizes, Reserve(d, c, n)
      PROVE  stray' = stray
  BY <1>6 DEF Reserve
<1>7. ASSUME NEW k \in Keys, Reset(k) \/ \E n \in Sizes : ReleaseBytes(k, n)
      PROVE  stray' = stray
  BY <1>7 DEF Reset, ReleaseBytes
<1>8. Tick \/ UNCHANGED limiterVars => stray' = stray
  BY DEF Tick, limiterVars
<1> QED
  BY <1>1, <1>2, <1>3, <1>5, <1>6, <1>7, <1>8 DEF LimiterNext

LEMMA NextUse ==
    UseInv /\ [LimiterNext]_limiterVars => UseInv'
<1> SUFFICES ASSUME UseInv, [LimiterNext]_limiterVars
             PROVE  SlotsCounted' /\ BytesCounted'
  BY NextRate, StraysStep DEF UseInv
<1>1. CASE UNCHANGED limiterVars
  <2>1. SlotsCounted'
    BY <1>1 DEF limiterVars, UseInv, SlotsCounted, Limit, Bucket, NewBucket, Capacity
  <2>2. BytesCounted'
    <3>1. \A k \in Keys : Bucket(k)' = Bucket(k) /\ BytesOut(k)' = BytesOut(k)
      BY <1>1 DEF limiterVars, Bucket, NewBucket, Capacity, Limit, BytesOut, BytesOf
    <3> QED
      BY <3>1 DEF UseInv, BytesCounted, Limit
  <2> QED
    BY <2>1, <2>2
<1>2. ASSUME NEW d \in Devices, NEW c \in Classes, TryAcquire(d, c)
      PROVE  SlotsCounted' /\ BytesCounted'
  BY <1>2, TryAcquireUse
<1>3. ASSUME NEW d \in Devices, NEW c \in Classes, AcquireSlot(d, c)
      PROVE  SlotsCounted' /\ BytesCounted'
  BY <1>3, AcquireSlotUse
<1>4. ASSUME NEW d \in Devices, NEW c \in Classes, SlotRefused(d, c)
      PROVE  SlotsCounted' /\ BytesCounted'
  BY <1>4, SlotRefusedUse
<1>5. ASSUME NEW k \in Keys, Release(k)
      PROVE  SlotsCounted' /\ BytesCounted'
  BY <1>5, ReleaseUse
<1>6. ASSUME NEW k \in Keys, Reset(k)
      PROVE  SlotsCounted' /\ BytesCounted'
  BY <1>6, ResetUse
<1>7. ASSUME NEW d \in Devices, NEW c \in Classes, NEW n \in Sizes, Reserve(d, c, n)
      PROVE  SlotsCounted' /\ BytesCounted'
  BY <1>7, ReserveUse
<1>8. ASSUME NEW k \in Keys, NEW n \in Sizes, ReleaseBytes(k, n)
      PROVE  SlotsCounted' /\ BytesCounted'
  BY <1>8, ReleaseBytesUse
<1>9. ASSUME NEW d \in Devices, ForgetDevice(d)
      PROVE  SlotsCounted' /\ BytesCounted'
  BY <1>9, ForgetDeviceUse
<1>10. CASE Tick
  BY <1>10, TickUse
<1> QED
  BY <1>1, <1>2, <1>3, <1>4, <1>5, <1>6, <1>7, <1>8, <1>9, <1>10 DEF LimiterNext

(* What a bucket counts is what is held and reserved of it, and the         *)
(* ceilings hold, but for the slots a device held when it was forgotten     *)
(* (rate_limit.rs:652-825): these outlive their bucket, and the bucket that *)
(* follows counts that many too few at most, and never one too many.        *)
THEOREM UseIsCounted == LimiterSpec => []UseCounted
<1>1. UseInv => UseCounted
  <2> SUFFICES ASSUME UseInv
               PROVE  LimiterTypeOK
    BY DEF UseInv, UseCounted
  <2>1. Types
    BY DEF UseInv, RateInv
  <2>2. ASSUME NEW k \in DOMAIN buckets
        PROVE  /\ buckets[k].tokens \in 0..Capacity(k) /\ buckets[k].idle \in 0..Horizon
               /\ buckets[k].inFlight \in Nat /\ buckets[k].bytes \in Nat
    <3>1. IsBucket(k, buckets[k])
      BY <2>1 DEF Types, Bucket
    <3> QED
      BY <3>1 DEF IsBucket
  <2>3. ASSUME NEW k \in Keys
        PROVE  held[k] \in 0..MaxHeld[k[2]]
    <3>1. held[k] \in Nat /\ held[k] <= MaxHeld[k[2]] /\ MaxHeld[k[2]] \in Nat
      BY <2>1, KeyFacts, LimitsAssumption DEF Types
    <3> QED
      BY <3>1
  <2>4. /\ DOMAIN buckets \subseteq Keys /\ reserved \in [Keys -> [Sizes -> Nat]]
        /\ DOMAIN exact = Keys /\ DOMAIN promise = Keys /\ asked \in [Keys -> Nat]
        /\ stray \in [Keys -> Nat]
    BY <2>1 DEF Types, UseInv, Strays
  <2> QED
    BY <2>2, <2>3, <2>4 DEF LimiterTypeOK
<1> QED
  BY <1>1, InitUse, NextUse, PTL DEF LimiterSpec
=============================================================================
