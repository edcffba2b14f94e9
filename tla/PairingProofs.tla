--------------------------- MODULE PairingProofs ---------------------------
(***************************************************************************)
(* What a pairing window guarantees, for every set of phones and any       *)
(* number of connections.                                                  *)
(***************************************************************************)
EXTENDS Pairing, TLAPS

\* Whatever depends on a registration: an answer, on its way or received, the
\* connection's own record of it, and the reply being written.
AnswersRecorded ==
    /\ \A p \in told \union answered \union registered : Known(p)
    /\ \A p \in Phones : conn[p] = "reply" => Known(p)

\* A router that opened up either is waiting for its row to be written or has
\* it; one that failed to get it is on a connection that has ended.
OpenedRecorded ==
    \A p \in established : conn[p] \in {"recv", "reply", "refuse"} => Known(p)

IInv == TypeOK /\ AnswersRecorded /\ OpenedRecorded /\ ExecutedIsRecorded
-----------------------------------------------------------------------------
\* The table stays a table, no row disappears and no revoked one comes back.
LEMMA RowsStay ==
  ASSUME db \in [Phones -> Row], NEW q \in Phones,
         db' = db \/ db' = Pair(db, q) \/ db' = Revoke(db, q)
  PROVE  /\ db' \in [Phones -> Row]
         /\ \A p \in Phones : /\ Known(p) => Known(p)'
                              /\ db[p].status = "revoked" => db'[p].status = "revoked"
<1>1. CASE db' = db
  BY <1>1 DEF Known
<1>2. CASE db' = Pair(db, q)
  BY <1>2, GrantAssumption DEF Pair, Pairable, Row, Known
<1>3. CASE db' = Revoke(db, q)
  BY <1>3 DEF Revoke, Row, Known
<1> QED BY <1>1, <1>2, <1>3

\* Only registering and revoking write to the table.
LEMMA Writes ==
  ASSUME [Next]_vars
  PROVE  db' = db \/ \E q \in Phones : db' = Pair(db, q) \/ db' = Revoke(db, q)
BY DEF Next, vars, Dial, LinkDown, Receive, Accept, Serving, RevokeDevice, Deadline, Top, Expire,
   Killed, Return, Fails, Register, WrongCode, Request, Persist, Reply, Refuse, StreamFails, StreamEnds

\* A connection that ends, and a window that ends, take nothing back.
LEMMA FailsStep ==
  ASSUME IInv, NEW p \in Phones, Fails(p)
  PROVE  IInv'
BY DEF IInv, Fails, history, TypeOK, AnswersRecorded, OpenedRecorded, ExecutedIsRecorded, Known

LEMMA ReturnStep ==
  ASSUME IInv, NEW result \in Ended, Return(result)
  PROVE  IInv'
BY DEF IInv, Return, history, TypeOK, AnswersRecorded, OpenedRecorded, ExecutedIsRecorded, Known

\* What a phone and its link do.
LEMMA PhoneStep ==
  ASSUME IInv, NEW p \in Phones,
         Dial(p) \/ LinkDown(p) \/ Receive(p) \/ Accept(p) \/ RevokeDevice(p)
  PROVE  IInv'
<1> USE DEF IInv
<1>1. CASE Dial(p)
  BY <1>1, TriesAssumption DEF Dial, history, TypeOK, AnswersRecorded, OpenedRecorded, ExecutedIsRecorded, Known
<1>2. CASE LinkDown(p)
  BY <1>2 DEF LinkDown, history, TypeOK, AnswersRecorded, OpenedRecorded, ExecutedIsRecorded, Known
<1>3. CASE Receive(p)
  BY <1>3 DEF Receive, TypeOK, AnswersRecorded, OpenedRecorded, ExecutedIsRecorded, Known
<1>4. CASE Accept(p)
  BY <1>4 DEF Accept, history, TypeOK, AnswersRecorded, OpenedRecorded, ExecutedIsRecorded, Known
<1>5. CASE RevokeDevice(p)
  <2>1. db \in [Phones -> Row] /\ db' = Revoke(db, p)
    BY <1>5 DEF TypeOK, RevokeDevice
  <2>2. db' \in [Phones -> Row] /\ \A q \in Phones : Known(q) => Known(q)'
    BY <2>1, RowsStay
  <2>3. UNCHANGED <<loop, late, conn, tries, up, established, registered, answered, told, recorded, executed>>
    BY <1>5 DEF RevokeDevice, history
  <2>4. TypeOK'
    BY <2>2, <2>3 DEF TypeOK
  <2>5. AnswersRecorded' /\ OpenedRecorded' /\ ExecutedIsRecorded'
    BY <2>2, <2>3 DEF TypeOK, AnswersRecorded, OpenedRecorded, ExecutedIsRecorded
  <2> QED BY <2>4, <2>5
<1> QED BY <1>1, <1>2, <1>3, <1>4, <1>5

\* serve_connection.
LEMMA ServingStep ==
  ASSUME IInv, NEW p \in Phones, Serving(p)
  PROVE  IInv'
<1> USE DEF IInv
<1>1. CASE Register(p)
  BY <1>1 DEF Register, history, TypeOK, AnswersRecorded, OpenedRecorded, ExecutedIsRecorded, Known
<1>2. CASE WrongCode(p)
  BY <1>2 DEF WrongCode, history, TypeOK, AnswersRecorded, OpenedRecorded, ExecutedIsRecorded, Known
<1>3. CASE Request(p)
  BY <1>3 DEF Request, TypeOK, AnswersRecorded, OpenedRecorded, ExecutedIsRecorded, Known
<1>4. CASE Persist(p)
  <2>1. CASE Fails(p)
    BY <2>1, FailsStep
  <2>2. CASE Pairable(db, p) /\ db' = Pair(db, p) /\ ~Fails(p)
    <3>1. db \in [Phones -> Row] /\ db' = Pair(db, p)
      BY <2>2 DEF TypeOK
    <3>2. db' \in [Phones -> Row] /\ \A q \in Phones : Known(q) => Known(q)'
      BY <3>1, RowsStay
    <3>3. Known(p)'
      BY <2>2, <3>1 DEF Pair, Known
    <3>4. /\ conn' = [conn EXCEPT ![p] = "reply"]
          /\ registered' = registered \union {p} /\ recorded' = recorded \union {p}
          /\ UNCHANGED <<loop, late, tries, up, established, answered, told, executed>>
      BY <1>4, <2>2 DEF Persist
    <3>5. TypeOK'
      BY <3>2, <3>4 DEF TypeOK
    <3>6. AnswersRecorded' /\ OpenedRecorded' /\ ExecutedIsRecorded'
      BY <3>2, <3>3, <3>4 DEF TypeOK, AnswersRecorded, OpenedRecorded, ExecutedIsRecorded
    <3> QED BY <3>5, <3>6
  <2> QED BY <1>4, <2>1, <2>2 DEF Persist
<1>5. CASE Reply(p)
  <2>1. CASE Fails(p)
    BY <2>1, FailsStep
  <2>2. CASE ~Fails(p)
    BY <1>5, <2>2 DEF Reply, history, TypeOK, AnswersRecorded, OpenedRecorded, ExecutedIsRecorded, Known
  <2> QED BY <2>1, <2>2
<1>6. CASE Refuse(p)
  <2>1. CASE Fails(p)
    BY <2>1, FailsStep
  <2>2. CASE ~Fails(p)
    BY <1>6, <2>2 DEF Refuse, history, TypeOK, AnswersRecorded, OpenedRecorded, ExecutedIsRecorded, Known
  <2> QED BY <2>1, <2>2
<1>7. CASE StreamFails(p)
  BY <1>7, FailsStep DEF StreamFails
<1>8. CASE StreamEnds(p)
  BY <1>8, FailsStep, ReturnStep DEF StreamEnds, Ended
<1> QED BY <1>1, <1>2, <1>3, <1>4, <1>5, <1>6, <1>7, <1>8 DEF Serving

LEMMA Inductive == Spec => []IInv
<1>1. Init => IInv
  <2> SUFFICES ASSUME Init PROVE IInv
    OBVIOUS
  <2>1. db \in [Phones -> Row]
    BY GrantAssumption DEF Init, Row, Unpaired
  <2>2. tries \in [Phones -> 0 .. Tries]
    BY TriesAssumption DEF Init
  <2>3. TypeOK
    BY <2>1, <2>2 DEF Init, TypeOK
  <2>4. AnswersRecorded /\ OpenedRecorded /\ ExecutedIsRecorded
    BY DEF Init, AnswersRecorded, OpenedRecorded, ExecutedIsRecorded
  <2> QED BY <2>3, <2>4 DEF IInv
<1>2. IInv /\ [Next]_vars => IInv'
  <2> SUFFICES ASSUME IInv, [Next]_vars PROVE IInv'
    OBVIOUS
  <2>1. CASE Top \/ Expire \/ Killed
    <3>1. CASE \E result \in Ended : Return(result)
      BY <3>1, ReturnStep
    <3>2. CASE UNCHANGED <<db, late, conn, tries, up, established, registered, answered, history>>
               /\ loop' = "accept"
      BY <3>2 DEF IInv, history, TypeOK, AnswersRecorded, OpenedRecorded, ExecutedIsRecorded, Known
    <3> QED BY <2>1, <3>1, <3>2 DEF Top, Expire, Killed, Ended
  <2>2. CASE Deadline
    BY <2>2 DEF Deadline, IInv, history, TypeOK, AnswersRecorded, OpenedRecorded, ExecutedIsRecorded, Known
  <2>3. CASE UNCHANGED vars
    BY <2>3 DEF vars, IInv, TypeOK, AnswersRecorded, OpenedRecorded, ExecutedIsRecorded, Known
  <2> QED BY <2>1, <2>2, <2>3, PhoneStep, ServingStep DEF Next
<1> QED BY <1>1, <1>2, PTL DEF Spec
-----------------------------------------------------------------------------
\* The window's variables keep their types.
THEOREM TypeCorrect == Spec => []TypeOK
<1>1. IInv => TypeOK
  BY DEF IInv
<1> QED BY <1>1, Inductive, PTL

\* A phone told that it is paired is in the table, however persisting, replying,
\* links and the process fail.
THEOREM ToldMeansRecorded == Spec => []ToldIsRecorded
<1>1. IInv => ToldIsRecorded
  BY DEF IInv, AnswersRecorded, ToldIsRecorded
<1> QED BY <1>1, Inductive, PTL

\* The router opens before the row is written, and yet nothing is executed for
\* a phone without one.
THEOREM NothingBeforeRegistration == Spec => []ExecutedIsRecorded
<1>1. IInv => ExecutedIsRecorded
  BY DEF IInv
<1> QED BY <1>1, Inductive, PTL

\* Pairing again never brings a revoked device back.
THEOREM RevokedStaysRevoked == Spec => RevocationIsFinal
<1>1. IInv /\ [Next]_vars =>
          [\A p \in Phones : db[p].status = "revoked" => db'[p].status = "revoked"]_vars
  <2> SUFFICES ASSUME IInv, [Next]_vars, NEW p \in Phones, db[p].status = "revoked"
               PROVE  db'[p].status = "revoked"
    OBVIOUS
  <2>1. db \in [Phones -> Row]
    BY DEF IInv, TypeOK
  <2>2. PICK q \in Phones : db' = db \/ db' = Pair(db, q) \/ db' = Revoke(db, q)
    BY Writes
  <2> QED BY <2>1, <2>2, RowsStay
<1> QED BY <1>1, Inductive, PTL DEF Spec, RevocationIsFinal
=============================================================================
