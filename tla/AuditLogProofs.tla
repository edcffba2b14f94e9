--------------------------- MODULE AuditLogProofs ---------------------------
(***************************************************************************)
(* Proofs about the audit log.  The inductive invariant says where the     *)
(* chain is whole and where it is broken: as long as nobody damages the    *)
(* tables the rows are the appended ones and link up from the newest       *)
(* checkpoint; after a damage that verify can see there is a number, the   *)
(* break, below which they do and at which they cannot, and since append   *)
(* only adds above the tail and rotate asks verify first, it stays there.  *)
(***************************************************************************)
EXTENDS AuditLog, FiniteSetTheorems, WellFoundedInduction, TLAPS

-----------------------------------------------------------------------------
(* The inductive invariant. *)

IsFcn(f) == f = [x \in DOMAIN f |-> f[x]]

IsRow(e) ==
    /\ e = [mono |-> e.mono, body |-> e.body, prev |-> e.prev, hash |-> e.hash]
    /\ e.mono \in Nat /\ e.body \in Bodies

IsCheckpoint(c) ==
    /\ c = [hash |-> c.hash, removed |-> c.removed, signed |-> c.signed]
    /\ c.removed \in Nat

\* What the rows of an honest log are: each linked to the one before it.
Chain(rows, start, top) ==
    /\ DOMAIN rows = start.seq..top
    /\ \A s \in DOMAIN rows :
           /\ IsRow(rows[s]) /\ IsSelfConsistent(s, rows[s])
           /\ rows[s].prev = IF s = start.seq THEN start.prev ELSE rows[s - 1].hash

\* The kinds of damage that verify sees, and those it alone does not.
Seen == {"edited", "swapped", "rehashed", "spliced", "lost", "garbled"}
Unseen == {"rehashed_tail", "lost_tail", "lost_checkpoint"}
Sound == damage.kind \in {"none", "forged"}

Table(rows) ==
    /\ IsFcn(rows) /\ DOMAIN rows \subseteq 1..MaxSeq
    /\ \A s \in DOMAIN rows : rows[s] = Garbled \/ IsRow(rows[s])

Types ==
    /\ Table(audit)
    /\ IsFcn(checkpoints) /\ DOMAIN checkpoints \subseteq 1..MaxSeq
    /\ \A c \in DOMAIN checkpoints : IsCheckpoint(checkpoints[c])
    /\ IsFcn(genuine)
    /\ DOMAIN walk = Readers /\ DOMAIN report = Readers
    /\ crossed \in [Readers -> BOOLEAN]
    /\ damage = [kind |-> damage.kind, seq |-> damage.seq]
    /\ damage.kind \in {"none", "forged"} \cup Seen \cup Unseen
    /\ damage.seq \in 0..MaxSeq

\* What was appended before any damage is one chain from the first number on.
History ==
    \E n \in 0..MaxSeq : Chain(genuine, [seq |-> FirstSeq, prev |-> Genesis], n)

\* What the checkpoints say of what was appended.
Archive ==
    /\ damage.kind \notin Unseen =>
           \A c \in DOMAIN checkpoints \cap DOMAIN genuine :
               checkpoints[c].hash = genuine[c].hash
    /\ Undamaged => DOMAIN checkpoints \subseteq DOMAIN genuine
    /\ Forged = IF damage.kind = "forged" THEN {damage.seq} ELSE {}

\* Without a damage to the rows: what was appended is there from the newest
\* checkpoint on.
WholeTo(top) ==
    /\ Chain(audit, Start, top) /\ Start.seq <= top + 1
    /\ DOMAIN genuine \subseteq 1..top
    /\ Undamaged => DOMAIN genuine = 1..top
    /\ \A s \in DOMAIN audit \cap DOMAIN genuine : audit[s] = genuine[s]

Whole == Sound => \E top \in 0..MaxSeq : WholeTo(top)

\* With one: the rows link up to the break, and what is wrong there shows.
Break == IF damage.kind = "rehashed" THEN damage.seq + 1 ELSE damage.seq

LinkedTo(rows, start, b) ==
    /\ start.seq \in Nat /\ b \in Nat /\ start.seq <= b
    /\ \A s \in DOMAIN rows : s >= start.seq
    /\ \A s \in start.seq..(b - 1) : s \in DOMAIN rows /\ Follows(rows, start, s)

Missing(rows, b) ==
    /\ b \notin DOMAIN rows
    /\ \E r \in DOMAIN rows : r > b
    /\ \A s \in DOMAIN rows : rows[s] # Garbled

Tampered(rows, b) ==
    /\ b \in DOMAIN rows /\ rows[b] # Garbled /\ ~IsSelfConsistent(b, rows[b])

Unlinked(rows, start, b) ==
    /\ b \in DOMAIN rows /\ rows[b] # Garbled
    /\ IsSelfConsistent(b, rows[b]) /\ ~Follows(rows, start, b)

Undecodable(rows, b) == b \in DOMAIN rows /\ rows[b] = Garbled

BrokenThere ==
    damage.kind \in Seen =>
        /\ LinkedTo(audit, Start, Break)
        /\ damage.kind \in {"edited", "swapped"} => Tampered(audit, Break)
        /\ damage.kind \in {"rehashed", "spliced"} => Unlinked(audit, Start, Break)
        /\ damage.kind = "lost" => Missing(audit, Break)
        /\ damage.kind = "garbled" => Undecodable(audit, Break)

\* A reader whom no rotation crossed walks from where the log starts.
Observed ==
    \A r \in Readers : Undamaged /\ ~crossed[r] =>
        /\ walk[r] # None => walk[r] = Start
        /\ report[r] # None => IsIntact(report[r])

IInv ==
    /\ Types
    /\ History
    /\ Archive
    /\ Whole
    /\ BrokenThere
    /\ Observed
    /\ RemovalsAddUp
    /\ OrderVisible
-----------------------------------------------------------------------------
(* Extremal elements. *)

(* A set of numbers has a least element. *)
LEMMA Least ==
    ASSUME NEW T, T \subseteq Nat, T # {}
    PROVE  \E x \in T : \A y \in T : x <= y
<1>1. IsWellFoundedOn(OpToRel(<, Nat), Nat)
  BY NatLessThanWellFounded
<1>2. PICK x \in T : \A y \in T : ~ (<<y, x>> \in OpToRel(<, Nat))
  BY <1>1, WFMin
<1>3. \A y \in T : ~(y < x)
  BY <1>2 DEF OpToRel
<1> QED
  BY <1>3

(* A bounded one has a greatest. *)
LEMMA Greatest ==
    ASSUME NEW T, NEW n \in Nat, T \subseteq 0..n, T # {}
    PROVE  \E x \in T : \A y \in T : y <= x
<1> DEFINE U == {n - y : y \in T}
<1>1. U \subseteq Nat /\ U # {}
  <2>1. \A y \in T : y \in 0..n /\ n - y \in Nat
    OBVIOUS
  <2> QED
    BY <2>1
<1>2. PICK u \in U : \A v \in U : u <= v
  BY <1>1, Least
<1>3. PICK x \in T : u = n - x
  OBVIOUS
<1>4. ASSUME NEW y \in T PROVE y <= x
  <2>1. n - y \in U
    OBVIOUS
  <2>2. x \in 0..n /\ y \in 0..n /\ n - x <= n - y
    BY <1>2, <1>3, <2>1
  <2> QED
    BY <2>2
<1> QED
  BY <1>4

LEMMA MaxIs ==
    ASSUME NEW S, S \subseteq Nat, NEW m \in S, \A y \in S : y <= m
    PROVE  Max(S) = m
<1>1. Max(S) \in S /\ \A y \in S : y <= Max(S)
  BY DEF Max
<1>2. Max(S) \in Nat /\ m \in Nat
  BY <1>1
<1> QED
  BY <1>1, <1>2

LEMMA MinIs ==
    ASSUME NEW S, S \subseteq Nat, NEW m \in S, \A y \in S : m <= y
    PROVE  Min(S) = m
<1>1. Min(S) \in S /\ \A y \in S : Min(S) <= y
  BY DEF Min
<1>2. Min(S) \in Nat /\ m \in Nat
  BY <1>1
<1> QED
  BY <1>1, <1>2

LEMMA MaxOfNumbers ==
    ASSUME NEW S, NEW n \in Nat, S \subseteq 0..n, S # {}
    PROVE  Max(S) \in S /\ \A y \in S : y <= Max(S)
<1>1. PICK m \in S : \A y \in S : y <= m
  BY Greatest
<1> QED
  <2>1. S \subseteq Nat
    OBVIOUS
  <2> QED
    BY <1>1, <2>1, MaxIs

LEMMA MinOfNumbers ==
    ASSUME NEW S, S \subseteq Nat, S # {}
    PROVE  Min(S) \in S /\ \A y \in S : Min(S) <= y
<1>1. PICK m \in S : \A y \in S : m <= y
  BY Least
<1> QED
  BY <1>1, MinIs

(* The numbers from a on and below b. *)
LEMMA IntervalBelow ==
    ASSUME NEW a \in Nat, NEW b \in Nat, a <= b
    PROVE  a + Cardinality(a..(b - 1)) = b
<1>1. Cardinality(a..(b - 1)) = IF a > b - 1 THEN 0 ELSE (b - 1) - a + 1
  <2>1. a \in Int /\ b - 1 \in Int
    OBVIOUS
  <2> QED
    BY <2>1, FS_Interval
<1> QED
  BY <1>1

-----------------------------------------------------------------------------
(* What verify finds. *)

LEMMA RowIsNotGarbled ==
    ASSUME NEW e, IsRow(e)
    PROVE  e # Garbled
BY DEF IsRow, Garbled

LEMMA NoStraysIntact ==
    ASSUME NEW rows, NEW start
    PROVE  IsIntact(Verify(rows, start)) <=> Strays(rows, start) = {}
<1>1. \A s, cause : ~IsIntact(Broken(s, cause))
  BY DEF IsIntact, Broken
<1>2. IsIntact(Intact(rows))
  BY DEF IsIntact, Intact
<1>3. CASE Strays(rows, start) = {}
  BY <1>2, <1>3 DEF Verify
<1>4. CASE Strays(rows, start) # {}
  BY <1>1, <1>4 DEF Verify
<1> QED
  BY <1>3, <1>4

LEMMA NoStraysStatus ==
    ASSUME NEW rows, NEW start, Strays(rows, start) = {}
    PROVE  Verify(rows, start) = Intact(rows)
BY DEF Verify

(* A chain verifies. *)
LEMMA ChainHasNoStrays ==
    ASSUME NEW rows, NEW start, NEW top, start.seq \in Nat, top \in Nat,
           Chain(rows, start, top)
    PROVE  Strays(rows, start) = {}
<1> SUFFICES ASSUME NEW s \in DOMAIN rows
             PROVE  Follows(rows, start, s)
  BY DEF Strays
<1>1. s \in start.seq..top /\ IsRow(rows[s]) /\ IsSelfConsistent(s, rows[s])
  BY DEF Chain
<1>2. CASE s = start.seq
  BY <1>1, <1>2, RowIsNotGarbled DEF Chain, Follows
<1>3. CASE s # start.seq
  <2>1. s - 1 \in DOMAIN rows /\ IsRow(rows[s - 1])
    BY <1>1, <1>3 DEF Chain
  <2> QED
    BY <1>1, <1>3, <2>1, RowIsNotGarbled DEF Chain, Follows
<1> QED
  BY <1>2, <1>3

(* Where the rows link up to a row that does not follow, the walk stops at  *)
(* that row, and expects it.                                                *)
LEMMA StopsAtTheBreak ==
    ASSUME NEW rows, NEW start, NEW b, Table(rows), LinkedTo(rows, start, b),
           b \in DOMAIN rows, ~Follows(rows, start, b)
    PROVE  /\ Strays(rows, start) # {}
           /\ Min(Strays(rows, start)) = b
           /\ start.seq + Cardinality({r \in DOMAIN rows : r < b}) = b
<1>1. DOMAIN rows \subseteq Nat
  BY DEF Table
<1>2. b \in Strays(rows, start) /\ Strays(rows, start) \subseteq Nat
  BY <1>1 DEF Strays
<1>3. ASSUME NEW s \in Strays(rows, start) PROVE b <= s
  <2>1. s \in DOMAIN rows /\ s \in Nat /\ s >= start.seq /\ ~Follows(rows, start, s)
    BY <1>1 DEF Strays, LinkedTo
  <2>2. s \notin start.seq..(b - 1)
    BY <2>1 DEF LinkedTo
  <2> QED
    BY <2>1, <2>2 DEF LinkedTo
<1>4. Min(Strays(rows, start)) = b
  BY <1>2, <1>3, MinIs
<1>5. {r \in DOMAIN rows : r < b} = start.seq..(b - 1)
  BY <1>1 DEF LinkedTo
<1>6. start.seq + Cardinality(start.seq..(b - 1)) = b
  BY IntervalBelow DEF LinkedTo
<1> QED
  BY <1>2, <1>4, <1>5, <1>6

LEMMA TamperedStatus ==
    ASSUME NEW rows, NEW start, NEW b, Table(rows), LinkedTo(rows, start, b),
           Tampered(rows, b)
    PROVE  Verify(rows, start) = Broken(b, "ContentTampered")
<1>1. ~Follows(rows, start, b)
  BY DEF Tampered, Follows
<1> QED
  BY <1>1, StopsAtTheBreak DEF Tampered, Verify

LEMMA UnlinkedStatus ==
    ASSUME NEW rows, NEW start, NEW b, Table(rows), LinkedTo(rows, start, b),
           Unlinked(rows, start, b)
    PROVE  Verify(rows, start) = Broken(b, "BrokenLink")
BY StopsAtTheBreak DEF Unlinked, Verify

LEMMA UndecodableStatus ==
    ASSUME NEW rows, NEW start, NEW b, Table(rows), LinkedTo(rows, start, b),
           Undecodable(rows, b)
    PROVE  Verify(rows, start) = Broken(b, "UndecodableRow")
<1>1. ~Follows(rows, start, b)
  BY DEF Undecodable, Follows
<1> QED
  BY <1>1, StopsAtTheBreak DEF Undecodable, Verify

(* Where a row is missing, the walk stops at the next one there is.         *)
LEMMA MissingStatus ==
    ASSUME NEW rows, NEW start, NEW b, Table(rows), LinkedTo(rows, start, b),
           Missing(rows, b)
    PROVE  Verify(rows, start) = Broken(b, "MissingEntry")
<1> DEFINE Above == {r \in DOMAIN rows : r > b}
           m == Min(Above)
<1>1. DOMAIN rows \subseteq Nat /\ b \in Nat /\ start.seq \in Nat /\ start.seq <= b
  BY DEF Table, LinkedTo
<1>2. Above \subseteq Nat /\ Above # {}
  BY <1>1 DEF Missing
<1>3. m \in Above /\ \A r \in Above : m <= r
  <2> HIDE DEF Above
  <2> QED
    BY <1>2, MinOfNumbers
<1>4. m \in DOMAIN rows /\ m \in Nat /\ m > b
  BY <1>1, <1>3
<1>5. m - 1 \notin DOMAIN rows
  <2>1. CASE m - 1 = b
    BY <2>1 DEF Missing
  <2>2. CASE m - 1 > b
    BY <1>3, <1>4, <2>2
  <2> QED
    BY <1>1, <1>4, <2>1, <2>2
<1>6. ~Follows(rows, start, m)
  BY <1>1, <1>4, <1>5 DEF Follows
<1>7. \A r \in DOMAIN rows : r < m <=> r \in start.seq..(b - 1)
  <2> SUFFICES ASSUME NEW r \in DOMAIN rows
               PROVE  r < m <=> r \in start.seq..(b - 1)
    OBVIOUS
  <2>1. r \in Nat /\ r >= start.seq /\ r # b
    BY <1>1 DEF LinkedTo, Missing
  <2>2. r > b => m <= r
    BY <1>3
  <2> QED
    BY <1>1, <1>4, <2>1, <2>2
<1>8. {r \in DOMAIN rows : r < m} = start.seq..(b - 1)
  BY <1>7 DEF LinkedTo
<1>9. Strays(rows, start) # {} /\ Min(Strays(rows, start)) = m
  <2> HIDE DEF m
  <2>1. m \in Strays(rows, start) /\ Strays(rows, start) \subseteq Nat
    BY <1>1, <1>4, <1>6 DEF Strays
  <2>2. ASSUME NEW s \in Strays(rows, start) PROVE m <= s
    <3>1. s \in DOMAIN rows /\ s \in Nat /\ ~Follows(rows, start, s)
      BY <1>1 DEF Strays
    <3>2. s \notin start.seq..(b - 1)
      BY <3>1 DEF LinkedTo
    <3> QED
      BY <1>4, <1>7, <3>1, <3>2
  <2> QED
    BY <2>1, <2>2, MinIs
<1>10. start.seq + Cardinality({r \in DOMAIN rows : r < m}) = b
  BY <1>1, <1>8, IntervalBelow
<1>11. rows[m] # Garbled /\ m # b
  BY <1>1, <1>4 DEF Missing
<1> HIDE DEF m
<1> QED
  BY <1>9, <1>10, <1>11 DEF Verify
-----------------------------------------------------------------------------
(* Chains: what an operation makes of one. *)

LEMMA FunctionsByDomain ==
    ASSUME NEW f, IsFcn(f)
    PROVE  f = <<>> <=> DOMAIN f = {}
<1>1. DOMAIN <<>> = {}
  OBVIOUS
<1>2. ASSUME DOMAIN f = {} PROVE f = <<>>
  <2>1. f = [x \in {} |-> f[x]]
    BY <1>2 DEF IsFcn
  <2>2. [x \in {} |-> f[x]] = <<>>
    OBVIOUS
  <2> QED
    BY <2>1, <2>2
<1> QED
  BY <1>1, <1>2

LEMMA ExtendIs ==
    ASSUME NEW f, NEW s, NEW v
    PROVE  /\ IsFcn(Extend(f, s, v))
           /\ DOMAIN Extend(f, s, v) = DOMAIN f \cup {s}
           /\ Extend(f, s, v)[s] = v
           /\ \A x \in DOMAIN f : x # s => Extend(f, s, v)[x] = f[x]
BY DEF Extend, IsFcn

LEMMA RestrictedIs ==
    ASSUME NEW f, NEW S
    PROVE  /\ IsFcn(Restricted(f, S))
           /\ DOMAIN Restricted(f, S) = S
           /\ \A x \in S : Restricted(f, S)[x] = f[x]
BY DEF Restricted, IsFcn

LEMMA EntryIsRow ==
    ASSUME NEW seq, NEW mono \in Nat, NEW body \in Bodies, NEW prev
    PROVE  /\ IsRow(Entry(seq, mono, body, prev))
           /\ IsSelfConsistent(seq, Entry(seq, mono, body, prev))
           /\ Entry(seq, mono, body, prev).mono = mono
           /\ Entry(seq, mono, body, prev).body = body
           /\ Entry(seq, mono, body, prev).prev = prev
           /\ Entry(seq, mono, body, prev).hash = <<seq, mono, body, prev>>
BY DEF Entry, IsRow, IsSelfConsistent, Hash

LEMMA ChainExtended ==
    ASSUME NEW rows, NEW start, NEW top \in Nat, NEW e,
           start.seq \in Nat, start.seq <= top + 1, Chain(rows, start, top),
           IsRow(e), IsSelfConsistent(top + 1, e),
           e.prev = IF top + 1 = start.seq THEN start.prev ELSE rows[top].hash
    PROVE  Chain(Extend(rows, top + 1, e), start, top + 1)
<1> DEFINE new == Extend(rows, top + 1, e)
<1>1. DOMAIN rows = start.seq..top
  BY DEF Chain
<1>2. DOMAIN new = start.seq..(top + 1)
  <2>1. DOMAIN new = DOMAIN rows \cup {top + 1}
    BY DEF Extend
  <2> HIDE DEF new
  <2> QED
    BY <1>1, <2>1
<1>3. new[top + 1] = e /\ \A s \in start.seq..top : new[s] = rows[s]
  <2>1. new[top + 1] = e /\ \A s \in DOMAIN rows : s # top + 1 => new[s] = rows[s]
    BY DEF Extend
  <2> HIDE DEF new
  <2>2. \A s \in start.seq..top : s # top + 1
    OBVIOUS
  <2> QED
    BY <1>1, <2>1, <2>2
<1> HIDE DEF new
<1>4. ASSUME NEW s \in start.seq..(top + 1)
      PROVE  /\ IsRow(new[s]) /\ IsSelfConsistent(s, new[s])
             /\ new[s].prev = IF s = start.seq THEN start.prev ELSE new[s - 1].hash
  <2>1. CASE s = top + 1
    <3>1. s # start.seq => top \in start.seq..top
      BY <2>1
    <3> QED
      BY <1>3, <2>1, <3>1
  <2>2. CASE s # top + 1
    <3>1. s \in start.seq..top /\ (s # start.seq => s - 1 \in start.seq..top)
      BY <2>2
    <3> QED
      BY <1>1, <1>3, <3>1 DEF Chain
  <2> QED
    BY <2>1, <2>2
<1> QED
  BY <1>2, <1>4 DEF Chain, new

LEMMA ChainSuffix ==
    ASSUME NEW rows, NEW start, NEW top \in Nat, NEW through \in DOMAIN rows,
           start.seq \in Nat, Chain(rows, start, top)
    PROVE  Chain(Restricted(rows, DOMAIN rows \ {s \in DOMAIN rows : s <= through}),
                 [seq |-> through + 1, prev |-> rows[through].hash], top)
<1> DEFINE kept == DOMAIN rows \ {s \in DOMAIN rows : s <= through}
           new == Restricted(rows, kept)
<1>1. DOMAIN rows = start.seq..top
  BY DEF Chain
<1>2. kept = (through + 1)..top
  BY <1>1
<1>3. DOMAIN new = (through + 1)..top /\ \A s \in (through + 1)..top : new[s] = rows[s]
  BY <1>2, RestrictedIs
<1> HIDE DEF new, kept
<1>4. ASSUME NEW s \in (through + 1)..top
      PROVE  /\ IsRow(new[s]) /\ IsSelfConsistent(s, new[s])
             /\ new[s].prev = IF s = through + 1 THEN rows[through].hash
                              ELSE new[s - 1].hash
  <2>1. s \in start.seq..top /\ s # start.seq /\ s - 1 \in start.seq..top
    BY <1>1
  <2>2. rows[s].prev = rows[s - 1].hash /\ IsRow(rows[s]) /\ IsSelfConsistent(s, rows[s])
    BY <1>1, <2>1 DEF Chain
  <2>3. s # through + 1 => new[s - 1] = rows[s - 1]
    <3>1. s # through + 1 => s - 1 \in (through + 1)..top
      BY <1>1
    <3> QED
      BY <1>3, <3>1
  <2>4. s = through + 1 => s - 1 = through
    BY <1>1
  <2> QED
    BY <1>3, <2>2, <2>3, <2>4
<1> QED
  BY <1>3, <1>4 DEF Chain, new, kept

LEMMA FollowsSame ==
    ASSUME NEW rows, NEW other, NEW start, NEW s, Follows(rows, start, s),
           other[s] = rows[s],
           s # start.seq => s - 1 \in DOMAIN other /\ other[s - 1] = rows[s - 1]
    PROVE  Follows(other, start, s)
BY DEF Follows

(* Whatever happens above the break, and at it, leaves what is below.       *)
LEMMA LinkedSame ==
    ASSUME NEW rows, NEW other, NEW start, NEW b, LinkedTo(rows, start, b),
           \A s \in DOMAIN other : s >= start.seq,
           \A s \in start.seq..(b - 1) : s \in DOMAIN other /\ other[s] = rows[s]
    PROVE  LinkedTo(other, start, b)
<1>1. ASSUME NEW s \in start.seq..(b - 1) PROVE Follows(other, start, s)
  <2>1. s # start.seq => s - 1 \in start.seq..(b - 1)
    BY DEF LinkedTo
  <2> QED
    BY <2>1, FollowsSame DEF LinkedTo
<1> QED
  BY <1>1 DEF LinkedTo

LEMMA ChainLinked ==
    ASSUME NEW rows, NEW start, NEW top \in Nat, NEW b \in start.seq..(top + 1),
           start.seq \in Nat, Chain(rows, start, top)
    PROVE  LinkedTo(rows, start, b)
<1>1. DOMAIN rows = start.seq..top
  BY DEF Chain
<1>2. \A s \in DOMAIN rows : Follows(rows, start, s)
  BY ChainHasNoStrays DEF Strays
<1> QED
  BY <1>1, <1>2 DEF LinkedTo

(* Where the walk starts: behind the newest checkpoint.                     *)
LEMMA StartIs ==
    ASSUME Types
    PROVE  /\ Start.seq \in Nat /\ Start.seq >= 1
           /\ DOMAIN checkpoints = {} => Start = [seq |-> FirstSeq, prev |-> Genesis]
           /\ DOMAIN checkpoints # {} =>
                  /\ LatestCheckpoint \in DOMAIN checkpoints
                  /\ \A c \in DOMAIN checkpoints : c <= LatestCheckpoint
                  /\ Start = [seq |-> LatestCheckpoint + 1,
                              prev |-> checkpoints[LatestCheckpoint].hash]
<1>1. checkpoints = <<>> <=> DOMAIN checkpoints = {}
  BY FunctionsByDomain DEF Types
<1>2. DOMAIN checkpoints \subseteq 1..MaxSeq /\ MaxSeq \in Nat
  BY AuditAssumption DEF Types
<1>3. CASE DOMAIN checkpoints = {}
  BY <1>1, <1>3 DEF Start, FirstSeq
<1>4. CASE DOMAIN checkpoints # {}
  <2>1. DOMAIN checkpoints \subseteq 0..MaxSeq
    BY <1>2
  <2>2. /\ LatestCheckpoint \in DOMAIN checkpoints
        /\ \A c \in DOMAIN checkpoints : c <= LatestCheckpoint
    BY <1>2, <1>4, <2>1, MaxOfNumbers DEF LatestCheckpoint
  <2>3. Start = [seq |-> LatestCheckpoint + 1, prev |-> checkpoints[LatestCheckpoint].hash]
    BY <1>1, <1>4 DEF Start
  <2> QED
    BY <1>2, <1>4, <2>2, <2>3
<1> QED
  BY <1>3, <1>4

(* What an append writes, and where.                                        *)
LEMMA AppendWrites ==
    ASSUME Types, NEW reading \in Clock, NEW body \in Bodies, Append(reading, body)
    PROVE  \E seq \in 1..MaxSeq : \E e :
               /\ IsRow(e) /\ IsSelfConsistent(seq, e)
               /\ audit' = Extend(audit, seq, e)
               /\ genuine' = IF Undamaged THEN Extend(genuine, seq, e) ELSE genuine
               /\ DOMAIN audit = {} => seq = Start.seq /\ e.prev = Start.prev
               /\ DOMAIN audit # {} =>
                      /\ seq - 1 \in DOMAIN audit /\ audit[seq - 1] # Garbled
                      /\ \A s \in DOMAIN audit : s <= seq - 1
                      /\ e.prev = audit[seq - 1].hash
                      /\ e.mono > audit[seq - 1].mono
<1> DEFINE tail == Max(DOMAIN audit)
           floor == IF audit = <<>> THEN 0 ELSE audit[tail].mono + 1
           seq == IF audit = <<>> THEN Start.seq ELSE tail + 1
           prev == IF audit = <<>> THEN Start.prev ELSE audit[tail].hash
           mono == IF reading >= floor THEN reading ELSE floor
           e == Entry(seq, mono, body, prev)
<1>1. /\ audit # <<>> => audit[tail] # Garbled /\ IsSelfConsistent(tail, audit[tail])
      /\ seq <= MaxSeq
      /\ audit' = Extend(audit, seq, e)
      /\ genuine' = IF Undamaged THEN Extend(genuine, seq, e) ELSE genuine
  BY DEF Append
<1>2. audit = <<>> <=> DOMAIN audit = {}
  BY FunctionsByDomain DEF Types, Table
<1>3. reading \in Nat /\ MaxSeq \in Nat /\ DOMAIN audit \subseteq 0..MaxSeq
  BY AuditAssumption DEF Types, Table
<1>4. CASE DOMAIN audit = {}
  <2>1. seq = Start.seq /\ prev = Start.prev /\ floor = 0
    BY <1>2, <1>4
  <2>2. mono \in Nat
    BY <1>3, <2>1
  <2>3. seq \in 1..MaxSeq
    BY <1>1, <1>3, <2>1, StartIs
  <2> HIDE DEF seq, mono, prev
  <2>4. IsRow(e) /\ IsSelfConsistent(seq, e) /\ e.prev = prev
    BY <2>2, EntryIsRow
  <2> HIDE DEF e
  <2> QED
    BY <1>1, <1>4, <2>1, <2>3, <2>4
<1>5. CASE DOMAIN audit # {}
  <2>1. tail \in DOMAIN audit /\ \A s \in DOMAIN audit : s <= tail
    BY <1>3, <1>5, MaxOfNumbers
  <2>2. seq = tail + 1 /\ prev = audit[tail].hash /\ floor = audit[tail].mono + 1
    BY <1>2, <1>5
  <2> HIDE DEF tail
  <2>3. audit[tail] # Garbled /\ IsRow(audit[tail]) /\ audit[tail].mono \in Nat
    BY <1>1, <1>2, <1>5, <2>1 DEF Types, Table, IsRow
  <2>4. mono \in Nat /\ mono > audit[tail].mono
    BY <1>3, <2>2, <2>3
  <2>5. tail \in Nat /\ tail >= 1 /\ seq \in 1..MaxSeq /\ seq - 1 = tail
    <3>1. tail \in 1..MaxSeq
      BY <2>1 DEF Types, Table
    <3> QED
      BY <1>1, <1>3, <2>2, <3>1
  <2> HIDE DEF seq, mono, prev
  <2>6. IsRow(e) /\ IsSelfConsistent(seq, e) /\ e.prev = prev /\ e.mono = mono
    BY <2>4, EntryIsRow
  <2> HIDE DEF e
  <2> QED
    BY <1>1, <1>5, <2>1, <2>2, <2>3, <2>4, <2>5, <2>6
<1> QED
  BY <1>4, <1>5

-----------------------------------------------------------------------------
(* The operations. *)

LEMMA SameStart ==
    ASSUME UNCHANGED checkpoints
    PROVE  Start' = Start
BY DEF Start, LatestCheckpoint

(* Where verify sees a damage, the log does not rotate.                     *)
LEMMA SeenIsBroken ==
    ASSUME Types, BrokenThere, damage.kind \in Seen
    PROVE  ~IsIntact(Status)
<1> DEFINE Causes == {"ContentTampered", "BrokenLink", "MissingEntry", "UndecodableRow"}
<1>1. \E cause \in Causes : Verify(audit, Start) = Broken(Break, cause)
  <2>1. Table(audit) /\ LinkedTo(audit, Start, Break)
    BY DEF Types, BrokenThere
  <2>2. CASE Tampered(audit, Break)
    BY <2>1, <2>2, TamperedStatus
  <2>3. CASE Unlinked(audit, Start, Break)
    BY <2>1, <2>3, UnlinkedStatus
  <2>4. CASE Missing(audit, Break)
    BY <2>1, <2>4, MissingStatus
  <2>5. CASE Undecodable(audit, Break)
    BY <2>1, <2>5, UndecodableStatus
  <2> QED
    BY <2>2, <2>3, <2>4, <2>5 DEF BrokenThere, Seen
<1> QED
  BY <1>1 DEF Status, IsIntact, Broken

(* A row added above the break leaves it where it is.                       *)
LEMMA BreakStays ==
    ASSUME Types, BrokenThere, NEW seq \in Nat, NEW e, IsRow(e),
           damage.kind \in Seen, UNCHANGED <<checkpoints, damage>>,
           audit' = Extend(audit, seq, e),
           DOMAIN audit # {} => \A s \in DOMAIN audit : s < seq
    PROVE  BrokenThere'
<1> DEFINE b == Break
<1>1. Start' = Start /\ Break' = b
  BY SameStart DEF Break
<1>2. LinkedTo(audit, Start, b) /\ Table(audit)
  BY DEF BrokenThere, Types
<1>3. DOMAIN audit \subseteq Nat /\ b \in Nat /\ Start.seq \in Nat
  BY <1>2 DEF Table, LinkedTo
<1>4. b < seq
  <2>1. b \in DOMAIN audit \/ \E r \in DOMAIN audit : r > b
    BY DEF BrokenThere, Seen, Tampered, Unlinked, Missing, Undecodable
  <2> QED
    BY <1>3, <2>1
<1>5. /\ DOMAIN audit' = DOMAIN audit \cup {seq}
      /\ audit'[seq] = e
      /\ \A s \in DOMAIN audit : audit'[s] = audit[s]
  <2>1. \A s \in DOMAIN audit : s # seq
    BY <1>3
  <2> QED
    BY <2>1 DEF Extend
<1>6. LinkedTo(audit', Start, b)
  <2>1. \A s \in DOMAIN audit' : s >= Start.seq
    BY <1>2, <1>3, <1>4, <1>5 DEF LinkedTo
  <2>2. \A s \in Start.seq..(b - 1) : s \in DOMAIN audit' /\ audit'[s] = audit[s]
    BY <1>2, <1>5 DEF LinkedTo
  <2> QED
    BY <1>2, <2>1, <2>2, LinkedSame
<1>7. Tampered(audit, b) => Tampered(audit', b)
  BY <1>5 DEF Tampered
<1>8. Undecodable(audit, b) => Undecodable(audit', b)
  BY <1>5 DEF Undecodable
<1>9. Missing(audit, b) => Missing(audit', b)
  BY <1>3, <1>4, <1>5, RowIsNotGarbled DEF Missing
<1>10. ASSUME Unlinked(audit, Start, b) PROVE Unlinked(audit', Start, b)
  <2>1. b # Start.seq => b - 1 \in DOMAIN audit /\ audit'[b - 1] = audit[b - 1]
    BY <1>2, <1>3, <1>5 DEF LinkedTo
  <2>2. b \in DOMAIN audit /\ audit'[b] = audit[b]
    BY <1>5, <1>10 DEF Unlinked
  <2>3. ~Follows(audit', Start, b)
    BY <1>10, <2>1, <2>2, FollowsSame DEF Unlinked
  <2> QED
    BY <1>5, <1>10, <2>2, <2>3 DEF Unlinked
<1> HIDE DEF b
<1>11. BrokenThere' = (damage.kind \in Seen =>
        /\ LinkedTo(audit', Start, b)
        /\ damage.kind \in {"edited", "swapped"} => Tampered(audit', b)
        /\ damage.kind \in {"rehashed", "spliced"} => Unlinked(audit', Start, b)
        /\ damage.kind = "lost" => Missing(audit', b)
        /\ damage.kind = "garbled" => Undecodable(audit', b))
  BY <1>1 DEF BrokenThere
<1> QED
  BY <1>6, <1>7, <1>8, <1>9, <1>10, <1>11 DEF BrokenThere, b

(* An entry appended to a whole log is the successor of its last one, and   *)
(* of the last one appended.                                                *)
LEMMA AppendGoesOn ==
    ASSUME Types, History, Archive, NEW top \in 0..MaxSeq, WholeTo(top),
           NEW seq \in 1..MaxSeq, NEW e,
           DOMAIN audit = {} => seq = Start.seq /\ e.prev = Start.prev,
           DOMAIN audit # {} =>
               /\ seq - 1 \in DOMAIN audit /\ \A s \in DOMAIN audit : s <= seq - 1
               /\ e.prev = audit[seq - 1].hash
    PROVE  /\ seq = top + 1
           /\ e.prev = IF seq = Start.seq THEN Start.prev ELSE audit[top].hash
           /\ Undamaged => e.prev = IF seq = 1 THEN Genesis ELSE genuine[top].hash
<1>1. /\ DOMAIN audit = Start.seq..top /\ Start.seq <= top + 1
      /\ Start.seq \in Nat /\ Start.seq >= 1 /\ top \in Nat
  BY StartIs, AuditAssumption DEF WholeTo, Chain
<1>2. CASE DOMAIN audit = {}
  <2>1. Start.seq = top + 1
    BY <1>1, <1>2
  <2>2. ASSUME Undamaged PROVE e.prev = IF seq = 1 THEN Genesis ELSE genuine[top].hash
    <3>1. CASE DOMAIN checkpoints = {}
      BY <1>2, <3>1, StartIs DEF FirstSeq
    <3>2. CASE DOMAIN checkpoints # {}
      <4>1. /\ LatestCheckpoint \in DOMAIN checkpoints
            /\ Start = [seq |-> LatestCheckpoint + 1,
                        prev |-> checkpoints[LatestCheckpoint].hash]
        BY <3>2, StartIs
      <4>2. LatestCheckpoint = top /\ seq # 1
        <5>1. LatestCheckpoint \in 1..MaxSeq
          BY <4>1 DEF Types
        <5> QED
          BY <1>1, <1>2, <2>1, <4>1, <5>1, AuditAssumption
      <4>3. checkpoints[top].hash = genuine[top].hash
        BY <2>2, <4>1, <4>2 DEF Archive, Undamaged, Unseen
      <4> QED
        BY <1>2, <4>1, <4>2, <4>3
    <3> QED
      BY <3>1, <3>2
  <2> QED
    BY <1>2, <2>1, <2>2
<1>3. CASE DOMAIN audit # {}
  <2>1. seq = top + 1 /\ seq # Start.seq /\ top \in DOMAIN audit /\ seq # 1
    BY <1>1, <1>3
  <2>2. e.prev = audit[top].hash
    BY <1>1, <1>3, <2>1
  <2>3. Undamaged => audit[top] = genuine[top]
    BY <1>1, <2>1 DEF WholeTo
  <2> QED
    BY <2>1, <2>2, <2>3
<1> QED
  BY <1>2, <1>3

LEMMA AppendStep ==
    ASSUME IInv, NEW reading \in Clock, NEW body \in Bodies, Append(reading, body)
    PROVE  IInv'
<1>1. PICK seq \in 1..MaxSeq : \E e :
          /\ IsRow(e) /\ IsSelfConsistent(seq, e)
          /\ audit' = Extend(audit, seq, e)
          /\ genuine' = IF Undamaged THEN Extend(genuine, seq, e) ELSE genuine
          /\ DOMAIN audit = {} => seq = Start.seq /\ e.prev = Start.prev
          /\ DOMAIN audit # {} =>
                 /\ seq - 1 \in DOMAIN audit /\ audit[seq - 1] # Garbled
                 /\ \A s \in DOMAIN audit : s <= seq - 1
                 /\ e.prev = audit[seq - 1].hash
                 /\ e.mono > audit[seq - 1].mono
  BY AppendWrites DEF IInv
<1>2. PICK e :
          /\ IsRow(e) /\ IsSelfConsistent(seq, e)
          /\ audit' = Extend(audit, seq, e)
          /\ genuine' = IF Undamaged THEN Extend(genuine, seq, e) ELSE genuine
          /\ DOMAIN audit = {} => seq = Start.seq /\ e.prev = Start.prev
          /\ DOMAIN audit # {} =>
                 /\ seq - 1 \in DOMAIN audit /\ audit[seq - 1] # Garbled
                 /\ \A s \in DOMAIN audit : s <= seq - 1
                 /\ e.prev = audit[seq - 1].hash
                 /\ e.mono > audit[seq - 1].mono
  BY <1>1
<1>3. UNCHANGED <<checkpoints, walk, report, crossed, damage>> /\ Start' = Start
  BY SameStart DEF Append
<1>4. MaxSeq \in Nat /\ seq \in Nat /\ DOMAIN audit \subseteq 1..MaxSeq
  BY AuditAssumption DEF IInv, Types, Table
<1>5. \A s \in DOMAIN audit : s < seq
  BY <1>2, <1>4
<1>6. /\ IsFcn(audit') /\ DOMAIN audit' = DOMAIN audit \cup {seq} /\ audit'[seq] = e
      /\ \A s \in DOMAIN audit : audit'[s] = audit[s]
  <2>1. \A s \in DOMAIN audit : s # seq
    BY <1>4, <1>5
  <2> QED
    BY <1>2, <2>1 DEF Extend, IsFcn
<1>7. ASSUME NEW top \in 0..MaxSeq, WholeTo(top)
      PROVE  /\ seq = top + 1 /\ top \in Nat
             /\ e.prev = IF seq = Start.seq THEN Start.prev ELSE audit[top].hash
             /\ Undamaged => e.prev = IF seq = 1 THEN Genesis ELSE genuine[top].hash
  BY <1>2, <1>4, <1>7, AppendGoesOn DEF IInv
<1>8. Types'
  <2>1. Table(audit)'
    BY <1>2, <1>4, <1>6 DEF IInv, Types, Table
  <2>2. IsFcn(genuine')
    BY <1>2 DEF IInv, Types, IsFcn, Extend
  <2> QED
    BY <1>3, <2>1, <2>2 DEF IInv, Types
<1>9. ASSUME Undamaged
      PROVE  /\ Chain(genuine', [seq |-> FirstSeq, prev |-> Genesis], seq)
             /\ DOMAIN genuine' = DOMAIN genuine \cup {seq}
             /\ genuine'[seq] = e
             /\ \A s \in DOMAIN genuine : genuine'[s] = genuine[s]
             /\ seq \notin DOMAIN genuine
  <2>1. PICK top \in 0..MaxSeq : WholeTo(top)
    BY <1>9 DEF IInv, Whole, Sound, Undamaged
  <2>2. seq = top + 1 /\ top \in Nat /\ DOMAIN genuine = 1..top
    BY <1>7, <1>9, <2>1 DEF WholeTo
  <2>3. genuine' = Extend(genuine, top + 1, e)
    BY <1>2, <1>9, <2>2
  <2>4. Chain(genuine, [seq |-> FirstSeq, prev |-> Genesis], top)
    BY <2>2 DEF IInv, History, Chain, FirstSeq
  <2>5. e.prev = IF top + 1 = FirstSeq THEN Genesis ELSE genuine[top].hash
    BY <1>7, <1>9, <2>1, <2>2 DEF FirstSeq
  <2>6. Chain(genuine', [seq |-> FirstSeq, prev |-> Genesis], top + 1)
    <3> DEFINE first == [seq |-> FirstSeq, prev |-> Genesis]
    <3>1. first.seq = FirstSeq /\ first.prev = Genesis /\ first.seq \in Nat
          /\ first.seq <= top + 1
      BY <2>2 DEF FirstSeq
    <3> HIDE DEF first
    <3>2. Chain(Extend(genuine, top + 1, e), first, top + 1)
      BY <1>2, <2>2, <2>4, <2>5, <3>1, ChainExtended DEF first
    <3> QED
      BY <2>3, <3>2 DEF first
  <2>7. seq \notin DOMAIN genuine
    BY <2>2
  <2> QED
    BY <2>2, <2>3, <2>6, <2>7 DEF Extend
<1>10. History'
  <2>1. CASE Undamaged
    <3>1. seq \in 0..MaxSeq
      BY <1>4
    <3> QED
      BY <1>9, <2>1, <3>1 DEF History
  <2>2. CASE ~Undamaged
    BY <1>2, <2>2 DEF IInv, History
  <2> QED
    BY <2>1, <2>2
<1>11. Archive'
  <2>1. Forged' = Forged
    BY <1>3 DEF Forged
  <2>2. CASE Undamaged
    BY <1>3, <1>9, <2>1, <2>2 DEF IInv, Archive, Undamaged, Unseen
  <2>3. CASE ~Undamaged
    BY <1>2, <1>3, <2>1, <2>3 DEF IInv, Archive, Undamaged
  <2> QED
    BY <2>2, <2>3
<1>12. Whole'
  <2> SUFFICES ASSUME Sound PROVE \E top \in 0..MaxSeq : WholeTo(top)'
    BY <1>3 DEF Whole, Sound
  <2>1. PICK top \in 0..MaxSeq : WholeTo(top)
    BY DEF IInv, Whole
  <2>2. seq = top + 1 /\ top \in Nat /\ seq \in 0..MaxSeq
    BY <1>4, <1>7, <2>1
  <2>3. Start.seq \in Nat /\ Start.seq <= top + 1
    BY <2>1, StartIs DEF IInv, WholeTo
  <2>4. Chain(audit', Start', seq)
    <3>1. Chain(Extend(audit, top + 1, e), Start, top + 1)
      BY <1>2, <1>7, <2>1, <2>2, <2>3, ChainExtended DEF WholeTo
    <3> QED
      BY <1>2, <1>3, <2>2, <3>1
  <2>5. /\ DOMAIN genuine' \subseteq 1..seq
        /\ Undamaged => DOMAIN genuine' = 1..seq
    <3>1. CASE Undamaged
      <4>1. DOMAIN genuine' = 1..top \cup {seq}
        BY <1>9, <2>1, <3>1 DEF WholeTo
      <4> QED
        BY <2>2, <4>1
    <3>2. CASE ~Undamaged
      <4>1. genuine' = genuine /\ DOMAIN genuine \subseteq 1..top
        BY <1>2, <2>1, <3>2 DEF WholeTo
      <4> QED
        BY <2>2, <3>2, <4>1
    <3> QED
      BY <3>1, <3>2
  <2>6. \A s \in DOMAIN audit' \cap DOMAIN genuine' : audit'[s] = genuine'[s]
    <3>1. CASE Undamaged
      BY <1>6, <1>9, <2>1, <3>1 DEF WholeTo
    <3>2. CASE ~Undamaged
      <4>1. genuine' = genuine /\ DOMAIN genuine \subseteq 1..top
        BY <1>2, <2>1, <3>2 DEF WholeTo
      <4>2. seq \notin DOMAIN genuine
        BY <2>2, <4>1
      <4> QED
        BY <1>6, <2>1, <4>1, <4>2 DEF WholeTo
    <3> QED
      BY <3>1, <3>2
  <2>7. WholeTo(seq)'
    BY <1>3, <2>2, <2>3, <2>4, <2>5, <2>6 DEF WholeTo, Undamaged
  <2> QED
    BY <2>2, <2>7
<1>13. BrokenThere'
  <2>1. CASE damage.kind \in Seen
    BY <1>2, <1>3, <1>4, <1>5, <2>1, BreakStays DEF IInv
  <2>2. CASE damage.kind \notin Seen
    BY <1>3, <2>2 DEF BrokenThere
  <2> QED
    BY <2>1, <2>2
<1>14. Observed'
  BY <1>3 DEF IInv, Observed, Undamaged
<1>15. RemovalsAddUp'
  BY <1>3 DEF IInv, RemovalsAddUp, Undamaged
<1>16. OrderVisible'
  <2> SUFFICES ASSUME Undamaged, NEW s \in DOMAIN audit', NEW t \in DOMAIN audit', s < t
               PROVE  audit'[s].mono < audit'[t].mono
    BY <1>3 DEF OrderVisible, Undamaged
  <2>1. PICK top \in 0..MaxSeq : WholeTo(top)
    BY DEF IInv, Whole, Sound, Undamaged
  <2>2. \A x \in DOMAIN audit : IsRow(audit[x]) /\ audit[x].mono \in Nat
    BY <2>1 DEF WholeTo, Chain, IsRow
  <2>3. s \in DOMAIN audit
    BY <1>4, <1>5, <1>6
  <2>4. CASE t \in DOMAIN audit
    BY <1>6, <2>3, <2>4 DEF IInv, OrderVisible, Undamaged
  <2>5. CASE t \notin DOMAIN audit
    <3>1. t = seq /\ audit'[t] = e /\ audit'[s] = audit[s]
      BY <1>6, <2>3, <2>5
    <3>2. seq - 1 \in DOMAIN audit /\ s <= seq - 1 /\ e.mono > audit[seq - 1].mono
      BY <1>2, <2>3
    <3>3. CASE s = seq - 1
      BY <3>1, <3>2, <3>3
    <3>4. CASE s # seq - 1
      <4>1. s < seq - 1
        BY <1>4, <2>3, <3>2, <3>4
      <4>2. audit[s].mono < audit[seq - 1].mono
        BY <2>3, <3>2, <4>1 DEF IInv, OrderVisible, Undamaged
      <4>3. audit[s].mono \in Nat /\ audit[seq - 1].mono \in Nat /\ e.mono \in Nat
        BY <1>2, <2>2, <2>3, <3>2 DEF IsRow
      <4> QED
        BY <3>1, <3>2, <4>2, <4>3
    <3> QED
      BY <3>3, <3>4
  <2> QED
    BY <2>4, <2>5
<1> QED
  BY <1>8, <1>10, <1>11, <1>12, <1>13, <1>14, <1>15, <1>16 DEF IInv

LEMMA RotateStep ==
    ASSUME IInv, NEW max \in Caps, Rotate(max)
    PROVE  IInv'
<1> DEFINE through == Max(DOMAIN audit) - max
           gone == {s \in DOMAIN audit : s <= through}
           removed == through - Min(DOMAIN audit) + 1
           checkpoint == [hash |-> audit[through].hash, removed |-> removed,
                          signed |-> <<through, audit[through].hash, removed>>]
<1>1. /\ IsIntact(Status)
      /\ through \in DOMAIN audit /\ through \notin DOMAIN checkpoints
      /\ checkpoints' = Extend(checkpoints, through, checkpoint)
      /\ audit' = Restricted(audit, DOMAIN audit \ gone)
      /\ crossed' = [r \in Readers |-> crossed[r] \/ walk[r] # None]
      /\ UNCHANGED <<walk, report, genuine, damage>>
  BY DEF Rotate
<1>2. MaxSeq \in Nat /\ DOMAIN audit \subseteq 1..MaxSeq /\ DOMAIN checkpoints \subseteq 1..MaxSeq
  BY AuditAssumption DEF IInv, Types, Table
<1>3. through \in 1..MaxSeq /\ through \in Nat
  BY <1>1, <1>2
<1>4. Min(DOMAIN audit) \in DOMAIN audit /\ \A s \in DOMAIN audit : Min(DOMAIN audit) <= s
  <2>1. DOMAIN audit \subseteq Nat /\ DOMAIN audit # {}
    BY <1>1, <1>2
  <2> QED
    BY <2>1, MinOfNumbers
<1>5. removed \in Nat
  <2>1. Min(DOMAIN audit) \in Nat /\ Min(DOMAIN audit) <= through
    BY <1>1, <1>2, <1>4
  <2> QED
    BY <1>3, <2>1
<1> HIDE DEF through, removed
<1>6. /\ IsFcn(audit') /\ DOMAIN audit' = DOMAIN audit \ gone
      /\ \A s \in DOMAIN audit' : audit'[s] = audit[s] /\ s \in DOMAIN audit
  BY <1>1 DEF Restricted, IsFcn
<1>7. /\ IsFcn(checkpoints') /\ DOMAIN checkpoints' = DOMAIN checkpoints \cup {through}
      /\ checkpoints'[through] = checkpoint
      /\ \A c \in DOMAIN checkpoints : c # through /\ checkpoints'[c] = checkpoints[c]
  <2>1. \A c \in DOMAIN checkpoints : c # through
    BY <1>1
  <2> QED
    BY <1>1, <2>1 DEF Extend, IsFcn
<1>8. IsCheckpoint(checkpoint) /\ checkpoint.removed = removed
      /\ checkpoint.hash = audit[through].hash
      /\ checkpoint.signed = <<through, checkpoint.hash, checkpoint.removed>>
  BY <1>5 DEF IsCheckpoint
<1> HIDE DEF checkpoint
<1>9. damage.kind \notin Seen
  BY <1>1, SeenIsBroken DEF IInv
<1>10. Types'
  <2>1. Table(audit)'
    <3>1. DOMAIN audit' \subseteq 1..MaxSeq
      BY <1>2, <1>6
    <3>2. \A s \in DOMAIN audit' : audit'[s] = Garbled \/ IsRow(audit'[s])
      BY <1>6 DEF IInv, Types, Table
    <3> QED
      BY <1>6, <3>1, <3>2 DEF Table
  <2>2. DOMAIN checkpoints' \subseteq 1..MaxSeq
    BY <1>2, <1>3, <1>7
  <2>3. \A c \in DOMAIN checkpoints' : IsCheckpoint(checkpoints'[c])
    BY <1>7, <1>8 DEF IInv, Types
  <2>4. crossed' \in [Readers -> BOOLEAN]
    BY <1>1 DEF IInv, Types
  <2> QED
    BY <1>1, <1>7, <2>1, <2>2, <2>3, <2>4 DEF IInv, Types
<1>11. History'
  BY <1>1 DEF IInv, History
<1>12. ASSUME NEW top \in 0..MaxSeq, WholeTo(top)
       PROVE  /\ DOMAIN audit = Start.seq..top /\ Start.seq \in Nat /\ top \in Nat
              /\ Start.seq <= through /\ through <= top
              /\ \A c \in DOMAIN checkpoints : c < Start.seq
  <2>1. DOMAIN audit = Start.seq..top /\ Start.seq \in Nat /\ top \in Nat
    BY <1>2, <1>12, StartIs DEF IInv, WholeTo, Chain
  <2>2. Start.seq <= through /\ through <= top
    BY <1>1, <1>3, <2>1
  <2>3. ASSUME NEW c \in DOMAIN checkpoints PROVE c < Start.seq
    <3>1. /\ LatestCheckpoint \in DOMAIN checkpoints /\ c <= LatestCheckpoint
          /\ Start.seq = LatestCheckpoint + 1
      BY StartIs DEF IInv
    <3>2. c \in Nat /\ LatestCheckpoint \in Nat
      BY <1>2, <3>1
    <3> QED
      BY <3>1, <3>2
  <2> QED
    BY <2>1, <2>2, <2>3
<1>13. Archive'
  <2>1. ASSUME damage.kind \notin Unseen, NEW c \in DOMAIN checkpoints' \cap DOMAIN genuine
        PROVE  checkpoints'[c].hash = genuine[c].hash
    <3>1. CASE c = through
      <4>1. PICK top \in 0..MaxSeq : WholeTo(top)
        BY <1>9, <2>1 DEF IInv, Types, Whole, Sound
      <4>2. audit[through] = genuine[through]
        BY <1>1, <2>1, <3>1, <4>1 DEF WholeTo
      <4> QED
        BY <1>7, <1>8, <3>1, <4>2
    <3>2. CASE c # through
      BY <1>7, <2>1, <3>2 DEF IInv, Archive
    <3> QED
      BY <3>1, <3>2
  <2>2. ASSUME Undamaged PROVE DOMAIN checkpoints' \subseteq DOMAIN genuine
    <3>1. PICK top \in 0..MaxSeq : WholeTo(top)
      BY <2>2 DEF IInv, Whole, Sound, Undamaged
    <3>2. DOMAIN genuine = 1..top /\ through \in 1..top
      BY <1>3, <1>12, <2>2, <3>1 DEF WholeTo
    <3> QED
      BY <1>7, <2>2, <3>2 DEF IInv, Archive
  <2>3. Forged' = Forged
    BY <1>7, <1>8 DEF Forged
  <2> QED
    BY <1>1, <2>1, <2>2, <2>3 DEF IInv, Archive, Undamaged
<1>14. ASSUME NEW top \in 0..MaxSeq, WholeTo(top)
       PROVE  Start' = [seq |-> through + 1, prev |-> audit[through].hash]
  <2>1. \A c \in DOMAIN checkpoints' : c <= through
    BY <1>2, <1>3, <1>7, <1>12, <1>14
  <2>2. DOMAIN checkpoints' \subseteq Nat /\ through \in DOMAIN checkpoints'
    BY <1>2, <1>3, <1>7
  <2>3. Max(DOMAIN checkpoints') = through
    BY <2>1, <2>2, MaxIs
  <2>4. checkpoints' # <<>>
    BY <1>7, <2>2, FunctionsByDomain
  <2> QED
    BY <1>7, <1>8, <2>3, <2>4 DEF Start, LatestCheckpoint
<1>15. Whole'
  <2> SUFFICES ASSUME Sound PROVE \E top \in 0..MaxSeq : WholeTo(top)'
    BY <1>1 DEF Whole, Sound
  <2>1. PICK top \in 0..MaxSeq : WholeTo(top)
    BY DEF IInv, Whole
  <2>2. Start' = [seq |-> through + 1, prev |-> audit[through].hash]
    BY <1>14, <2>1
  <2>3. Chain(audit', Start', top)
    BY <1>1, <1>12, <2>1, <2>2, ChainSuffix DEF WholeTo
  <2>4. Start'.seq <= top + 1
    BY <1>3, <1>12, <2>1, <2>2
  <2>5. \A s \in DOMAIN audit' \cap DOMAIN genuine' : audit'[s] = genuine'[s]
    BY <1>1, <1>6, <2>1 DEF WholeTo
  <2> QED
    BY <1>1, <2>1, <2>3, <2>4, <2>5 DEF WholeTo, Undamaged
<1>16. BrokenThere'
  BY <1>1, <1>9 DEF BrokenThere
<1>17. Observed'
  BY <1>1 DEF IInv, Types, Observed, Undamaged
<1>18. RemovalsAddUp'
  <2> SUFFICES ASSUME Undamaged, NEW c \in DOMAIN checkpoints'
               PROVE  checkpoints'[c].removed
                        = c - Max({0} \cup {d \in DOMAIN checkpoints' : d < c})
    BY <1>1 DEF RemovalsAddUp, Undamaged
  <2>1. PICK top \in 0..MaxSeq : WholeTo(top)
    BY DEF IInv, Whole, Sound, Undamaged
  <2>2. CASE c # through
    <3>1. c \in DOMAIN checkpoints /\ c < through
      BY <1>2, <1>3, <1>7, <1>12, <2>1, <2>2
    <3>2. {d \in DOMAIN checkpoints' : d < c} = {d \in DOMAIN checkpoints : d < c}
      BY <1>2, <1>3, <1>7, <3>1
    <3> QED
      BY <1>7, <3>1, <3>2 DEF IInv, RemovalsAddUp
  <2>3. CASE c = through
    <3> DEFINE before == {0} \cup {d \in DOMAIN checkpoints' : d < c}
    <3>1. before = {0} \cup DOMAIN checkpoints
      BY <1>2, <1>3, <1>7, <1>12, <2>1, <2>3
    <3>2. Max(before) = Start.seq - 1
      <4>1. before \subseteq Nat
        BY <1>2, <3>1
      <4>2. Start.seq - 1 \in before /\ \A d \in before : d <= Start.seq - 1
        <5>1. CASE DOMAIN checkpoints = {}
          BY <3>1, <5>1, StartIs DEF IInv, FirstSeq
        <5>2. CASE DOMAIN checkpoints # {}
          <6>1. /\ LatestCheckpoint \in DOMAIN checkpoints
                /\ Start.seq = LatestCheckpoint + 1
            BY <5>2, StartIs DEF IInv
          <6>2. Start.seq - 1 = LatestCheckpoint /\ LatestCheckpoint \in Nat
            BY <1>2, <6>1
          <6> QED
            BY <1>2, <1>12, <2>1, <3>1, <6>1, <6>2
        <5> QED
          BY <5>1, <5>2
      <4> HIDE DEF before
      <4> QED
        BY <4>1, <4>2, MaxIs
    <3>3. Min(DOMAIN audit) = Start.seq
      <4>1. Start.seq \in DOMAIN audit /\ DOMAIN audit \subseteq Nat
            /\ \A s \in DOMAIN audit : Start.seq <= s
        <5>1. /\ DOMAIN audit = Start.seq..top /\ Start.seq \in Nat /\ top \in Nat
              /\ Start.seq <= through /\ through <= top
          BY <1>12, <2>1
        <5> QED
          BY <1>3, <5>1
      <4> QED
        BY <4>1, MinIs
    <3>4. through - Start.seq + 1 = through - (Start.seq - 1)
      BY <1>3, <1>12, <2>1
    <3> QED
      BY <1>7, <1>8, <2>3, <3>2, <3>3, <3>4 DEF removed
  <2> QED
    BY <2>2, <2>3
<1>19. OrderVisible'
  BY <1>1, <1>6 DEF IInv, OrderVisible, Undamaged
<1> QED
  BY <1>10, <1>11, <1>13, <1>15, <1>16, <1>17, <1>18, <1>19 DEF IInv

LEMMA ReadCheckpointStep ==
    ASSUME IInv, NEW r \in Readers, ReadCheckpoint(r)
    PROVE  IInv'
<1>1. /\ walk' = [walk EXCEPT ![r] = Start]
      /\ report' = [report EXCEPT ![r] = None]
      /\ crossed' = [crossed EXCEPT ![r] = FALSE]
      /\ UNCHANGED <<audit, checkpoints, genuine, damage>> /\ Start' = Start
  BY SameStart DEF ReadCheckpoint
<1>2. Types'
  BY <1>1 DEF IInv, Types, Table
<1>3. History' /\ RemovalsAddUp' /\ OrderVisible'
  BY <1>1 DEF IInv, History, RemovalsAddUp, OrderVisible, Undamaged
<1>4. Archive' /\ Whole'
  BY <1>1 DEF IInv, Archive, Forged, Undamaged, Whole, WholeTo, Sound
<1>5. BrokenThere'
  BY <1>1 DEF IInv, BrokenThere, Break
<1>6. Observed'
  BY <1>1 DEF IInv, Types, Observed, Undamaged
<1> QED
  BY <1>2, <1>3, <1>4, <1>5, <1>6 DEF IInv

(* A reader whom no rotation crossed finds a whole log whole.               *)
LEMMA ReadRowsStep ==
    ASSUME IInv, NEW r \in Readers, ReadRows(r)
    PROVE  IInv'
<1>1. /\ walk[r] # None
      /\ walk' = [walk EXCEPT ![r] = None]
      /\ report' = [report EXCEPT ![r] = Verify(audit, walk[r])]
      /\ UNCHANGED <<audit, checkpoints, crossed, genuine, damage>> /\ Start' = Start
  BY SameStart DEF ReadRows
<1>2. Types'
  BY <1>1 DEF IInv, Types, Table
<1>3. History' /\ RemovalsAddUp' /\ OrderVisible'
  BY <1>1 DEF IInv, History, RemovalsAddUp, OrderVisible, Undamaged
<1>4. Archive' /\ Whole'
  BY <1>1 DEF IInv, Archive, Forged, Undamaged, Whole, WholeTo, Sound
<1>5. BrokenThere'
  BY <1>1 DEF IInv, BrokenThere, Break
<1>6. Undamaged /\ ~crossed[r] => IsIntact(Verify(audit, walk[r]))
  <2> SUFFICES ASSUME Undamaged, ~crossed[r] PROVE IsIntact(Verify(audit, Start))
    BY <1>1 DEF IInv, Observed
  <2>1. PICK top \in 0..MaxSeq : WholeTo(top)
    BY DEF IInv, Whole, Sound, Undamaged
  <2>2. Start.seq \in Nat /\ top \in Nat
    BY StartIs, AuditAssumption DEF IInv
  <2> QED
    BY <2>1, <2>2, ChainHasNoStrays, NoStraysIntact DEF WholeTo
<1>7. Observed'
  BY <1>1, <1>6 DEF IInv, Types, Observed, Undamaged
<1> QED
  BY <1>2, <1>3, <1>4, <1>5, <1>7 DEF IInv

-----------------------------------------------------------------------------
(* The damages. *)

LEMMA UndamagedIs ==
    ASSUME IInv, Undamaged
    PROVE  \E top \in 0..MaxSeq :
               /\ top \in Nat /\ Start.seq \in Nat /\ Start.seq >= 1
               /\ DOMAIN audit = Start.seq..top /\ DOMAIN genuine = 1..top
               /\ Chain(audit, Start, top)
               /\ \A s \in DOMAIN audit : audit[s] = genuine[s]
<1>1. PICK top \in 0..MaxSeq : WholeTo(top)
  BY DEF IInv, Whole, Sound, Undamaged
<1>2. top \in Nat /\ Start.seq \in Nat /\ Start.seq >= 1 /\ DOMAIN audit = Start.seq..top
  BY <1>1, StartIs, AuditAssumption DEF IInv, WholeTo, Chain
<1>3. DOMAIN genuine = 1..top /\ Chain(audit, Start, top)
  BY <1>1 DEF WholeTo
<1>4. \A s \in DOMAIN audit : s \in DOMAIN genuine
  BY <1>2, <1>3
<1>5. \A s \in DOMAIN audit : audit[s] = genuine[s]
  BY <1>1, <1>4 DEF WholeTo
<1> QED
  BY <1>2, <1>3, <1>5

(* The hash a chain starts from is the empty one or that of an entry.       *)
LEMMA StartHash ==
    ASSUME IInv, Undamaged
    PROVE  Start.prev # <<"elsewhere">>
<1>1. CASE DOMAIN checkpoints = {}
  BY <1>1, StartIs DEF IInv, Genesis
<1>2. CASE DOMAIN checkpoints # {}
  <2>1. /\ LatestCheckpoint \in DOMAIN checkpoints
        /\ Start.prev = checkpoints[LatestCheckpoint].hash
    BY <1>2, StartIs DEF IInv
  <2>2. LatestCheckpoint \in DOMAIN genuine
    BY <2>1 DEF IInv, Archive
  <2>3. Start.prev = genuine[LatestCheckpoint].hash
    BY <2>1, <2>2 DEF IInv, Archive, Undamaged, Unseen
  <2>4. \A s \in DOMAIN genuine : IsSelfConsistent(s, genuine[s])
    BY DEF IInv, History, Chain
  <2> QED
    BY <2>2, <2>3, <2>4 DEF IsSelfConsistent, Hash
<1> QED
  BY <1>1, <1>2

(* What a damage to the rows leaves alone.                                  *)
LEMMA RowsDamaged ==
    ASSUME IInv, Undamaged, NEW kind \in Seen \cup {"rehashed_tail", "lost_tail"},
           NEW seq \in DOMAIN audit, Record(kind, seq), UNCHANGED checkpoints,
           Table(audit'), BrokenThere'
    PROVE  IInv'
<1>1. /\ damage' = [kind |-> kind, seq |-> seq]
      /\ damage'.kind = kind /\ damage'.seq = seq /\ kind # "none" /\ kind # "forged"
      /\ UNCHANGED <<checkpoints, walk, report, crossed, genuine>>
  BY DEF Record, Seen
<1>2. ~Undamaged' /\ ~Sound'
  BY <1>1 DEF Undamaged, Sound
<1>3. Types'
  <2>1. seq \in 0..MaxSeq
    <3>1. DOMAIN audit \subseteq 1..MaxSeq /\ MaxSeq \in Nat
      BY AuditAssumption DEF IInv, Types, Table
    <3> QED
      BY <3>1
  <2>2. kind \in Seen \cup Unseen
    BY DEF Unseen
  <2> QED
    BY <1>1, <2>1, <2>2 DEF IInv, Types
<1>4. Archive'
  <2>1. Forged' = {}
    BY <1>1 DEF IInv, Archive, Forged, Undamaged
  <2> QED
    BY <1>1, <1>2, <2>1 DEF IInv, Archive, Undamaged, Unseen
<1>5. History' /\ Whole' /\ Observed' /\ RemovalsAddUp' /\ OrderVisible'
  BY <1>1, <1>2 DEF IInv, History, Whole, Observed, RemovalsAddUp, OrderVisible
<1> QED
  BY <1>3, <1>4, <1>5 DEF IInv

(* A row put in the place of another.                                       *)
LEMMA RowReplaced ==
    ASSUME IInv, Undamaged, NEW s \in DOMAIN audit, NEW e, e = Garbled \/ IsRow(e),
           audit' = [audit EXCEPT ![s] = e]
    PROVE  /\ DOMAIN audit' = DOMAIN audit /\ audit'[s] = e
           /\ \A r \in DOMAIN audit : r # s => audit'[r] = audit[r]
           /\ Table(audit')
           /\ UNCHANGED checkpoints => LinkedTo(audit', Start', s)
<1>1. /\ DOMAIN audit' = DOMAIN audit /\ audit'[s] = e
      /\ \A r \in DOMAIN audit : r # s => audit'[r] = audit[r]
  OBVIOUS
<1>2. Table(audit')
  BY <1>1 DEF IInv, Types, Table, IsFcn
<1>3. ASSUME UNCHANGED checkpoints PROVE LinkedTo(audit', Start', s)
  <2>1. PICK top \in 0..MaxSeq :
            /\ top \in Nat /\ Start.seq \in Nat /\ Start.seq >= 1
            /\ DOMAIN audit = Start.seq..top /\ DOMAIN genuine = 1..top
            /\ Chain(audit, Start, top)
            /\ \A r \in DOMAIN audit : audit[r] = genuine[r]
    BY UndamagedIs
  <2>2. LinkedTo(audit, Start, s)
    <3>1. s \in Start.seq..(top + 1)
      BY <2>1
    <3> QED
      BY <2>1, <3>1, ChainLinked
  <2>3. \A r \in DOMAIN audit' : r >= Start.seq
    BY <1>1, <2>1
  <2>4. \A r \in Start.seq..(s - 1) : r \in DOMAIN audit' /\ audit'[r] = audit[r]
    BY <1>1, <2>1
  <2>5. LinkedTo(audit', Start, s)
    BY <2>2, <2>3, <2>4, LinkedSame
  <2>6. Start' = Start
    BY <1>3, SameStart
  <2> QED
    BY <2>5, <2>6
<1> QED
  BY <1>1, <1>2, <1>3

LEMMA EditRowStep ==
    ASSUME IInv, Undamaged, NEW s \in DOMAIN audit, NEW body \in Bodies, EditRow(s, body)
    PROVE  IInv'
<1> DEFINE e == [audit[s] EXCEPT !.body = body]
<1>1. /\ body # audit[s].body /\ audit' = [audit EXCEPT ![s] = e]
      /\ Record("edited", s) /\ UNCHANGED checkpoints
  BY DEF EditRow
<1>2. IsRow(audit[s]) /\ IsSelfConsistent(s, audit[s])
  BY UndamagedIs DEF Chain
<1>3. IsRow(e) /\ e.body = body /\ e.hash = audit[s].hash
  BY <1>2 DEF IsRow
<1> HIDE DEF e
<1>4. ~IsSelfConsistent(s, e)
  BY <1>1, <1>2, <1>3 DEF IsSelfConsistent, Hash
<1>5. Table(audit') /\ LinkedTo(audit', Start', s) /\ audit'[s] = e
      /\ DOMAIN audit' = DOMAIN audit
  BY <1>1, <1>3, RowReplaced
<1>6. Tampered(audit', s)
  BY <1>3, <1>4, <1>5, RowIsNotGarbled DEF Tampered
<1>7. BrokenThere'
  <2>1. damage'.kind = "edited" /\ Break' = s
    BY <1>1 DEF Record, Break
  <2> QED
    BY <1>5, <1>6, <2>1 DEF BrokenThere
<1> QED
  BY <1>1, <1>5, <1>7, RowsDamaged DEF Seen

LEMMA RehashRowStep ==
    ASSUME IInv, Undamaged, NEW s \in DOMAIN audit, NEW body \in Bodies, RehashRow(s, body)
    PROVE  IInv'
<1> DEFINE e == Entry(s, audit[s].mono, body, audit[s].prev)
           kind == IF s \in Interior THEN "rehashed" ELSE "rehashed_tail"
<1>1. /\ body # audit[s].body /\ audit' = [audit EXCEPT ![s] = e]
      /\ Record(kind, s) /\ UNCHANGED checkpoints
  BY DEF RehashRow
<1>2. PICK top \in 0..MaxSeq :
          /\ top \in Nat /\ Start.seq \in Nat /\ Start.seq >= 1
          /\ DOMAIN audit = Start.seq..top /\ DOMAIN genuine = 1..top
          /\ Chain(audit, Start, top)
          /\ \A r \in DOMAIN audit : audit[r] = genuine[r]
  BY UndamagedIs
<1>3. \A r \in DOMAIN audit : IsRow(audit[r]) /\ IsSelfConsistent(r, audit[r])
  BY <1>2 DEF Chain
<1>4. /\ IsRow(e) /\ IsSelfConsistent(s, e) /\ e.prev = audit[s].prev /\ e.body = body
      /\ e.hash = <<s, audit[s].mono, body, audit[s].prev>>
  <2>1. audit[s].mono \in Nat
    BY <1>3 DEF IsRow
  <2> QED
    BY <2>1, EntryIsRow
<1> HIDE DEF e
<1>5. /\ Table(audit') /\ LinkedTo(audit', Start', s) /\ audit'[s] = e
      /\ DOMAIN audit' = DOMAIN audit /\ Start' = Start
      /\ \A r \in DOMAIN audit : r # s => audit'[r] = audit[r]
  BY <1>1, <1>4, RowReplaced, SameStart
<1>6. CASE s \in Interior
  <2>1. kind = "rehashed"
    BY <1>6
  <2>2. s + 1 \in DOMAIN audit /\ s \in Nat
    <3>1. Max(DOMAIN audit) \in DOMAIN audit
      <4>1. DOMAIN audit \subseteq 0..top /\ DOMAIN audit # {}
        BY <1>2
      <4> QED
        BY <1>2, <4>1, MaxOfNumbers
    <3>2. s < Max(DOMAIN audit)
      BY <1>6 DEF Interior
    <3> QED
      BY <1>2, <3>1, <3>2
  <2>3. Follows(audit', Start, s)
    <3>1. Follows(audit, Start, s)
      BY <1>2, ChainHasNoStrays DEF Strays
    <3>2. s # Start.seq => s - 1 \in DOMAIN audit /\ audit'[s - 1] = audit[s - 1]
      <4>1. s # Start.seq => s - 1 \in DOMAIN audit /\ s - 1 # s
        BY <1>2
      <4> QED
        BY <1>5, <4>1
    <3> QED
      BY <1>4, <1>5, <3>1, <3>2, RowIsNotGarbled DEF Follows
  <2>4. LinkedTo(audit', Start, s + 1)
    <3>1. \A r \in Start.seq..((s + 1) - 1) : r = s \/ r \in Start.seq..(s - 1)
      BY <1>2, <2>2
    <3> QED
      BY <1>2, <1>5, <2>2, <2>3, <3>1 DEF LinkedTo
  <2>5. Unlinked(audit', Start, s + 1)
    <3>1. audit'[s + 1] = audit[s + 1] /\ s + 1 # Start.seq /\ (s + 1) - 1 = s
      BY <1>2, <1>5, <2>2
    <3>2. audit[s + 1].prev = audit[s].hash
      BY <1>2, <2>2, <3>1 DEF Chain
    <3>3. audit[s].hash # e.hash
      <4>1. audit[s].hash = <<s, audit[s].mono, audit[s].body, audit[s].prev>>
        BY <1>3 DEF IsSelfConsistent, Hash
      <4>2. <<s, audit[s].mono, body, audit[s].prev>>
              # <<s, audit[s].mono, audit[s].body, audit[s].prev>>
        <5>1. body # audit[s].body
          BY <1>1
        <5> QED
          BY <5>1
      <4> QED
        BY <1>4, <4>1, <4>2
    <3>4. ~Follows(audit', Start, s + 1)
      BY <1>5, <3>1, <3>2, <3>3 DEF Follows
    <3> QED
      BY <1>3, <1>5, <2>2, <3>1, <3>4, RowIsNotGarbled DEF Unlinked
  <2>6. BrokenThere'
    <3>1. damage'.kind = "rehashed" /\ Break' = s + 1
      BY <1>1, <2>1 DEF Record, Break
    <3> QED
      BY <1>5, <2>4, <2>5, <3>1 DEF BrokenThere
  <2> QED
    BY <1>1, <1>5, <2>1, <2>6, RowsDamaged DEF Seen
<1>7. CASE s \notin Interior
  <2>1. kind = "rehashed_tail"
    BY <1>7
  <2>2. BrokenThere'
    BY <1>1, <2>1 DEF Record, BrokenThere, Seen
  <2> QED
    BY <1>1, <1>5, <2>1, <2>2, RowsDamaged
<1> QED
  BY <1>6, <1>7

LEMMA GarbleRowStep ==
    ASSUME IInv, Undamaged, NEW s \in DOMAIN audit, GarbleRow(s)
    PROVE  IInv'
<1>1. audit' = [audit EXCEPT ![s] = Garbled] /\ Record("garbled", s) /\ UNCHANGED checkpoints
  BY DEF GarbleRow
<1>2. Table(audit') /\ LinkedTo(audit', Start', s) /\ audit'[s] = Garbled
      /\ DOMAIN audit' = DOMAIN audit
  BY <1>1, RowReplaced
<1>3. BrokenThere'
  <2>1. damage'.kind = "garbled" /\ Break' = s
    BY <1>1 DEF Record, Break
  <2> QED
    BY <1>2, <2>1 DEF BrokenThere, Undecodable
<1> QED
  BY <1>1, <1>2, <1>3, RowsDamaged DEF Seen

LEMMA SpliceRowStep ==
    ASSUME IInv, Undamaged, NEW s \in DOMAIN audit, SpliceRow(s)
    PROVE  IInv'
<1> DEFINE e == Entry(s, audit[s].mono, audit[s].body, <<"elsewhere">>)
<1>1. audit' = [audit EXCEPT ![s] = e] /\ Record("spliced", s) /\ UNCHANGED checkpoints
  BY DEF SpliceRow
<1>2. PICK top \in 0..MaxSeq :
          /\ top \in Nat /\ Start.seq \in Nat /\ Start.seq >= 1
          /\ DOMAIN audit = Start.seq..top /\ DOMAIN genuine = 1..top
          /\ Chain(audit, Start, top)
          /\ \A r \in DOMAIN audit : audit[r] = genuine[r]
  BY UndamagedIs
<1>3. \A r \in DOMAIN audit : IsRow(audit[r]) /\ IsSelfConsistent(r, audit[r])
  BY <1>2 DEF Chain
<1>4. IsRow(e) /\ IsSelfConsistent(s, e) /\ e.prev = <<"elsewhere">>
  <2>1. audit[s].mono \in Nat /\ audit[s].body \in Bodies
    BY <1>3 DEF IsRow
  <2> QED
    BY <2>1, EntryIsRow
<1> HIDE DEF e
<1>5. /\ Table(audit') /\ LinkedTo(audit', Start', s) /\ audit'[s] = e
      /\ DOMAIN audit' = DOMAIN audit /\ Start' = Start
      /\ \A r \in DOMAIN audit : r # s => audit'[r] = audit[r]
  BY <1>1, <1>4, RowReplaced, SameStart
<1>6. ~Follows(audit', Start, s)
  <2>1. CASE s = Start.seq
    BY <1>4, <1>5, <2>1, StartHash DEF Follows
  <2>2. CASE s # Start.seq
    <3>1. s - 1 \in DOMAIN audit /\ s - 1 # s
      BY <1>2, <2>2
    <3>2. audit'[s - 1].hash # <<"elsewhere">>
      BY <1>3, <1>5, <3>1 DEF IsSelfConsistent, Hash
    <3> QED
      BY <1>4, <1>5, <2>2, <3>2 DEF Follows
  <2> QED
    BY <2>1, <2>2
<1>7. Unlinked(audit', Start, s)
  BY <1>4, <1>5, <1>6, RowIsNotGarbled DEF Unlinked
<1>8. BrokenThere'
  <2>1. damage'.kind = "spliced" /\ Break' = s
    BY <1>1 DEF Record, Break
  <2> QED
    BY <1>5, <1>7, <2>1 DEF BrokenThere
<1> QED
  BY <1>1, <1>5, <1>8, RowsDamaged DEF Seen

LEMMA SwapRowsStep ==
    ASSUME IInv, Undamaged, NEW s \in DOMAIN audit, NEW t \in DOMAIN audit, SwapRows(s, t)
    PROVE  IInv'
<1>1. /\ s < t /\ audit' = [audit EXCEPT ![s] = audit[t], ![t] = audit[s]]
      /\ Record("swapped", s) /\ UNCHANGED checkpoints /\ Start' = Start
  BY SameStart DEF SwapRows
<1>2. PICK top \in 0..MaxSeq :
          /\ top \in Nat /\ Start.seq \in Nat /\ Start.seq >= 1
          /\ DOMAIN audit = Start.seq..top /\ DOMAIN genuine = 1..top
          /\ Chain(audit, Start, top)
          /\ \A r \in DOMAIN audit : audit[r] = genuine[r]
  BY UndamagedIs
<1>3. \A r \in DOMAIN audit : IsRow(audit[r]) /\ IsSelfConsistent(r, audit[r])
  BY <1>2 DEF Chain
<1>4. s # t /\ s \in Nat /\ t \in Nat
  BY <1>1, <1>2
<1>5. /\ DOMAIN audit' = DOMAIN audit /\ IsFcn(audit')
      /\ audit'[s] = audit[t] /\ audit'[t] = audit[s]
      /\ \A r \in DOMAIN audit : r # s /\ r # t => audit'[r] = audit[r]
  BY <1>1, <1>4 DEF IsFcn
<1>6. Table(audit')
  BY <1>3, <1>5 DEF IInv, Types, Table
<1>7. Tampered(audit', s)
  <2>1. ~IsSelfConsistent(s, audit[t])
    BY <1>3, <1>4 DEF IsSelfConsistent, Hash
  <2> QED
    BY <1>3, <1>5, <2>1, RowIsNotGarbled DEF Tampered
<1>8. LinkedTo(audit', Start, s)
  <2>1. LinkedTo(audit, Start, s)
    <3>1. s \in Start.seq..(top + 1)
      BY <1>2
    <3> QED
      BY <1>2, <3>1, ChainLinked
  <2>2. \A r \in DOMAIN audit' : r >= Start.seq
    BY <1>2, <1>5
  <2>3. \A r \in Start.seq..(s - 1) : r \in DOMAIN audit /\ r # s /\ r # t
    BY <1>1, <1>2, <1>4
  <2> QED
    BY <1>5, <2>1, <2>2, <2>3, LinkedSame
<1>9. BrokenThere'
  <2>1. damage'.kind = "swapped" /\ Break' = s
    BY <1>1 DEF Record, Break
  <2> QED
    BY <1>1, <1>7, <1>8, <2>1 DEF BrokenThere
<1> QED
  BY <1>1, <1>6, <1>9, RowsDamaged DEF Seen

LEMMA LoseRowsStep ==
    ASSUME IInv, Undamaged, NEW s \in DOMAIN audit, NEW t \in DOMAIN audit, LoseRows(s, t)
    PROVE  IInv'
<1>1. /\ s <= t /\ t \in Interior /\ audit' = Restricted(audit, DOMAIN audit \ (s..t))
      /\ Record("lost", s) /\ UNCHANGED checkpoints /\ Start' = Start
  BY SameStart DEF LoseRows
<1>2. PICK top \in 0..MaxSeq :
          /\ top \in Nat /\ Start.seq \in Nat /\ Start.seq >= 1
          /\ DOMAIN audit = Start.seq..top /\ DOMAIN genuine = 1..top
          /\ Chain(audit, Start, top)
          /\ \A r \in DOMAIN audit : audit[r] = genuine[r]
  BY UndamagedIs
<1>3. \A r \in DOMAIN audit : IsRow(audit[r])
  BY <1>2 DEF Chain
<1>4. s \in Nat /\ t \in Nat
  BY <1>2
<1>5. /\ DOMAIN audit' = DOMAIN audit \ (s..t) /\ IsFcn(audit')
      /\ \A r \in DOMAIN audit' : audit'[r] = audit[r]
  BY <1>1 DEF Restricted, IsFcn
<1>6. Table(audit')
  BY <1>5 DEF IInv, Types, Table
<1>7. Missing(audit', s)
  <2>1. Max(DOMAIN audit) \in DOMAIN audit /\ t < Max(DOMAIN audit)
    <3>1. DOMAIN audit \subseteq 0..top /\ DOMAIN audit # {}
      BY <1>2
    <3> QED
      BY <1>1, <1>2, <3>1, MaxOfNumbers DEF Interior
  <2>2. /\ Max(DOMAIN audit) \in DOMAIN audit \ (s..t) /\ Max(DOMAIN audit) > s
    BY <1>1, <1>2, <1>4, <2>1
  <2>3. s \notin DOMAIN audit'
    BY <1>1, <1>4, <1>5
  <2> QED
    BY <1>3, <1>5, <2>2, <2>3, RowIsNotGarbled DEF Missing
<1>8. LinkedTo(audit', Start, s)
  <2>1. LinkedTo(audit, Start, s)
    <3>1. s \in Start.seq..(top + 1)
      BY <1>2
    <3> QED
      BY <1>2, <3>1, ChainLinked
  <2>2. \A r \in DOMAIN audit' : r >= Start.seq
    BY <1>2, <1>5
  <2>3. \A r \in Start.seq..(s - 1) : r \in DOMAIN audit'
    BY <1>2, <1>4, <1>5
  <2> QED
    BY <1>5, <2>1, <2>2, <2>3, LinkedSame
<1>9. BrokenThere'
  <2>1. damage'.kind = "lost" /\ Break' = s
    BY <1>1 DEF Record, Break
  <2> QED
    BY <1>1, <1>7, <1>8, <2>1 DEF BrokenThere
<1> QED
  BY <1>1, <1>6, <1>9, RowsDamaged DEF Seen

LEMMA LoseTailStep ==
    ASSUME IInv, Undamaged, NEW s \in DOMAIN audit, LoseTail(s)
    PROVE  IInv'
<1>1. /\ audit' = Restricted(audit, {r \in DOMAIN audit : r < s})
      /\ Record("lost_tail", s) /\ UNCHANGED checkpoints
  BY DEF LoseTail
<1>2. Table(audit')
  BY <1>1 DEF IInv, Types, Table, Restricted, IsFcn
<1>3. BrokenThere'
  BY <1>1 DEF Record, BrokenThere, Seen
<1> QED
  BY <1>1, <1>2, <1>3, RowsDamaged

LEMMA ForgeCheckpointStep ==
    ASSUME IInv, Undamaged, NEW c \in DOMAIN checkpoints, ForgeCheckpoint(c)
    PROVE  IInv'
<1> DEFINE k == [checkpoints[c] EXCEPT !.removed = @ + 1]
<1>1. /\ checkpoints' = [checkpoints EXCEPT ![c] = k]
      /\ damage' = [kind |-> "forged", seq |-> c] /\ damage'.kind = "forged" /\ damage'.seq = c
      /\ UNCHANGED <<audit, walk, report, crossed, genuine>>
  BY DEF ForgeCheckpoint, Record
<1>2. IsCheckpoint(checkpoints[c])
  BY DEF IInv, Types
<1>3. /\ IsCheckpoint(k) /\ k.hash = checkpoints[c].hash /\ k.signed = checkpoints[c].signed
      /\ k.removed = checkpoints[c].removed + 1 /\ k.removed # checkpoints[c].removed
  BY <1>2 DEF IsCheckpoint
<1> HIDE DEF k
<1>4. /\ IsFcn(checkpoints') /\ DOMAIN checkpoints' = DOMAIN checkpoints
      /\ checkpoints'[c] = k
      /\ \A d \in DOMAIN checkpoints : d # c => checkpoints'[d] = checkpoints[d]
      /\ \A d \in DOMAIN checkpoints : checkpoints'[d].hash = checkpoints[d].hash
  BY <1>1, <1>3 DEF IsFcn
<1>5. Start' = Start
  <2>1. IsFcn(checkpoints)
    BY DEF IInv, Types
  <2>2. checkpoints' # <<>> /\ checkpoints # <<>>
    BY <1>4, <2>1, FunctionsByDomain
  <2>3. LatestCheckpoint \in DOMAIN checkpoints
    BY StartIs DEF IInv
  <2>4. LatestCheckpoint' = LatestCheckpoint
    BY <1>4 DEF LatestCheckpoint
  <2> QED
    BY <1>4, <2>2, <2>3, <2>4 DEF Start
<1>6. Types'
  <2>1. c \in 0..MaxSeq
    BY AuditAssumption DEF IInv, Types
  <2>2. \A d \in DOMAIN checkpoints' : IsCheckpoint(checkpoints'[d])
    BY <1>3, <1>4 DEF IInv, Types
  <2> QED
    BY <1>1, <1>4, <2>1, <2>2 DEF IInv, Types
<1>7. Archive'
  <2>1. Forged = {}
    BY DEF IInv, Archive, Undamaged
  <2>2. Forged' = {c}
    <3>1. \A d \in DOMAIN checkpoints :
              checkpoints[d].signed = <<d, checkpoints[d].hash, checkpoints[d].removed>>
      BY <2>1 DEF Forged
    <3>2. k.signed # <<c, k.hash, k.removed>>
      BY <1>3, <3>1
    <3> QED
      BY <1>4, <3>1, <3>2 DEF Forged
  <2> QED
    BY <1>1, <1>4, <2>2 DEF IInv, Archive, Undamaged, Unseen
<1>8. Whole'
  <2>1. PICK top \in 0..MaxSeq : WholeTo(top)
    BY DEF IInv, Whole, Sound, Undamaged
  <2>2. WholeTo(top)'
    BY <1>1, <1>5, <2>1 DEF WholeTo, Undamaged
  <2> QED
    BY <1>1, <2>2 DEF Whole
<1>9. BrokenThere' /\ Observed' /\ RemovalsAddUp' /\ OrderVisible' /\ History'
  BY <1>1 DEF IInv, BrokenThere, Seen, Observed, RemovalsAddUp, OrderVisible, Undamaged, History
<1> QED
  BY <1>6, <1>7, <1>8, <1>9 DEF IInv

LEMMA LoseCheckpointStep ==
    ASSUME IInv, Undamaged, NEW c \in DOMAIN checkpoints, LoseCheckpoint(c)
    PROVE  IInv'
<1>1. /\ checkpoints' = Restricted(checkpoints, DOMAIN checkpoints \ {c})
      /\ damage' = [kind |-> "lost_checkpoint", seq |-> c]
      /\ damage'.kind = "lost_checkpoint" /\ damage'.seq = c
      /\ UNCHANGED <<audit, walk, report, crossed, genuine>>
  BY DEF LoseCheckpoint, Record
<1>2. /\ IsFcn(checkpoints') /\ DOMAIN checkpoints' = DOMAIN checkpoints \ {c}
      /\ \A d \in DOMAIN checkpoints' : checkpoints'[d] = checkpoints[d]
  BY <1>1 DEF Restricted, IsFcn
<1>3. Types'
  <2>1. c \in 0..MaxSeq
    BY AuditAssumption DEF IInv, Types
  <2>2. damage'.kind \in Unseen
    BY <1>1 DEF Unseen
  <2> QED
    BY <1>1, <1>2, <2>1, <2>2 DEF IInv, Types
<1>4. Archive'
  <2>1. Forged = {}
    BY DEF IInv, Archive, Undamaged
  <2>2. Forged' = {}
    BY <1>2, <2>1 DEF Forged
  <2> QED
    BY <1>1, <2>2 DEF Archive, Undamaged, Unseen
<1>5. BrokenThere' /\ Observed' /\ RemovalsAddUp' /\ OrderVisible' /\ History' /\ Whole'
  BY <1>1 DEF IInv, BrokenThere, Seen, Observed, RemovalsAddUp, OrderVisible, Undamaged,
              History, Whole, Sound
<1> QED
  BY <1>3, <1>4, <1>5 DEF IInv

LEMMA DamageStep ==
    ASSUME IInv, Damage
    PROVE  IInv'
<1>1. Undamaged
  BY DEF Damage
<1>2. ASSUME NEW s \in DOMAIN audit, NEW body \in Bodies, EditRow(s, body) PROVE IInv'
  BY <1>1, <1>2, EditRowStep
<1>3. ASSUME NEW s \in DOMAIN audit, NEW body \in Bodies, RehashRow(s, body) PROVE IInv'
  BY <1>1, <1>3, RehashRowStep
<1>4. ASSUME NEW s \in DOMAIN audit, GarbleRow(s) PROVE IInv'
  BY <1>1, <1>4, GarbleRowStep
<1>5. ASSUME NEW s \in DOMAIN audit, SpliceRow(s) PROVE IInv'
  BY <1>1, <1>5, SpliceRowStep
<1>6. ASSUME NEW s \in DOMAIN audit, LoseTail(s) PROVE IInv'
  BY <1>1, <1>6, LoseTailStep
<1>7. ASSUME NEW s \in DOMAIN audit, NEW t \in DOMAIN audit, SwapRows(s, t) PROVE IInv'
  BY <1>1, <1>7, SwapRowsStep
<1>8. ASSUME NEW s \in DOMAIN audit, NEW t \in DOMAIN audit, LoseRows(s, t) PROVE IInv'
  BY <1>1, <1>8, LoseRowsStep
<1>9. ASSUME NEW c \in DOMAIN checkpoints, ForgeCheckpoint(c) PROVE IInv'
  BY <1>1, <1>9, ForgeCheckpointStep
<1>10. ASSUME NEW c \in DOMAIN checkpoints, LoseCheckpoint(c) PROVE IInv'
  BY <1>1, <1>10, LoseCheckpointStep
<1> QED
  BY <1>2, <1>3, <1>4, <1>5, <1>6, <1>7, <1>8, <1>9, <1>10 DEF Damage

-----------------------------------------------------------------------------
(* The invariant. *)

LEMMA InitHolds ==
    ASSUME Init
    PROVE  IInv
<1>1. /\ IsFcn(<<>>) /\ DOMAIN <<>> = {}
  BY DEF IsFcn
<1>2. DOMAIN audit = {} /\ DOMAIN checkpoints = {} /\ DOMAIN genuine = {}
  BY <1>1 DEF Init
<1>3. /\ damage = [kind |-> "none", seq |-> 0] /\ damage.kind = "none"
      /\ damage.seq \in 0..MaxSeq
  BY AuditAssumption DEF Init
<1>4. Types
  BY <1>1, <1>2, <1>3 DEF Init, Types, Table
<1>5. 0 \in 0..MaxSeq /\ DOMAIN genuine = 1..0 /\ DOMAIN audit = 1..0
  BY <1>2, AuditAssumption
<1>6. History
  BY <1>2, <1>5 DEF History, Chain, FirstSeq
<1>7. Archive
  BY <1>2, <1>3 DEF Archive, Forged
<1>8. Start = [seq |-> FirstSeq, prev |-> Genesis] /\ Start.seq = 1
  BY <1>2, <1>4, StartIs DEF FirstSeq
<1>9. Whole
  <2>1. WholeTo(0)
    BY <1>2, <1>5, <1>8 DEF WholeTo, Chain
  <2> QED
    BY <1>5, <2>1 DEF Whole
<1>10. BrokenThere
  BY <1>3 DEF BrokenThere, Seen
<1>11. Observed
  BY DEF Init, Observed
<1>12. RemovalsAddUp /\ OrderVisible
  BY <1>2 DEF RemovalsAddUp, OrderVisible
<1> QED
  BY <1>4, <1>6, <1>7, <1>9, <1>10, <1>11, <1>12 DEF IInv

LEMMA StepHolds ==
    ASSUME IInv, [Next]_vars
    PROVE  IInv'
<1>1. ASSUME NEW reading \in Clock, NEW body \in Bodies, Append(reading, body) PROVE IInv'
  BY <1>1, AppendStep
<1>2. ASSUME NEW max \in Caps, Rotate(max) PROVE IInv'
  BY <1>2, RotateStep
<1>3. ASSUME NEW r \in Readers, ReadCheckpoint(r) PROVE IInv'
  BY <1>3, ReadCheckpointStep
<1>4. ASSUME NEW r \in Readers, ReadRows(r) PROVE IInv'
  BY <1>4, ReadRowsStep
<1>5. CASE Damage
  BY <1>5, DamageStep
<1>6. CASE UNCHANGED vars
  <2>1. /\ UNCHANGED <<audit, checkpoints, walk, report, crossed, genuine, damage>>
        /\ Start' = Start
    BY <1>6, SameStart DEF vars
  <2>2. Types' /\ History' /\ RemovalsAddUp' /\ OrderVisible'
    BY <2>1 DEF IInv, Types, Table, History, RemovalsAddUp, OrderVisible, Undamaged
  <2>3. Archive' /\ Whole'
    BY <2>1 DEF IInv, Archive, Forged, Undamaged, Whole, WholeTo, Sound
  <2>4. BrokenThere'
    BY <2>1 DEF IInv, BrokenThere, Break
  <2>5. Observed'
    BY <2>1 DEF IInv, Observed, Undamaged
  <2> QED
    BY <2>2, <2>3, <2>4, <2>5 DEF IInv
<1> QED
  BY <1>1, <1>2, <1>3, <1>4, <1>5, <1>6 DEF Next

(* The inductive invariant holds throughout, whatever is appended, rotated, *)
(* read and damaged, in a log of any length.                                *)
THEOREM Invariance == Spec => []IInv
<1>1. Init => IInv
  BY InitHolds
<1>2. IInv /\ [Next]_vars => IInv'
  BY StepHolds
<1> QED
  BY <1>1, <1>2, PTL DEF Spec

-----------------------------------------------------------------------------
(* What follows from it. *)

LEMMA TypesGood ==
    ASSUME IInv
    PROVE  TypeOK
<1>1. DOMAIN genuine \subseteq 1..MaxSeq
  <2>1. PICK n \in 0..MaxSeq : Chain(genuine, [seq |-> FirstSeq, prev |-> Genesis], n)
    BY DEF IInv, History
  <2>2. DOMAIN genuine = 1..n
    BY <2>1 DEF Chain, FirstSeq
  <2> QED
    BY <2>2, AuditAssumption
<1>2. \A s \in DOMAIN audit : audit[s] # Garbled =>
          audit[s].mono \in Nat /\ audit[s].body \in Bodies
  BY DEF IInv, Types, Table, IsRow
<1>3. \A c \in DOMAIN checkpoints : checkpoints[c].removed \in Nat
  BY DEF IInv, Types, IsCheckpoint
<1> QED
  BY <1>1, <1>2, <1>3 DEF IInv, Types, Table, TypeOK

(* A log nobody damaged loses nothing, verifies and stays in order between  *)
(* any two operations, before and after any rotation (audit.rs:700-803,     *)
(* 826-884): what was appended is in the table or archived, each checkpoint *)
(* accounts for the entries since the one before it.                        *)
THEOREM LogIsKept == Spec => []LogKept
<1>1. IInv => LogKept
  <2> SUFFICES ASSUME IInv PROVE LogKept
    OBVIOUS
  <2>1. ASSUME Undamaged
        PROVE  /\ Status = Intact(audit)
               /\ DOMAIN audit = {s \in DOMAIN genuine : s >= Start.seq}
               /\ \A s \in DOMAIN audit : audit[s] = genuine[s]
               /\ \A c \in DOMAIN checkpoints : c \in DOMAIN genuine
    <3>1. PICK top \in 0..MaxSeq :
              /\ top \in Nat /\ Start.seq \in Nat /\ Start.seq >= 1
              /\ DOMAIN audit = Start.seq..top /\ DOMAIN genuine = 1..top
              /\ Chain(audit, Start, top)
              /\ \A s \in DOMAIN audit : audit[s] = genuine[s]
      BY <2>1, UndamagedIs
    <3>2. Status = Intact(audit)
      BY <3>1, ChainHasNoStrays, NoStraysStatus DEF Status
    <3>3. DOMAIN audit = {s \in DOMAIN genuine : s >= Start.seq}
      BY <3>1
    <3> QED
      BY <2>1, <3>1, <3>2, <3>3 DEF IInv, Archive
  <2>2. KeptOrArchived
    BY <2>1 DEF KeptOrArchived
  <2> QED
    BY <2>2, TypesGood DEF IInv, LogKept
<1> QED
  BY <1>1, Invariance, PTL

(* Each damage verify can see is reported at its number and with its cause  *)
(* ever after, whatever is appended, rotated and read (audit.rs:23-30).     *)
THEOREM DamageIsLocated == Spec => []DamageLocated
<1>1. IInv => DamageLocated
  <2> SUFFICES ASSUME IInv PROVE DamageLocated
    OBVIOUS
  <2>1. Table(audit)
    BY DEF IInv, Types
  <2>2. damage.kind \in Seen => LinkedTo(audit, Start, Break)
    BY DEF IInv, BrokenThere
  <2>3. ASSUME damage.kind \in {"edited", "swapped"}
        PROVE  Status = Broken(damage.seq, "ContentTampered")
    <3>1. Break = damage.seq /\ damage.kind \in Seen
      BY <2>3 DEF Break, Seen
    <3> QED
      BY <2>1, <2>2, <2>3, <3>1, TamperedStatus DEF IInv, BrokenThere, Status
  <2>4. ASSUME damage.kind = "rehashed"
        PROVE  Status = Broken(damage.seq + 1, "BrokenLink")
    <3>1. Break = damage.seq + 1 /\ damage.kind \in Seen
      BY <2>4 DEF Break, Seen
    <3> QED
      BY <2>1, <2>2, <2>4, <3>1, UnlinkedStatus DEF IInv, BrokenThere, Status
  <2>5. ASSUME damage.kind = "spliced"
        PROVE  Status = Broken(damage.seq, "BrokenLink")
    <3>1. Break = damage.seq /\ damage.kind \in Seen
      BY <2>5 DEF Break, Seen
    <3> QED
      BY <2>1, <2>2, <2>5, <3>1, UnlinkedStatus DEF IInv, BrokenThere, Status
  <2>6. ASSUME damage.kind = "lost"
        PROVE  Status = Broken(damage.seq, "MissingEntry")
    <3>1. Break = damage.seq /\ damage.kind \in Seen
      BY <2>6 DEF Break, Seen
    <3> QED
      BY <2>1, <2>2, <2>6, <3>1, MissingStatus DEF IInv, BrokenThere, Status
  <2>7. ASSUME damage.kind = "garbled"
        PROVE  Status = Broken(damage.seq, "UndecodableRow")
    <3>1. Break = damage.seq /\ damage.kind \in Seen
      BY <2>7 DEF Break, Seen
    <3> QED
      BY <2>1, <2>2, <2>7, <3>1, UndecodableStatus DEF IInv, BrokenThere, Status
  <2>8. ASSUME damage.kind = "forged"
        PROVE  FirstForged = damage.seq
    <3>1. Forged = {damage.seq} /\ damage.seq \in Nat
      BY <2>8, AuditAssumption DEF IInv, Archive, Types
    <3>2. Min({damage.seq}) = damage.seq
      BY <3>1, MinIs
    <3> QED
      BY <3>1, <3>2 DEF FirstForged
  <2> QED
    BY <2>3, <2>4, <2>5, <2>6, <2>7, <2>8 DEF DamageLocated
<1> QED
  BY <1>1, Invariance, PTL

(* No rotation signs over a damage that verify sees (audit.rs:700-703).     *)
THEOREM NothingIsLaundered == Spec => []NoLaundering
<1>1. IInv => NoLaundering
  BY DEF IInv, Archive, NoLaundering, Unseen
<1> QED
  BY <1>1, Invariance, PTL

(* Down from a head that is what was appended, link by link, every row is:  *)
(* a hash covers the one before it.                                         *)
LEMMA HeadVouches ==
    ASSUME IInv, NEW s \in DOMAIN genuine, IntactWithAnchor(genuine[s].hash)
    PROVE  /\ DOMAIN audit = Start.seq..s
           /\ \A r \in DOMAIN audit : r \in DOMAIN genuine /\ audit[r] = genuine[r]
<1>1. PICK n \in 0..MaxSeq : Chain(genuine, [seq |-> FirstSeq, prev |-> Genesis], n)
  BY DEF IInv, History
<1>2. DOMAIN genuine = 1..n /\ n \in Nat /\ MaxSeq \in Nat
  BY <1>1, AuditAssumption DEF Chain, FirstSeq
<1>3. \A r \in DOMAIN genuine :
          /\ IsRow(genuine[r])
          /\ genuine[r].hash = <<r, genuine[r].mono, genuine[r].body, genuine[r].prev>>
          /\ r # 1 => genuine[r].prev = genuine[r - 1].hash
  BY <1>1 DEF Chain, FirstSeq, IsSelfConsistent, Hash
<1>4. \A r \in DOMAIN audit : Follows(audit, Start, r)
  BY NoStraysIntact DEF IntactWithAnchor, Status, Strays
<1>5. \A r \in DOMAIN audit :
          /\ IsRow(audit[r]) /\ r >= Start.seq
          /\ audit[r].hash = <<r, audit[r].mono, audit[r].body, audit[r].prev>>
          /\ r # Start.seq => r - 1 \in DOMAIN audit /\ audit[r].prev = audit[r - 1].hash
  BY <1>4 DEF IInv, Types, Table, Follows, IsSelfConsistent, Hash
<1>6. DOMAIN audit \subseteq 0..MaxSeq /\ DOMAIN audit # {}
  <2>1. IsFcn(audit) /\ DOMAIN audit \subseteq 1..MaxSeq
    BY DEF IInv, Types, Table
  <2>2. audit # <<>>
    BY DEF IntactWithAnchor
  <2>3. DOMAIN audit # {}
    BY <2>1, <2>2, FunctionsByDomain
  <2>4. DOMAIN audit \subseteq 0..MaxSeq
    BY <1>2, <2>1
  <2> QED
    BY <2>3, <2>4
<1>7. /\ Max(DOMAIN audit) \in DOMAIN audit
      /\ \A r \in DOMAIN audit : r <= Max(DOMAIN audit)
  BY <1>2, <1>6, MaxOfNumbers
<1>8. \A r \in DOMAIN audit, t \in DOMAIN genuine :
          audit[r].hash = genuine[t].hash => r = t /\ audit[r] = genuine[t]
  <2> SUFFICES ASSUME NEW r \in DOMAIN audit, NEW t \in DOMAIN genuine,
                      audit[r].hash = genuine[t].hash
               PROVE  r = t /\ audit[r] = genuine[t]
    OBVIOUS
  <2>1. <<r, audit[r].mono, audit[r].body, audit[r].prev>>
          = <<t, genuine[t].mono, genuine[t].body, genuine[t].prev>>
    BY <1>3, <1>5
  <2>2. /\ r = t /\ audit[r].mono = genuine[t].mono /\ audit[r].body = genuine[t].body
        /\ audit[r].prev = genuine[t].prev
    BY <2>1
  <2> QED
    BY <1>3, <1>5, <2>2 DEF IsRow
<1>9. Max(DOMAIN audit) = s /\ audit[s] = genuine[s] /\ s \in DOMAIN audit
  BY <1>7, <1>8 DEF IntactWithAnchor, HeadHash
<1>10. Start.seq \in Nat /\ Start.seq >= 1 /\ s \in Nat /\ s <= n
  BY <1>2, StartIs DEF IInv
<1> DEFINE Bad == {r \in Start.seq..s : ~(r \in DOMAIN audit /\ audit[r] = genuine[r])}
<1>11. Bad = {}
  <2> SUFFICES ASSUME Bad # {} PROVE FALSE
    OBVIOUS
  <2>1. Bad \subseteq 0..s
    BY <1>10
  <2>2. PICK m \in Bad : \A r \in Bad : r <= m
    <3> HIDE DEF Bad
    <3> QED
      BY <1>10, <2>1, Greatest
  <2>3. m \in Start.seq..s /\ ~(m \in DOMAIN audit /\ audit[m] = genuine[m]) /\ m # s
    BY <1>9
  <2>4. m + 1 \in Start.seq..s /\ m + 1 \notin Bad /\ m + 1 # Start.seq /\ m + 1 # 1
    BY <1>10, <2>2, <2>3
  <2>5. m + 1 \in DOMAIN audit /\ audit[m + 1] = genuine[m + 1]
    BY <2>4
  <2>6. m + 1 \in DOMAIN genuine /\ m \in DOMAIN genuine /\ (m + 1) - 1 = m
    BY <1>2, <1>10, <2>3, <2>4
  <2>7. m \in DOMAIN audit /\ audit[m].hash = genuine[m].hash
    BY <1>3, <1>5, <2>4, <2>5, <2>6
  <2> QED
    BY <1>8, <2>3, <2>6, <2>7
<1>12. \A r \in Start.seq..s : r \in DOMAIN audit /\ audit[r] = genuine[r]
  BY <1>11
<1>13. \A r \in DOMAIN audit : r \in Start.seq..s
  BY <1>5, <1>6, <1>7, <1>9, <1>10
<1>14. \A r \in Start.seq..s : r \in DOMAIN genuine
  BY <1>2, <1>10
<1> QED
  BY <1>12, <1>13, <1>14

(* What verify_with_anchor is for (audit.rs:638-645): whatever was done to  *)
(* the tables, a log that verifies and ends in a hash the caller knew is,   *)
(* from the newest checkpoint on, the log that was appended.                *)
THEOREM AnchorsProve == Spec => []AnchorProves
<1>1. IInv => AnchorProves
  BY HeadVouches DEF AnchorProves
<1> QED
  BY <1>1, Invariance, PTL

(* A reader beside the daemon raises no alarm about an undamaged log unless *)
(* a rotation fell between its two SELECTs (audit.rs:908-930).              *)
THEOREM AlarmsAreExcused == Spec => []AlarmOnlyAcrossRotation
<1>1. IInv => AlarmOnlyAcrossRotation
  BY DEF IInv, Observed, AlarmOnlyAcrossRotation
<1> QED
  BY <1>1, Invariance, PTL
=============================================================================
