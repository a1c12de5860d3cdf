--------------------------- MODULE AuditChainProofs ---------------------------
(***************************************************************************)
(* Proofs about AuditChain for every number of workers and of entries.     *)
(*                                                                         *)
(* ChainVerifies is not inductive: a worker may hold a row it read long    *)
(* ago, or be between its INSERT and its COMMIT.  The invariant says that  *)
(* the committed rows are a chain of some length n, that what the workers  *)
(* have read is committed, and that the one row inserted and not committed *)
(* collides with no committed row.  Then its predecessor can only be the   *)
(* last row: any other one has a successor already.                        *)
(***************************************************************************)
EXTENDS AuditChain, FunctionTheorems, FiniteSetTheorems, TLAPS

\* The committed rows are numbered from 1 to n, once each, and linked.
Chain(n) ==
    /\ \A r \in events : r.sequence \in 1 .. n
    /\ \A i \in 1 .. n : \E r \in events : r.sequence = i
    /\ \A r, s \in events : r.sequence = s.sequence => r = s
    /\ \A r \in events : r.event_hash = Hash(r.sequence, r.entry, r.previous_hash)
    /\ \A r \in events : r.sequence = 1 => r.previous_hash = Genesis
    /\ \A r, s \in events :
           r.sequence = s.sequence + 1 => r.previous_hash = s.event_hash

IsChain == \E n \in Nat : Chain(n)

HasEntry == \A w \in Workers : pc[w] # "idle" => entry[w] \in Entries

ReadCommitted == \A w \in Workers : previous[w] \in events \cup {None}

OneInFlight == \A v, w \in Workers : pc[v] = "commit" /\ pc[w] = "commit" => v = w

NoCollision == \A w \in Workers : pc[w] = "commit" => ~Violates(NewRow(w), events)

IInv ==
    /\ TypeOK
    /\ IsChain
    /\ HasEntry
    /\ ReadCommitted
    /\ OneInFlight
    /\ NoCollision

-------------------------------------------------------------------------------
(* What a worker would insert is a row.                                      *)
LEMMA NewRowType ==
    ASSUME TypeOK, NEW w \in Workers, entry[w] \in Entries, ReadCommitted
    PROVE  NewRow(w) \in Rows
<1> DEFINE sequence == IF previous[w] = None THEN 1 ELSE previous[w].sequence + 1
           prevHash == IF previous[w] = None THEN Genesis ELSE previous[w].event_hash
<1>1. previous[w] # None => previous[w] \in Rows
  BY DEF TypeOK
<1>2. sequence \in Nat
  BY <1>1 DEF Rows
<1>3. prevHash \in Hashes
  BY <1>1 DEF Rows, Hashes, Genesis
<1>4. Hash(sequence, entry[w], prevHash) \in Hashes
  BY <1>2, <1>3 DEF Hash, Hashes
<1>5. NewRow(w) = [sequence |-> sequence, entry |-> entry[w],
                   previous_hash |-> prevHash,
                   event_hash |-> Hash(sequence, entry[w], prevHash)]
  BY DEF NewRow
<1> HIDE DEF sequence, prevHash
<1> QED
  BY <1>2, <1>3, <1>4, <1>5 DEF Rows

(* The last row of a chain is the one with the number n.                     *)
LEMMA LastOfChain ==
    ASSUME TypeOK, NEW n \in Nat, Chain(n)
    PROVE  /\ LastRow = None => n = 0 /\ events = {}
           /\ LastRow # None => LastRow \in events /\ LastRow.sequence = n
<1>1. CASE events = {}
  BY <1>1, NoneIsNoRow DEF LastRow, Chain
<1>2. CASE events # {}
  <2>1. n \in 1 .. n
    BY <1>2 DEF Chain
  <2>2. PICK m \in events : m.sequence = n
    BY <2>1 DEF Chain
  <2>3. \A s \in events : s.sequence <= m.sequence
    BY <2>2 DEF Chain
  <2>4. LastRow \in events /\ \A s \in events : s.sequence <= LastRow.sequence
    BY <1>2, <2>3 DEF LastRow
  <2>5. LastRow.sequence = n
    BY <2>2, <2>4 DEF Chain
  <2>6. LastRow # None
    BY <2>4, NoneIsNoRow DEF TypeOK
  <2> QED
    BY <2>4, <2>5, <2>6
<1> QED
  BY <1>1, <1>2

(* A row that is built on a committed row and collides with none extends the *)
(* chain: it has the number n + 1 and is linked to the row n.                *)
LEMMA ExtendChain ==
    ASSUME TypeOK, NEW n \in Nat, Chain(n), ReadCommitted,
           NEW w \in Workers, entry[w] \in Entries,
           ~Violates(NewRow(w), events), events' = events \cup {NewRow(w)}
    PROVE  Chain(n + 1)'
<1> DEFINE new == NewRow(w)
<1>1. /\ new.sequence = (IF previous[w] = None THEN 1 ELSE previous[w].sequence + 1)
      /\ new.previous_hash = (IF previous[w] = None THEN Genesis
                              ELSE previous[w].event_hash)
      /\ new.event_hash = Hash(new.sequence, new.entry, new.previous_hash)
  BY DEF NewRow
<1>2. \A r \in events : r.sequence # new.sequence
  BY DEF Violates
<1>3. previous[w] # None =>
          previous[w] \in events /\ previous[w].sequence \in 1 .. n
  BY DEF ReadCommitted, Chain
<1>4. \A i \in 1 .. n : new.sequence # i
  BY <1>2 DEF Chain
<1>5. previous[w] = None => n = 0
  BY <1>1, <1>4
<1>6. previous[w] # None => previous[w].sequence = n
  BY <1>1, <1>3, <1>4
<1>7. new.sequence = n + 1
  BY <1>1, <1>5, <1>6
<1>8. \A r \in events' : r \in events \/ r = new
  OBVIOUS
<1>9. new \in events' /\ events \subseteq events'
  OBVIOUS
<1> HIDE DEF new
<1>10. \A r \in events' : r.sequence \in 1 .. n + 1
  BY <1>7, <1>8 DEF Chain
<1>11. \A i \in 1 .. n + 1 : \E r \in events' : r.sequence = i
  BY <1>7, <1>9 DEF Chain
<1>12. \A r, s \in events' : r.sequence = s.sequence => r = s
  BY <1>2, <1>8 DEF Chain
<1>13. \A r \in events' : r.event_hash = Hash(r.sequence, r.entry, r.previous_hash)
  BY <1>1, <1>8 DEF Chain
<1>14. \A r \in events' : r.sequence = 1 => r.previous_hash = Genesis
  BY <1>1, <1>5, <1>6, <1>7, <1>8, <1>3 DEF Chain
<1>15. ASSUME NEW r \in events', NEW s \in events', r.sequence = s.sequence + 1
       PROVE  r.previous_hash = s.event_hash
  <2>1. CASE r \in events /\ s \in events
    BY <1>15, <2>1 DEF Chain
  <2>2. CASE r = new /\ s \in events
    <3>1. s.sequence = n
      BY <1>7, <1>15, <2>2 DEF Chain
    <3>2. previous[w] # None
      BY <1>5, <2>2 DEF Chain
    <3>3. previous[w] = s
      BY <1>3, <1>6, <2>2, <3>1, <3>2 DEF Chain
    <3> QED
      BY <1>1, <2>2, <3>2, <3>3
  <2>3. CASE r \in events /\ s = new
    BY <1>7, <1>15, <2>3 DEF Chain
  <2>4. CASE r = new /\ s = new
    BY <1>7, <1>15, <2>4
  <2> QED
    BY <1>8, <2>1, <2>2, <2>3, <2>4
<1> QED
  BY <1>10, <1>11, <1>12, <1>13, <1>14, <1>15 DEF Chain

-------------------------------------------------------------------------------
(* The table starts empty: a chain of length 0.                              *)
LEMMA InitInvariant == Init => IInv
<1> SUFFICES ASSUME Init PROVE IInv
  OBVIOUS
<1> USE DEF Init
<1>1. TypeOK
  BY DEF TypeOK, Rows, Outcomes, Pc
<1>2. Chain(0)
  BY DEF Chain
<1>3. HasEntry /\ ReadCommitted /\ OneInFlight /\ NoCollision
  BY DEF HasEntry, ReadCommitted, OneInFlight, NoCollision
<1> QED
  BY <1>1, <1>2, <1>3 DEF IInv, IsChain

(* A call that ends with an exception leaves the table alone and keeps the   *)
(* rest of the invariant.                                                    *)
LEMMA AbortStep ==
    ASSUME IInv, NEW w \in Workers, NEW why \in {"failed", "conflict"},
           pc[w] # "idle", Abort(w, why)
    PROVE  IInv'
<1> USE DEF IInv
<1>1. events' = events
  BY DEF Abort
<1>2. TypeOK'
  <2>1. entry[w] \in Entries
    BY DEF HasEntry
  <2>2. Unlocked(w) \in Workers \cup {None}
    BY DEF Unlocked, TypeOK
  <2> QED
    BY <2>1, <2>2 DEF Abort, TypeOK, Pc, Outcomes
<1>3. IsChain'
  BY <1>1 DEF IsChain, Chain
<1>4. HasEntry'
  BY DEF Abort, HasEntry, TypeOK
<1>5. ReadCommitted'
  BY DEF Abort, ReadCommitted, TypeOK
<1>6. OneInFlight'
  BY DEF Abort, OneInFlight, TypeOK
<1>7. NoCollision'
  <2> SUFFICES ASSUME NEW v \in Workers, pc'[v] = "commit"
               PROVE  ~Violates(NewRow(v), events)'
    BY DEF NoCollision
  <2>1. v # w /\ pc[v] = "commit" /\ previous'[v] = previous[v] /\ entry'[v] = entry[v]
    BY DEF Abort, TypeOK
  <2> QED
    BY <1>1, <2>1 DEF NoCollision, Violates, NewRow
<1> QED
  BY <1>2, <1>3, <1>4, <1>5, <1>6, <1>7

(* A step that changes neither the table nor what any worker in flight is    *)
(* inserting keeps the row in flight free of collisions.                     *)
LEMMA QuietStep ==
    ASSUME IInv, events' = events,
           \A v \in Workers : pc'[v] = "commit" =>
               pc[v] = "commit" /\ previous'[v] = previous[v] /\ entry'[v] = entry[v]
    PROVE  IsChain' /\ OneInFlight' /\ NoCollision'
<1> USE DEF IInv
<1>1. IsChain'
  BY DEF IsChain, Chain
<1>2. OneInFlight'
  BY DEF OneInFlight
<1>3. NoCollision'
  BY DEF NoCollision, Violates, NewRow
<1> QED
  BY <1>1, <1>2, <1>3

(* Every step of every worker keeps the invariant.                           *)
LEMMA NextInvariant == IInv /\ [Next]_vars => IInv'
<1> SUFFICES ASSUME IInv, [Next]_vars PROVE IInv'
  OBVIOUS
<1> USE DEF IInv
<1>1. ASSUME NEW w \in Workers, NEW e \in Entries, Begin(w, e) PROVE IInv'
  <2>1. TypeOK'
    BY <1>1 DEF Begin, TypeOK, Pc, Outcomes
  <2>2. HasEntry' /\ ReadCommitted'
    BY <1>1 DEF Begin, HasEntry, ReadCommitted, TypeOK
  <2>3. IsChain' /\ OneInFlight' /\ NoCollision'
    BY <1>1, QuietStep DEF Begin, TypeOK
  <2> QED
    BY <2>1, <2>2, <2>3
<1>2. ASSUME NEW w \in Workers, AcquireLock(w) PROVE IInv'
  <2>1. TypeOK'
    BY <1>2 DEF AcquireLock, TypeOK, Pc
  <2>2. HasEntry' /\ ReadCommitted'
    BY <1>2 DEF AcquireLock, HasEntry, ReadCommitted, TypeOK
  <2>3. IsChain' /\ OneInFlight' /\ NoCollision'
    BY <1>2, QuietStep DEF AcquireLock, TypeOK
  <2> QED
    BY <2>1, <2>2, <2>3
<1>3. ASSUME NEW w \in Workers, ReadLast(w) PROVE IInv'
  <2>1. LastRow \in events \cup {None}
    BY LastOfChain DEF IsChain
  <2>2. TypeOK'
    BY <1>3, <2>1 DEF ReadLast, TypeOK, Pc
  <2>3. HasEntry' /\ ReadCommitted'
    BY <1>3, <2>1 DEF ReadLast, HasEntry, ReadCommitted, TypeOK
  <2>4. IsChain' /\ OneInFlight' /\ NoCollision'
    BY <1>3, QuietStep DEF ReadLast, TypeOK
  <2> QED
    BY <2>2, <2>3, <2>4
<1>4. ASSUME NEW w \in Workers, Insert(w) PROVE IInv'
  <2>1. TypeOK'
    BY <1>4 DEF Insert, TypeOK, Pc
  <2>2. HasEntry' /\ ReadCommitted'
    BY <1>4 DEF Insert, HasEntry, ReadCommitted, TypeOK
  <2>3. IsChain'
    BY <1>4 DEF Insert, IsChain, Chain
  <2>4. OneInFlight'
    BY <1>4 DEF Insert, NoInsertInFlight, OneInFlight, TypeOK
  <2>5. NoCollision'
    BY <1>4 DEF Insert, NoCollision, Violates, NewRow, TypeOK
  <2> QED
    BY <2>1, <2>2, <2>3, <2>4, <2>5
<1>5. ASSUME NEW w \in Workers, InsertTooLong(w) PROVE IInv'
  BY <1>5, AbortStep DEF InsertTooLong
<1>6. ASSUME NEW w \in Workers, InsertConflict(w) PROVE IInv'
  BY <1>6, AbortStep DEF InsertConflict
<1>7. ASSUME NEW w \in Workers, Commit(w) PROVE IInv'
  <2>1. entry[w] \in Entries
    BY <1>7 DEF Commit, HasEntry
  <2>2. NewRow(w) \in Rows
    BY <2>1, NewRowType
  <2>3. events' = events \cup {NewRow(w)} /\ ~Violates(NewRow(w), events)
    BY <1>7 DEF Commit, NoCollision
  <2>4. TypeOK'
    <3>1. Unlocked(w) \in Workers \cup {None}
      BY DEF Unlocked, TypeOK
    <3> QED
      BY <1>7, <2>2, <3>1 DEF Commit, TypeOK, Pc
  <2>5. IsChain'
    <3>1. PICK n \in Nat : Chain(n)
      BY DEF IsChain
    <3>2. Chain(n + 1)'
      BY <2>1, <2>3, <3>1, ExtendChain
    <3> QED
      BY <3>1, <3>2 DEF IsChain
  <2>6. HasEntry' /\ ReadCommitted'
    BY <1>7 DEF Commit, HasEntry, ReadCommitted, TypeOK
  <2>7. \A v \in Workers : pc'[v] # "commit"
    BY <1>7 DEF Commit, OneInFlight, TypeOK
  <2> QED
    BY <2>4, <2>5, <2>6, <2>7 DEF OneInFlight, NoCollision
<1>8. ASSUME NEW w \in Workers, Return(w) PROVE IInv'
  <2>1. entry[w] \in Entries
    BY <1>8 DEF Return, HasEntry
  <2>2. TypeOK'
    BY <1>8, <2>1 DEF Return, TypeOK, Pc, Outcomes
  <2>3. HasEntry' /\ ReadCommitted'
    BY <1>8 DEF Return, HasEntry, ReadCommitted, TypeOK
  <2>4. IsChain' /\ OneInFlight' /\ NoCollision'
    BY <1>8, QuietStep DEF Return, TypeOK
  <2> QED
    BY <2>2, <2>3, <2>4
<1>9. ASSUME NEW w \in Workers, Fail(w) PROVE IInv'
  BY <1>9, AbortStep DEF Fail
<1>10. CASE UNCHANGED vars
  <2>1. TypeOK' /\ HasEntry' /\ ReadCommitted'
    BY <1>10 DEF vars, TypeOK, HasEntry, ReadCommitted
  <2>2. IsChain' /\ OneInFlight' /\ NoCollision'
    BY <1>10, QuietStep DEF vars
  <2> QED
    BY <2>1, <2>2
<1> QED
  BY <1>1, <1>2, <1>3, <1>4, <1>5, <1>6, <1>7, <1>8, <1>9, <1>10
     DEF Next, Append_event

(* The invariant holds in every reachable state, whatever the dialect.       *)
THEOREM InvariantHolds == Spec => []IInv
<1> QED
  BY InitInvariant, NextInvariant, PTL DEF Spec

(* Every variable keeps its type: in particular what append_event inserts is *)
(* a complete row.                                                           *)
THEOREM TypeCorrect == Spec => []TypeOK
<1>1. IInv => TypeOK
  BY DEF IInv
<1> QED
  BY <1>1, InvariantHolds, PTL

-------------------------------------------------------------------------------
(* The place of a row of a chain, counted as verify_chain counts it, is its  *)
(* number.                                                                   *)
LEMMA PlaceIsSequence ==
    ASSUME NEW n \in Nat, Chain(n), NEW r \in events
    PROVE  Place(r) = r.sequence /\ r.sequence \in 1 .. n
<1> DEFINE k == r.sequence
           upTo == {s \in events : s.sequence <= k}
           number == [s \in upTo |-> s.sequence]
<1>1. k \in 1 .. n
  BY DEF Chain
<1>2. number \in Bijection(upTo, 1 .. k)
  <2>1. \A s \in upTo : s.sequence \in 1 .. k
    BY <1>1 DEF Chain
  <2>2. number \in [upTo -> 1 .. k]
    BY <2>1
  <2>3. \A s, t \in upTo : number[s] = number[t] => s = t
    BY DEF Chain
  <2>4. \A i \in 1 .. k : \E s \in upTo : number[s] = i
    BY <1>1 DEF Chain
  <2> HIDE DEF number, upTo, k
  <2> QED
    BY <2>2, <2>3, <2>4, Fun_IsBij
<1>3. ExistsBijection(1 .. k, upTo)
  BY <1>2, Fun_ExistsBijSymmetric DEF ExistsBijection
<1>4. Cardinality(upTo) = k
  <2> HIDE DEF upTo, k
  <2> QED
    BY <1>1, <1>3, FS_CountingElements
<1> QED
  BY <1>1, <1>4 DEF Place

(* verify_chain accepts the committed table at every instant, however many   *)
(* handlers append, however their statements interleave and wherever they    *)
(* fail, on PostgreSQL and on SQLite alike.                                  *)
THEOREM ChainAlwaysVerifies == Spec => []ChainVerifies
<1>1. IInv => ChainVerifies
  <2> SUFFICES ASSUME IInv, NEW r \in events PROVE Valid(r)
    BY DEF ChainVerifies, Verify_chain
  <2>1. PICK n \in Nat : Chain(n)
    BY DEF IInv, IsChain
  <2>2. \A s \in events : Place(s) = s.sequence /\ s.sequence \in 1 .. n
    BY <2>1, PlaceIsSequence
  <2>3. CASE r.sequence = 1
    BY <2>1, <2>2, <2>3 DEF Valid, Chain
  <2>4. CASE r.sequence # 1
    <3>1. r.sequence - 1 \in 1 .. n
      BY <2>2, <2>4
    <3>2. PICK s \in events : s.sequence = r.sequence - 1
      BY <2>1, <3>1 DEF Chain
    <3>3. r.previous_hash = s.event_hash
      BY <2>1, <2>2, <3>2 DEF Chain
    <3> QED
      BY <2>1, <2>2, <2>4, <3>2, <3>3 DEF Valid, Chain
  <2> QED
    BY <2>3, <2>4
<1> QED
  BY <1>1, InvariantHolds, PTL

-------------------------------------------------------------------------------
(* On PostgreSQL the advisory lock covers the calls from before the read of  *)
(* the last row to the commit: what was read is still the last row.          *)

Serialized ==
    /\ \A w \in Workers : pc[w] \in {"read", "insert", "commit"} => lock = w
    /\ \A w \in Workers : pc[w] \in {"insert", "commit"} => previous[w] = LastRow

SerialInv == IInv /\ (dialect = "postgresql" => Serialized /\ NoWriterRejected)

(* Two hashes are equal only if the rows they end with are.                  *)
LEMMA HashInjective ==
    ASSUME NEW i \in Nat, NEW d \in Entries, NEW p \in Hashes,
           NEW j \in Nat, NEW e \in Entries, NEW q \in Hashes,
           Hash(i, d, p) = Hash(j, e, q)
    PROVE  i = j
<1>1. Len(Append(p, <<i, d>>)) = Len(p) + 1 /\ Append(p, <<i, d>>)[Len(p) + 1] = <<i, d>>
  BY DEF Hashes
<1>2. Len(Append(q, <<j, e>>)) = Len(q) + 1 /\ Append(q, <<j, e>>)[Len(q) + 1] = <<j, e>>
  BY DEF Hashes
<1>3. Append(p, <<i, d>>) = Append(q, <<j, e>>)
  BY DEF Hash
<1>4. Len(p) \in Nat /\ Len(q) \in Nat
  BY DEF Hashes
<1>5. <<i, d>> = <<j, e>>
  BY <1>1, <1>2, <1>3, <1>4
<1> QED
  BY <1>5

(* A row that is built on the last row has a number of its own and therefore *)
(* a hash of its own.                                                        *)
LEMMA NoConflictAfterLast ==
    ASSUME IInv, NEW w \in Workers, entry[w] \in Entries, previous[w] = LastRow
    PROVE  ~Violates(NewRow(w), events)
<1> USE DEF IInv
<1>1. PICK n \in Nat : Chain(n)
  BY DEF IsChain
<1>2. NewRow(w).sequence = n + 1
  BY <1>1, LastOfChain DEF NewRow
<1>3. \A r \in events : r.sequence # n + 1
  BY <1>1 DEF Chain
<1>4. ASSUME NEW r \in events, r.event_hash = NewRow(w).event_hash PROVE FALSE
  <2> DEFINE new == NewRow(w)
  <2>1. /\ new.sequence \in Nat /\ new.entry \in Entries
        /\ new.previous_hash \in Hashes
    BY NewRowType DEF Rows
  <2>2. /\ r.sequence \in Nat /\ r.entry \in Entries
        /\ r.previous_hash \in Hashes
    BY DEF TypeOK, Rows
  <2>3. r.event_hash = Hash(r.sequence, r.entry, r.previous_hash)
    BY <1>1 DEF Chain
  <2>4. new.event_hash = Hash(new.sequence, new.entry, new.previous_hash)
    BY DEF NewRow
  <2>5. Hash(r.sequence, r.entry, r.previous_hash)
          = Hash(new.sequence, new.entry, new.previous_hash)
    BY <1>4, <2>3, <2>4
  <2> HIDE DEF new
  <2>6. r.sequence = new.sequence
    BY <2>1, <2>2, <2>5, HashInjective
  <2> QED
    BY <1>2, <1>3, <2>6 DEF new
<1> QED
  BY <1>2, <1>3, <1>4 DEF Violates

(* A failed call gives up its lock and only its own.                         *)
LEMMA SerializedAbort ==
    ASSUME IInv, Serialized, NEW w \in Workers, NEW why, Abort(w, why)
    PROVE  Serialized'
<1>1. events' = events /\ LastRow' = LastRow
  BY DEF Abort, LastRow
<1>2. \A v \in Workers : v # w => pc'[v] = pc[v] /\ previous'[v] = previous[v]
  BY DEF Abort, IInv, TypeOK
<1>3. pc'[w] = "idle"
  BY DEF Abort, IInv, TypeOK
<1>4. \A v \in Workers : v # w /\ lock = v => lock' = v
  BY DEF Abort, Unlocked
<1> QED
  BY <1>1, <1>2, <1>3, <1>4 DEF Serialized

(* Every step keeps the calls serialized on PostgreSQL.                      *)
LEMMA SerializedStep ==
    ASSUME dialect = "postgresql", IInv, Serialized, [Next]_vars
    PROVE  Serialized'
<1> USE DEF IInv, TypeOK
<1>1. ASSUME NEW w \in Workers, NEW e \in Entries, Begin(w, e) PROVE Serialized'
  BY <1>1 DEF Begin, Serialized, LastRow
<1>2. ASSUME NEW w \in Workers, AcquireLock(w) PROVE Serialized'
  BY <1>2, NoneAssumption DEF AcquireLock, Serialized, LastRow
<1>3. ASSUME NEW w \in Workers, ReadLast(w) PROVE Serialized'
  <2>1. LastRow' = LastRow
    BY <1>3 DEF ReadLast, LastRow
  <2> QED
    BY <1>3, <2>1 DEF ReadLast, Serialized
<1>4. ASSUME NEW w \in Workers, Insert(w) PROVE Serialized'
  <2>1. LastRow' = LastRow
    BY <1>4 DEF Insert, LastRow
  <2> QED
    BY <1>4, <2>1 DEF Insert, Serialized
<1>5. ASSUME NEW w \in Workers, NEW why, Abort(w, why) PROVE Serialized'
  BY <1>5, SerializedAbort
<1>6. ASSUME NEW w \in Workers, Commit(w) PROVE Serialized'
  <2>1. lock = w
    BY <1>6 DEF Commit, Serialized
  <2>2. \A v \in Workers : pc'[v] \notin {"read", "insert", "commit"}
    BY <1>6, <2>1 DEF Commit, Serialized
  <2> QED
    BY <2>2 DEF Serialized
<1>7. ASSUME NEW w \in Workers, Return(w) PROVE Serialized'
  <2>1. LastRow' = LastRow
    BY <1>7 DEF Return, LastRow
  <2> QED
    BY <1>7, <2>1 DEF Return, Serialized
<1>8. CASE UNCHANGED vars
  <2>1. LastRow' = LastRow
    BY <1>8 DEF vars, LastRow
  <2> QED
    BY <1>8, <2>1 DEF vars, Serialized
<1> QED
  BY <1>1, <1>2, <1>3, <1>4, <1>5, <1>6, <1>7, <1>8
     DEF Next, Append_event, InsertTooLong, InsertConflict, Fail

(* No step makes a call lose its event to a concurrent one.                  *)
LEMMA RejectedStep ==
    ASSUME IInv, Serialized, NoWriterRejected, [Next]_vars
    PROVE  NoWriterRejected'
<1> USE DEF IInv, TypeOK, NoWriterRejected
<1>1. ASSUME NEW w \in Workers, NEW e \in Entries, Begin(w, e) PROVE NoWriterRejected'
  BY <1>1 DEF Begin
<1>2. ASSUME NEW w \in Workers, InsertConflict(w) PROVE FALSE
  <2>1. previous[w] = LastRow /\ entry[w] \in Entries
    BY <1>2 DEF InsertConflict, Serialized, HasEntry
  <2> QED
    BY <1>2, <2>1, NoConflictAfterLast DEF InsertConflict
<1>3. ASSUME NEW w \in Workers, Abort(w, "failed") PROVE NoWriterRejected'
  BY <1>3 DEF Abort
<1>4. ASSUME NEW w \in Workers, Return(w) PROVE NoWriterRejected'
  BY <1>4 DEF Return
<1>5. ASSUME NEW w \in Workers,
             AcquireLock(w) \/ ReadLast(w) \/ Insert(w) \/ Commit(w)
      PROVE  NoWriterRejected'
  BY <1>5 DEF AcquireLock, ReadLast, Insert, Commit
<1>6. CASE UNCHANGED vars
  BY <1>6 DEF vars
<1> QED
  BY <1>1, <1>2, <1>3, <1>4, <1>5, <1>6 DEF Next, Append_event, InsertTooLong, Fail

(* The database is the one the API was started with.                         *)
LEMMA DialectFixed ==
    ASSUME [Next]_vars
    PROVE  dialect' = dialect
BY DEF Next, vars, Begin, Append_event, AcquireLock, ReadLast, Insert, InsertTooLong,
       InsertConflict, Commit, Return, Fail, Abort

(* On PostgreSQL no append fails because of another append, for every number *)
(* of handlers: the advisory lock of audit.py:51 is enough.                  *)
THEOREM PostgresqlNeverRejects == Spec => []LockPreventsConflict
<1>1. Init => SerialInv
  <2> SUFFICES ASSUME Init PROVE SerialInv
    OBVIOUS
  <2>1. IInv
    BY InitInvariant
  <2>2. Serialized /\ NoWriterRejected
    BY DEF Init, Serialized, NoWriterRejected
  <2> QED
    BY <2>1, <2>2 DEF SerialInv
<1>2. SerialInv /\ [Next]_vars => SerialInv'
  <2> SUFFICES ASSUME SerialInv, [Next]_vars PROVE SerialInv'
    OBVIOUS
  <2>1. IInv'
    BY NextInvariant DEF SerialInv
  <2>2. dialect' = dialect
    BY DialectFixed
  <2>3. CASE dialect = "postgresql"
    BY <2>1, <2>3, SerializedStep, RejectedStep DEF SerialInv
  <2>4. CASE dialect # "postgresql"
    BY <2>1, <2>2, <2>4 DEF SerialInv
  <2> QED
    BY <2>3, <2>4
<1>3. SerialInv => LockPreventsConflict
  BY DEF SerialInv, LockPreventsConflict
<1> QED
  BY <1>1, <1>2, <1>3, PTL DEF Spec

-------------------------------------------------------------------------------
(* The table implements the append-only log.  Beyond the chain this takes    *)
(* the book-keeping of the calls: an entry belongs to one call, it is        *)
(* committed once, and a call that returned has committed it.                *)

Bookkeeping ==
    /\ \A w \in Workers : pc[w] # "idle" => outcome[entry[w]] = "pending"
    /\ \A v, w \in Workers :
           pc[v] # "idle" /\ pc[w] # "idle" /\ entry[v] = entry[w] => v = w
    /\ \A r \in events : outcome[r.entry] # "none"
    /\ \A r \in events, w \in Workers :
           pc[w] \in {"lock", "read", "insert", "commit"} => r.entry # entry[w]
    /\ \A w \in Workers : pc[w] = "refresh" => \E r \in events : r.entry = entry[w]
    /\ \A e \in Entries : outcome[e] = "returned" => \E r \in events : r.entry = e

\* The two expressions the refinement substitutes for the abstract variables.
TableLog ==
    [i \in 1 .. Cardinality(events) |-> (CHOOSE r \in events : r.sequence = i).entry]
TableAcknowledged == {e \in Entries : outcome[e] = "returned"}

(* A call that ends with an exception committed nothing that it did not have *)
(* committed before.                                                         *)
LEMMA BookkeepingAbort ==
    ASSUME IInv, Bookkeeping, NEW w \in Workers, pc[w] # "idle",
           NEW why \in {"failed", "conflict"}, Abort(w, why)
    PROVE  Bookkeeping'
<1> USE DEF IInv, TypeOK, HasEntry
<1>1. entry[w] \in Entries /\ outcome[entry[w]] = "pending"
  BY DEF Bookkeeping
<1>2. events' = events
  BY DEF Abort
<1>3. \A v \in Workers : pc'[v] # "idle" =>
          v # w /\ pc'[v] = pc[v] /\ entry'[v] = entry[v] /\ entry[v] \in Entries
  BY DEF Abort
<1>4. \A e \in Entries : outcome'[e] = IF e = entry[w] THEN why ELSE outcome[e]
  BY DEF Abort
<1>5. \A r \in events : r.entry \in Entries
  BY DEF Rows
<1>6. \A v \in Workers : pc'[v] # "idle" => outcome'[entry'[v]] = "pending"
  BY <1>3, <1>4 DEF Bookkeeping
<1>7. \A u, v \in Workers :
          pc'[u] # "idle" /\ pc'[v] # "idle" /\ entry'[u] = entry'[v] => u = v
  BY <1>3 DEF Bookkeeping
<1>8. \A r \in events' : outcome'[r.entry] # "none"
  BY <1>2, <1>4, <1>5 DEF Bookkeeping
<1>9. \A r \in events', v \in Workers :
          pc'[v] \in {"lock", "read", "insert", "commit"} => r.entry # entry'[v]
  BY <1>2, <1>3 DEF Bookkeeping
<1>10. \A v \in Workers : pc'[v] = "refresh" => \E r \in events' : r.entry = entry'[v]
  BY <1>2, <1>3 DEF Bookkeeping
<1>11. \A e \in Entries : outcome'[e] = "returned" => \E r \in events' : r.entry = e
  BY <1>2, <1>4 DEF Bookkeeping
<1> QED
  BY <1>6, <1>7, <1>8, <1>9, <1>10, <1>11 DEF Bookkeeping

(* Every step keeps the books.                                               *)
LEMMA BookkeepingStep ==
    ASSUME IInv, Bookkeeping, [Next]_vars
    PROVE  Bookkeeping'
<1> USE DEF IInv, TypeOK, HasEntry
<1>1. ASSUME NEW w \in Workers, NEW e \in Entries, Begin(w, e) PROVE Bookkeeping'
  <2>1. \A r \in events : r.entry \in Entries /\ r.entry # e
    BY <1>1 DEF Begin, Bookkeeping, Rows
  <2>2. \A v \in Workers : pc[v] # "idle" => entry[v] # e /\ v # w
    BY <1>1 DEF Begin, Bookkeeping
  <2>3. pc'[w] # "idle" /\ pc'[w] # "refresh" /\ entry'[w] = e /\ outcome'[e] = "pending"
    BY <1>1 DEF Begin
  <2>4. \A v \in Workers : v # w => pc'[v] = pc[v] /\ entry'[v] = entry[v]
    BY <1>1 DEF Begin
  <2>5. \A d \in Entries : d # e => outcome'[d] = outcome[d]
    BY <1>1 DEF Begin
  <2>6. events' = events
    BY <1>1 DEF Begin
  <2>7. \A v \in Workers : pc'[v] # "idle" => outcome'[entry'[v]] = "pending"
    BY <2>2, <2>3, <2>4, <2>5 DEF Bookkeeping
  <2>8. \A u, v \in Workers :
            pc'[u] # "idle" /\ pc'[v] # "idle" /\ entry'[u] = entry'[v] => u = v
    BY <2>2, <2>3, <2>4 DEF Bookkeeping
  <2>9. \A r \in events' : outcome'[r.entry] # "none"
    BY <2>1, <2>5, <2>6 DEF Bookkeeping
  <2>10. \A r \in events', v \in Workers :
             pc'[v] \in {"lock", "read", "insert", "commit"} => r.entry # entry'[v]
    BY <2>1, <2>3, <2>4, <2>6 DEF Bookkeeping
  <2>11. \A v \in Workers : pc'[v] = "refresh" => \E r \in events' : r.entry = entry'[v]
    BY <2>3, <2>4, <2>6 DEF Bookkeeping
  <2>12. \A d \in Entries : outcome'[d] = "returned" => \E r \in events' : r.entry = d
    BY <2>3, <2>5, <2>6 DEF Bookkeeping
  <2> QED
    BY <2>7, <2>8, <2>9, <2>10, <2>11, <2>12 DEF Bookkeeping
<1>2. ASSUME NEW w \in Workers, AcquireLock(w) \/ ReadLast(w) \/ Insert(w)
      PROVE  Bookkeeping'
  <2>1. events' = events /\ entry' = entry /\ outcome' = outcome
    BY <1>2 DEF AcquireLock, ReadLast, Insert
  <2>2. \A v \in Workers : v # w => pc'[v] = pc[v]
    BY <1>2 DEF AcquireLock, ReadLast, Insert
  <2>3. /\ pc[w] \in {"lock", "read", "insert", "commit"}
        /\ pc'[w] \in {"lock", "read", "insert", "commit"}
    BY <1>2 DEF AcquireLock, ReadLast, Insert
  <2> QED
    BY <2>1, <2>2, <2>3 DEF Bookkeeping
<1>3. ASSUME NEW w \in Workers, pc[w] # "idle", NEW why \in {"failed", "conflict"},
             Abort(w, why)
      PROVE  Bookkeeping'
  BY <1>3, BookkeepingAbort
<1>4. ASSUME NEW w \in Workers, Commit(w) PROVE Bookkeeping'
  <2>1. entry' = entry /\ outcome' = outcome
    BY <1>4 DEF Commit
  <2>2. \A v \in Workers : v # w => pc'[v] = pc[v]
    BY <1>4 DEF Commit
  <2>3. pc[w] = "commit" /\ pc'[w] = "refresh" /\ outcome[entry[w]] = "pending"
    BY <1>4 DEF Commit, Bookkeeping
  <2>4. events' = events \cup {NewRow(w)} /\ NewRow(w).entry = entry[w]
    BY <1>4 DEF Commit, NewRow
  <2>5. \A v \in Workers : v # w /\ pc[v] # "idle" => entry[v] # entry[w]
    BY <2>3 DEF Bookkeeping
  <2>6. \A v \in Workers : pc'[v] # "idle" => outcome'[entry'[v]] = "pending"
    BY <2>1, <2>2, <2>3 DEF Bookkeeping
  <2>7. \A u, v \in Workers :
            pc'[u] # "idle" /\ pc'[v] # "idle" /\ entry'[u] = entry'[v] => u = v
    BY <2>1, <2>2, <2>3 DEF Bookkeeping
  <2>8. \A r \in events' : outcome'[r.entry] # "none"
    BY <2>1, <2>3, <2>4 DEF Bookkeeping
  <2>9. \A r \in events', v \in Workers :
            pc'[v] \in {"lock", "read", "insert", "commit"} => r.entry # entry'[v]
    BY <2>1, <2>2, <2>3, <2>4, <2>5 DEF Bookkeeping
  <2>10. \A v \in Workers : pc'[v] = "refresh" => \E r \in events' : r.entry = entry'[v]
    BY <2>1, <2>2, <2>3, <2>4 DEF Bookkeeping
  <2>11. \A e \in Entries : outcome'[e] = "returned" => \E r \in events' : r.entry = e
    BY <2>1, <2>4 DEF Bookkeeping
  <2> QED
    BY <2>6, <2>7, <2>8, <2>9, <2>10, <2>11 DEF Bookkeeping
<1>5. ASSUME NEW w \in Workers, Return(w) PROVE Bookkeeping'
  <2>1. events' = events
    BY <1>5 DEF Return
  <2>2. \A v \in Workers : pc'[v] # "idle" =>
            v # w /\ pc'[v] = pc[v] /\ entry'[v] = entry[v] /\ entry[v] \in Entries
    BY <1>5 DEF Return
  <2>3. entry[w] \in Entries /\ \E r \in events : r.entry = entry[w]
    BY <1>5 DEF Return, Bookkeeping
  <2>4. \A e \in Entries : outcome'[e] = IF e = entry[w] THEN "returned" ELSE outcome[e]
    BY <1>5 DEF Return
  <2>5. \A r \in events : r.entry \in Entries
    BY DEF Rows
  <2>6. pc[w] # "idle"
    BY <1>5 DEF Return
  <2>7. \A v \in Workers : pc'[v] # "idle" => outcome'[entry'[v]] = "pending"
    BY <2>2, <2>4, <2>6 DEF Bookkeeping
  <2>8. \A u, v \in Workers :
            pc'[u] # "idle" /\ pc'[v] # "idle" /\ entry'[u] = entry'[v] => u = v
    BY <2>2 DEF Bookkeeping
  <2>9. \A r \in events' : outcome'[r.entry] # "none"
    BY <2>1, <2>4, <2>5 DEF Bookkeeping
  <2>10. \A r \in events', v \in Workers :
             pc'[v] \in {"lock", "read", "insert", "commit"} => r.entry # entry'[v]
    BY <2>1, <2>2 DEF Bookkeeping
  <2>11. \A v \in Workers : pc'[v] = "refresh" => \E r \in events' : r.entry = entry'[v]
    BY <2>1, <2>2 DEF Bookkeeping
  <2>12. \A e \in Entries : outcome'[e] = "returned" => \E r \in events' : r.entry = e
    BY <2>1, <2>3, <2>4 DEF Bookkeeping
  <2> QED
    BY <2>7, <2>8, <2>9, <2>10, <2>11, <2>12 DEF Bookkeeping
<1>6. CASE UNCHANGED vars
  BY <1>6 DEF vars, Bookkeeping
<1> QED
  BY <1>1, <1>2, <1>3, <1>4, <1>5, <1>6
     DEF Next, Append_event, InsertTooLong, InsertConflict, Fail

\* The log that the table stands for has n entries, one for each row.
LogIs(n) ==
    /\ Cardinality(events) = n
    /\ TableLog \in [1 .. n -> Entries]
    /\ \A r \in events : r.sequence \in 1 .. n /\ TableLog[r.sequence] = r.entry

ChainIsLog == \A n \in Nat : Chain(n) => LogIs(n)

(* A chain of n rows, read in the order of their numbers, is a sequence of n *)
(* entries.                                                                  *)
LEMMA LogOfChain == TypeOK => ChainIsLog
<1> SUFFICES ASSUME TypeOK, NEW n \in Nat, Chain(n) PROVE LogIs(n)
  BY DEF ChainIsLog
<1>1. Cardinality(events) = n
  <2>1. CASE n = 0
    <3>1. events = {}
      BY <2>1 DEF Chain
    <3> QED
      BY <2>1, <3>1, FS_EmptySet
  <2>2. CASE n # 0
    <3>1. PICK m \in events : m.sequence = n
      BY <2>2 DEF Chain
    <3>2. {s \in events : s.sequence <= m.sequence} = events
      BY <3>1 DEF Chain
    <3> QED
      BY <3>1, <3>2, PlaceIsSequence DEF Place
  <2> QED
    BY <2>1, <2>2
<1>2. \A i \in 1 .. n : (CHOOSE r \in events : r.sequence = i) \in events
  BY DEF Chain
<1>3. \A r \in events : r \in Rows
  BY DEF TypeOK
<1>4. \A i \in 1 .. n : (CHOOSE r \in events : r.sequence = i).entry \in Entries
  BY <1>2, <1>3 DEF Rows
<1>5. \A r \in events : (CHOOSE s \in events : s.sequence = r.sequence) = r
  BY DEF Chain
<1>6. \A r \in events : r.sequence \in 1 .. n
  BY DEF Chain
<1> QED
  BY <1>1, <1>4, <1>5, <1>6 DEF LogIs, TableLog

(* The commit of the row n + 1 appends its entry to the log.                 *)
LEMMA CommitAppends ==
    ASSUME IInv, TypeOK', NEW n \in Nat, Chain(n), Chain(n + 1)',
           NEW w \in Workers, entry[w] \in Entries,
           events' = events \cup {NewRow(w)}, ~Violates(NewRow(w), events)
    PROVE  TableLog' = Append(TableLog, entry[w])
<1>1. /\ TableLog \in [1 .. n -> Entries]
      /\ \A r \in events : r.sequence \in 1 .. n /\ TableLog[r.sequence] = r.entry
  BY LogOfChain DEF IInv, ChainIsLog, LogIs
<1>2. /\ TableLog' \in [1 .. n + 1 -> Entries]
      /\ \A r \in events' : r.sequence \in 1 .. n + 1 /\ TableLog'[r.sequence] = r.entry
  <2>1. ChainIsLog'
    BY LogOfChain, PTL
  <2>2. LogIs(n + 1)'
    BY <2>1 DEF ChainIsLog
  <2> QED
    BY <2>2 DEF LogIs
<1>3. NewRow(w).sequence = n + 1 /\ NewRow(w).entry = entry[w]
  <2>1. NewRow(w).sequence \in 1 .. n + 1
    BY <1>2
  <2>2. \A r \in events : r.sequence # NewRow(w).sequence
    BY DEF Violates
  <2>3. NewRow(w).sequence \notin 1 .. n
    BY <2>2 DEF Chain
  <2> QED
    BY <2>1, <2>3 DEF NewRow
<1>4. TableLog'[n + 1] = entry[w]
  BY <1>2, <1>3
<1>5. \A i \in 1 .. n : TableLog'[i] = TableLog[i]
  <2> SUFFICES ASSUME NEW i \in 1 .. n PROVE TableLog'[i] = TableLog[i]
    OBVIOUS
  <2>1. PICK r \in events : r.sequence = i
    BY DEF Chain
  <2> QED
    BY <1>1, <1>2, <2>1
<1>6. TableLog \in Seq(Entries) /\ Len(TableLog) = n
  BY <1>1
<1>7. TableLog' \in Seq(Entries) /\ Len(TableLog') = n + 1
  BY <1>2
<1> QED
  BY <1>4, <1>5, <1>6, <1>7

-------------------------------------------------------------------------------
RefinementInv == IInv /\ Bookkeeping

(* Before the first call nothing is recorded and nothing acknowledged.       *)
LEMMA RefinementInit == Init => Log!Init
<1> SUFFICES ASSUME Init PROVE Log!Init
  OBVIOUS
<1>1. Cardinality(events) = 0
  BY FS_EmptySet DEF Init
<1>2. [i \in 1 .. Cardinality(events) |-> (CHOOSE r \in events : r.sequence = i).entry]
          = <<>>
  BY <1>1
<1>3. {e \in Entries : outcome[e] = "returned"} = {}
  BY DEF Init
<1> QED
  BY <1>2, <1>3 DEF Log!Init

(* A commit records one entry, a return acknowledges one, and every other    *)
(* step leaves the log and the acknowledgements as they are.                 *)
LEMMA RefinementStep ==
    ASSUME RefinementInv, IInv', [Next]_vars
    PROVE  [Log!Next]_(Log!vars)
<1> USE DEF RefinementInv
<1>1. ASSUME events' = events, \A e \in Entries :
                 outcome'[e] = "returned" <=> outcome[e] = "returned"
      PROVE  UNCHANGED Log!vars
  BY <1>1 DEF Log!vars
<1>2. ASSUME NEW w \in Workers, NEW e \in Entries, Begin(w, e) PROVE UNCHANGED Log!vars
  BY <1>1, <1>2 DEF Begin, IInv, TypeOK
<1>3. ASSUME NEW w \in Workers, AcquireLock(w) \/ ReadLast(w) \/ Insert(w)
      PROVE  UNCHANGED Log!vars
  BY <1>1, <1>3 DEF AcquireLock, ReadLast, Insert
<1>4. ASSUME NEW w \in Workers, pc[w] # "idle", NEW why \in {"failed", "conflict"},
             Abort(w, why)
      PROVE  UNCHANGED Log!vars
  <2>1. entry[w] \in Entries /\ outcome[entry[w]] = "pending"
    BY <1>4 DEF IInv, HasEntry, Bookkeeping
  <2> QED
    BY <1>1, <1>4, <2>1 DEF Abort, IInv, TypeOK
<1>5. ASSUME NEW w \in Workers, Commit(w) PROVE Log!Next
  <2>1. entry[w] \in Entries /\ pc[w] = "commit"
    BY <1>5 DEF Commit, IInv, HasEntry
  <2>2. events' = events \cup {NewRow(w)} /\ ~Violates(NewRow(w), events)
    BY <1>5, <2>1 DEF Commit, IInv, NoCollision
  <2>3. PICK n \in Nat : Chain(n)
    BY DEF IInv, IsChain
  <2>4. Chain(n + 1)'
    BY <2>1, <2>2, <2>3, ExtendChain DEF IInv
  <2>5. TableLog' = Append(TableLog, entry[w])
    BY <2>1, <2>2, <2>3, <2>4, CommitAppends DEF IInv
  <2>6. \A i \in DOMAIN TableLog : TableLog[i] # entry[w]
    <3>1. LogIs(n)
      BY <2>3, LogOfChain DEF IInv, ChainIsLog
    <3>2. SUFFICES ASSUME NEW i \in 1 .. n PROVE TableLog[i] # entry[w]
      BY <3>1 DEF LogIs
    <3>3. PICK r \in events : r.sequence = i
      BY <2>3, <3>2 DEF Chain
    <3>4. r.entry # entry[w]
      BY <2>1 DEF Bookkeeping
    <3> QED
      BY <3>1, <3>3, <3>4 DEF LogIs
  <2>7. TableAcknowledged' = TableAcknowledged
    BY <1>5 DEF Commit, TableAcknowledged
  <2>8. PICK e \in Entries : e = entry[w]
    BY <2>1
  <2>9. Log!Record(e)
    BY <2>5, <2>6, <2>7, <2>8 DEF Log!Record, Log!Recorded, TableLog, TableAcknowledged
  <2> QED
    BY <2>9 DEF Log!Next
<1>6. ASSUME NEW w \in Workers, Return(w) PROVE Log!Next
  <2>1. entry[w] \in Entries /\ \E r \in events : r.entry = entry[w]
    BY <1>6 DEF Return, IInv, HasEntry, Bookkeeping
  <2>2. PICK r \in events : r.entry = entry[w]
    BY <2>1
  <2>3. PICK n \in Nat : Chain(n)
    BY DEF IInv, IsChain
  <2>4. LogIs(n)
    BY <2>3, LogOfChain DEF IInv, ChainIsLog
  <2>5. r.sequence \in DOMAIN TableLog /\ TableLog[r.sequence] = entry[w]
    BY <2>2, <2>4 DEF LogIs
  <2>6. TableLog' = TableLog
    BY <1>6 DEF Return, TableLog
  <2>7. TableAcknowledged' = TableAcknowledged \cup {entry[w]}
    BY <1>6, <2>1 DEF Return, TableAcknowledged, IInv, TypeOK
  <2>8. PICK e \in Entries : e = entry[w]
    BY <2>1
  <2>9. Log!Acknowledge(e)
    BY <2>5, <2>6, <2>7, <2>8
       DEF Log!Acknowledge, Log!Recorded, TableLog, TableAcknowledged
  <2> QED
    BY <2>9 DEF Log!Next
<1>7. CASE UNCHANGED vars
  BY <1>1, <1>7 DEF vars
<1> QED
  BY <1>2, <1>3, <1>4, <1>5, <1>6, <1>7
     DEF Next, Append_event, InsertTooLong, InsertConflict, Fail

(* append_event implements an append-only log: an event is recorded at one   *)
(* instant, at the end, at most once, and a call that returned recorded its  *)
(* own - on both databases and for every number of handlers and events.      *)
THEOREM ImplementsLog == Spec => ImplementsAuditLog
<1>1. Init => RefinementInv
  <2> SUFFICES ASSUME Init PROVE RefinementInv
    OBVIOUS
  <2>1. Bookkeeping
    BY DEF Init, Bookkeeping
  <2> QED
    BY <2>1, InitInvariant DEF RefinementInv
<1>2. RefinementInv /\ [Next]_vars => RefinementInv'
  BY NextInvariant, BookkeepingStep DEF RefinementInv
<1>3. RefinementInv /\ RefinementInv' /\ [Next]_vars => [Log!Next]_(Log!vars)
  BY RefinementStep DEF RefinementInv
<1> QED
  BY <1>1, <1>2, <1>3, RefinementInit, PTL DEF Spec, ImplementsAuditLog, Log!Spec

===============================================================================
