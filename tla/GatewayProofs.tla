----------------------------- MODULE GatewayProofs -----------------------------
(***************************************************************************)
(* Proofs about Gateway for any number of requests, permits and pooled     *)
(* connections, as long as there are more permits than connections.        *)
(***************************************************************************)
EXTENDS Gateway, FiniteSetTheorems, TLAPS

USE RequestsAssumption, LimitsAssumption

\* The reads with a permit, and those with a connection.
Holders == {r \in Requests : HoldsPermit(r)}
Borrowers == {r \in Requests : pc[r] \in Borrowing}

\* The two sets are finite, and so is what a step makes of them.
LEMMA FiniteReads ==
    /\ IsFiniteSet(Holders) /\ IsFiniteSet(Borrowers)
    /\ Cardinality(Holders) \in Nat /\ Cardinality(Borrowers) \in Nat
  <1>1. Holders \in SUBSET Requests /\ Borrowers \in SUBSET Requests
    BY DEF Holders, Borrowers
  <1>2. IsFiniteSet(Holders) /\ IsFiniteSet(Borrowers)
    BY <1>1, FS_Subset
  <1>3. QED
    BY <1>2, FS_CardinalityType

\* The reads with a permit when one of them moves: it joins, leaves or stays.
LEMMA HoldersMove ==
    ASSUME TypeOK, NEW r \in Requests, NEW w \in Awaits \cup {"done"},
           pc' = [pc EXCEPT ![r] = w]
    PROVE  Cardinality(Holders') =
              IF w \in InFlight
              THEN IF HoldsPermit(r) THEN Cardinality(Holders) ELSE Cardinality(Holders) + 1
              ELSE IF HoldsPermit(r) THEN Cardinality(Holders) - 1 ELSE Cardinality(Holders)
  <1>1. CASE w \in InFlight
    <2>1. Holders' = Holders \cup {r}
      BY <1>1 DEF TypeOK, Holders, HoldsPermit
    <2>2. r \in Holders <=> HoldsPermit(r)
      BY DEF Holders
    <2>3. QED
      BY <1>1, <2>1, <2>2, FiniteReads, FS_AddElement
  <1>2. CASE w \notin InFlight
    <2>1. Holders' = Holders \ {r}
      BY <1>2 DEF TypeOK, Holders, HoldsPermit
    <2>2. r \in Holders <=> HoldsPermit(r)
      BY DEF Holders
    <2>3. QED
      BY <1>2, <2>1, <2>2, FiniteReads, FS_RemoveElement
  <1>3. QED
    BY <1>1, <1>2

\* The reads with a connection when one of them moves.
LEMMA BorrowersMove ==
    ASSUME TypeOK, NEW r \in Requests, NEW w \in Awaits \cup {"done"},
           pc' = [pc EXCEPT ![r] = w]
    PROVE  Cardinality(Borrowers') =
              IF w \in Borrowing
              THEN IF pc[r] \in Borrowing THEN Cardinality(Borrowers)
                                          ELSE Cardinality(Borrowers) + 1
              ELSE IF pc[r] \in Borrowing THEN Cardinality(Borrowers) - 1
                                          ELSE Cardinality(Borrowers)
  <1>1. CASE w \in Borrowing
    <2>1. Borrowers' = Borrowers \cup {r}
      BY <1>1 DEF TypeOK, Borrowers
    <2>2. r \in Borrowers <=> pc[r] \in Borrowing
      BY DEF Borrowers
    <2>3. QED
      BY <1>1, <2>1, <2>2, FiniteReads, FS_AddElement
  <1>2. CASE w \notin Borrowing
    <2>1. Borrowers' = Borrowers \ {r}
      BY <1>2 DEF TypeOK, Borrowers
    <2>2. r \in Borrowers <=> pc[r] \in Borrowing
      BY DEF Borrowers
    <2>3. QED
      BY <1>2, <2>1, <2>2, FiniteReads, FS_RemoveElement
  <1>3. QED
    BY <1>1, <1>2

\* The invariant in terms of the two sets.
LEMMA InvSets ==
    IndInv <=> /\ TypeOK
               /\ permits + Cardinality(Holders) = MaxInFlight
               /\ Cardinality(Borrowers) + returning <= PoolSize
  BY DEF IndInv, PermitConservation, ConnectionsInv, Borrowed, Holders, Borrowers

\* A read that ends under a permit gives back the permit and the connection.
LEMMA EndReadKeeps ==
    ASSUME IndInv, NEW r \in Requests, HoldsPermit(r), NEW result,
           result \in Errors \cup {"ok", "cancelled"}, EndRead(r, result)
    PROVE  IndInv'
  <1> USE InvSets
  <1>1. pc' = [pc EXCEPT ![r] = "done"]
    BY DEF EndRead, Respond
  <1>2. TypeOK'
    BY <1>1 DEF EndRead, Respond, Static, TypeOK, Awaits, InFlight, Borrowing
  <1>3. Cardinality(Holders') = Cardinality(Holders) - 1
    BY <1>1, HoldersMove DEF InFlight, Borrowing
  <1>4. Cardinality(Borrowers') =
           IF pc[r] \in Borrowing THEN Cardinality(Borrowers) - 1 ELSE Cardinality(Borrowers)
    BY <1>1, BorrowersMove DEF Borrowing
  <1>5. permits' = permits + 1
        /\ returning' = IF pc[r] \in Borrowing THEN returning + 1 ELSE returning
    BY DEF EndRead
  <1>6. permits' + Cardinality(Holders') = MaxInFlight
    BY <1>3, <1>5, FiniteReads DEF TypeOK
  <1>7. Cardinality(Borrowers') + returning' <= PoolSize
    BY <1>4, <1>5, FiniteReads DEF TypeOK
  <1>8. QED
    BY <1>2, <1>6, <1>7
    DEF IndInv, PermitConservation, ConnectionsInv, Borrowed, Holders, Borrowers

\* A request that has no permit before and after its step disturbs nothing.
LEMMA OutsideKeeps ==
    ASSUME IndInv, NEW r \in Requests, NEW w \in {"verifying", "status", "done"},
           pc[r] \notin InFlight,
           pc' = [pc EXCEPT ![r] = w],
           outcome' \in [Requests -> Errors \cup {"none", "ok", "cancelled"}],
           Static, UNCHANGED <<permits, returning>>
    PROVE  IndInv'
  <1>1. TypeOK'
    BY DEF IndInv, TypeOK, Static, Awaits
  <1>2. w \in Awaits \cup {"done"} /\ w \notin InFlight /\ w \notin Borrowing
    BY DEF Awaits, InFlight, Borrowing
  <1>3. ~HoldsPermit(r) /\ pc[r] \notin Borrowing
    BY DEF HoldsPermit, InFlight
  <1>4. Cardinality(Holders') = Cardinality(Holders)
    BY <1>2, <1>3, HoldersMove, InvSets
  <1>5. Cardinality(Borrowers') = Cardinality(Borrowers)
    BY <1>2, <1>3, BorrowersMove, InvSets
  <1>6. permits' + Cardinality(Holders') = MaxInFlight
        /\ Cardinality(Borrowers') + returning' <= PoolSize
    BY <1>4, <1>5, InvSets
  <1>7. QED
    BY <1>1, <1>6
    DEF IndInv, PermitConservation, ConnectionsInv, Borrowed, Holders, Borrowers

\* A read that goes on under its permit: it borrows only if the pool has a
\* connection left, and keeps the one it has.
LEMMA InsideKeeps ==
    ASSUME IndInv, NEW r \in Requests, NEW w \in Borrowing,
           HoldsPermit(r),
           pc[r] \in Borrowing \/ Borrowed + returning < PoolSize,
           pc' = [pc EXCEPT ![r] = w],
           Static, UNCHANGED <<outcome, permits, returning>>
    PROVE  IndInv'
  <1>1. TypeOK'
    BY DEF IndInv, TypeOK, Static, Awaits, InFlight
  <1>2. w \in Awaits /\ w \in InFlight
    BY DEF Awaits, InFlight
  <1>3. Cardinality(Holders') = Cardinality(Holders)
    BY <1>2, HoldersMove, InvSets
  <1>4. Cardinality(Borrowers') = IF pc[r] \in Borrowing THEN Cardinality(Borrowers)
                                  ELSE Cardinality(Borrowers) + 1
    BY <1>2, BorrowersMove, InvSets
  <1>5. pc[r] \in Borrowing \/ Cardinality(Borrowers) + returning < PoolSize
    BY DEF Borrowed, Borrowers
  <1>6. permits' + Cardinality(Holders') = MaxInFlight
    BY <1>3, InvSets
  <1>7. Cardinality(Borrowers') + returning' <= PoolSize
    BY <1>4, <1>5, InvSets, FiniteReads DEF TypeOK
  <1>8. QED
    BY <1>1, <1>6, <1>7
    DEF IndInv, PermitConservation, ConnectionsInv, Borrowed, Holders, Borrowers

\* A read that is admitted takes one permit, and no connection yet.
LEMMA AdmitKeeps ==
    ASSUME IndInv, NEW r \in Requests, Admit(r)
    PROVE  IndInv'
  <1>1. PICK w \in {"acquiring", "calling"} : pc' = [pc EXCEPT ![r] = w]
    BY DEF Admit, Await
  <1>2. TypeOK'
    BY <1>1 DEF Admit, Await, Static, IndInv, TypeOK, Awaits, InFlight
  <1>3. w \in Awaits /\ w \in InFlight /\ w \notin Borrowing
    BY DEF Awaits, InFlight, Borrowing
  <1>4. ~HoldsPermit(r) /\ pc[r] \notin Borrowing
    BY DEF Admit, HoldsPermit, InFlight, Borrowing
  <1>5. Cardinality(Holders') = Cardinality(Holders) + 1
    BY <1>1, <1>3, <1>4, HoldersMove, InvSets
  <1>6. Cardinality(Borrowers') = Cardinality(Borrowers)
    BY <1>1, <1>3, <1>4, BorrowersMove, InvSets
  <1>7. permits' = permits - 1 /\ returning' = returning
    BY DEF Admit
  <1>8. permits' + Cardinality(Holders') = MaxInFlight
        /\ Cardinality(Borrowers') + returning' <= PoolSize
    BY <1>5, <1>6, <1>7, InvSets, FiniteReads DEF TypeOK
  <1>9. QED
    BY <1>2, <1>8
    DEF IndInv, PermitConservation, ConnectionsInv, Borrowed, Holders, Borrowers

\* No request has a permit or a connection at the start.
LEMMA IndInit == Init => IndInv
  <1> SUFFICES ASSUME Init PROVE IndInv
    OBVIOUS
  <1>1. TypeOK
    BY DEF Init, TypeOK
  <1>2. Holders = {} /\ Borrowers = {}
    BY DEF Init, Holders, Borrowers, HoldsPermit, InFlight, Borrowing
  <1>3. Cardinality(Holders) = 0 /\ Cardinality(Borrowers) = 0
    BY <1>2, FS_EmptySet
  <1>4. QED
    BY <1>1, <1>3, InvSets DEF Init

\* Every step keeps the invariant.
LEMMA IndNext == IndInv /\ [Next]_vars => IndInv'
  <1> SUFFICES ASSUME IndInv, [Next]_vars PROVE IndInv'
    OBVIOUS
  <1> TypeOK
    BY DEF IndInv
  <1>1. ASSUME NEW r \in Requests,
               \/ Authenticate(r) \/ Refuse(r) \/ Me(r) \/ Status(r) \/ StatusEnds(r)
               \/ RefuseAuthorization(r) \/ Backpressure(r) \/ RefuseMode(r)
        PROVE  IndInv'
    <2>1. pc[r] \notin InFlight /\ Static /\ UNCHANGED <<permits, returning>>
      BY <1>1 DEF Authenticate, Refuse, Me, Status, StatusEnds, RefuseAuthorization,
                  Backpressure, RefuseMode, InFlight, Borrowing
    <2>2. PICK w \in {"verifying", "status", "done"} : pc' = [pc EXCEPT ![r] = w]
      BY <1>1 DEF Authenticate, Refuse, Me, Status, StatusEnds, RefuseAuthorization,
                  Backpressure, RefuseMode, Respond, Await
    <2>3. outcome' \in [Requests -> Errors \cup {"none", "ok", "cancelled"}]
      BY <1>1 DEF Authenticate, Refuse, Me, Status, StatusEnds, RefuseAuthorization,
                  Backpressure, RefuseMode, Respond, Await, TypeOK, Errors
    <2>4. QED
      BY <2>1, <2>2, <2>3, OutsideKeeps
  <1>2. ASSUME NEW r \in Requests, Admit(r) PROVE IndInv'
    BY <1>2, AdmitKeeps
  <1>3. ASSUME NEW r \in Requests, Borrow(r) \/ Begun(r) \/ Rows(r) PROVE IndInv'
    <2>1. PICK w \in Borrowing : pc' = [pc EXCEPT ![r] = w]
      BY <1>3 DEF Borrow, Begun, Rows, Await, Borrowing
    <2>2. HoldsPermit(r) /\ Static /\ UNCHANGED <<outcome, permits, returning>>
      BY <1>3 DEF Borrow, Begun, Rows, Await, HoldsPermit, InFlight, Borrowing
    <2>3. pc[r] \in Borrowing \/ Borrowed + returning < PoolSize
      BY <1>3 DEF Borrow, Begun, Rows, ConnectionLimit, Borrowing
    <2>4. QED
      BY <2>1, <2>2, <2>3, InsideKeeps
  <1>4. ASSUME NEW r \in Requests,
               \/ CallEnds(r) \/ BorrowTimeout(r) \/ QueryTimeout(r)
               \/ Committed(r) \/ DatabaseError(r)
        PROVE  IndInv'
    <2>1. HoldsPermit(r)
      BY <1>4 DEF CallEnds, BorrowTimeout, QueryTimeout, Committed, DatabaseError,
                  HoldsPermit, InFlight, Borrowing
    <2>2. PICK result \in Errors \cup {"ok", "cancelled"} : EndRead(r, result)
      BY <1>4 DEF CallEnds, BorrowTimeout, QueryTimeout, Committed, DatabaseError, Errors
    <2>3. QED
      BY <2>1, <2>2, EndReadKeeps
  <1>5. ASSUME NEW r \in Requests, Cancel(r) PROVE IndInv'
    <2>1. CASE pc[r] \in InFlight /\ EndRead(r, "cancelled")
      BY <2>1, EndReadKeeps DEF HoldsPermit
    <2>2. CASE /\ pc[r] \in {"verifying", "status"} /\ Respond(r, "cancelled")
               /\ Static /\ UNCHANGED <<permits, returning>>
      <3>1. outcome' \in [Requests -> Errors \cup {"none", "ok", "cancelled"}]
        BY <2>2 DEF Respond, TypeOK
      <3>2. pc[r] \notin InFlight
        BY <2>2 DEF InFlight, Borrowing
      <3>3. QED
        BY <2>2, <3>1, <3>2, OutsideKeeps DEF Respond
    <2>3. QED
      BY <1>5, <2>1, <2>2 DEF Cancel
  <1>6. CASE ConnectionFree
    <2>1. TypeOK'
      BY <1>6 DEF ConnectionFree, Static, TypeOK
    <2>2. UNCHANGED <<pc, permits>> /\ returning' = returning - 1 /\ returning > 0
      BY <1>6 DEF ConnectionFree
    <2>3. Holders' = Holders /\ Borrowers' = Borrowers
      BY <2>2 DEF Holders, Borrowers, HoldsPermit
    <2>4. permits' + Cardinality(Holders') = MaxInFlight
          /\ Cardinality(Borrowers') + returning' <= PoolSize
      BY <2>2, <2>3, InvSets, FiniteReads DEF TypeOK
    <2>5. QED
      BY <2>1, <2>4
      DEF IndInv, PermitConservation, ConnectionsInv, Borrowed, Holders, Borrowers
  <1>7. CASE Finished \/ UNCHANGED vars
    BY <1>7 DEF Finished, vars, IndInv, TypeOK, PermitConservation, ConnectionsInv,
                Borrowed, HoldsPermit
  <1>8. QED
    BY <1>1, <1>2, <1>3, <1>4, <1>5, <1>6, <1>7
    DEF Next, RequestNext, WebProgress, DatabaseAnswers

\* Types, permits and connections are right in every reachable state.
THEOREM Inductive == Spec => []IndInv
  BY IndInit, IndNext, PTL DEF Spec

\* No error path, timeout or abandoned handler of TransportGateway::read loses
\* a permit or gives one back twice.
THEOREM PermitConservationHolds == Spec => []PermitConservation
  <1>1. IndInv => PermitConservation
    BY DEF IndInv
  <1>2. QED
    BY Inductive, <1>1, PTL

\* The reads that hang on the database are fewer than the permits, because the
\* pool is smaller than the semaphore.
LEMMA PermitsLeft == IndInv => DatabaseNeverHoldsAllPermits
  <1> SUFFICES ASSUME IndInv, permits = 0,
                      \A r \in Requests : HoldsPermit(r) => pc[r] \in Borrowing
               PROVE  FALSE
    BY DEF DatabaseNeverHoldsAllPermits
  <1>1. Holders \in SUBSET Borrowers
    BY DEF Holders, Borrowers
  <1>2. Cardinality(Holders) <= Cardinality(Borrowers)
    BY <1>1, FiniteReads, FS_Subset
  <1>3. Cardinality(Holders) = MaxInFlight /\ Cardinality(Borrowers) + returning <= PoolSize
    BY InvSets, FiniteReads
  <1>4. QED
    BY <1>2, <1>3, InvSets, FiniteReads DEF TypeOK

\* Direct reads that hang on the database never hold all the permits.
THEOREM DatabaseNeverHoldsAllPermitsHolds == Spec => []DatabaseNeverHoldsAllPermits
  BY Inductive, PermitsLeft, PTL

\* The state of admission and of the direct read keeps its shape.
THEOREM TypeCorrect == Spec => []TypeOK
  <1>1. IndInv => TypeOK
    BY DEF IndInv
  <1>2. QED
    BY Inductive, <1>1, PTL
===============================================================================
