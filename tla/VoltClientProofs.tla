-------------------------- MODULE VoltClientProofs --------------------------
(***************************************************************************)
(* The pool of a client, for any number of connections: the scan of        *)
(* _getConnection, what it evicts, and where each connection is.           *)
(***************************************************************************)
EXTENDS VoltClientProps, FiniteSetTheorems, DataLemmas

Slots == Connections \cup {NoConnection}

\* What the scan needs of the pool.
PoolTyped == connections \in Seq(Slots) /\ connectionCounter \in Nat

-----------------------------------------------------------------------------
(* The scan *)

\* The wrap-around, for an index less than two lengths.
LEMMA WrapAround ==
  ASSUME NEW n \in Nat \ {0}, NEW k \in 0 .. 2 * n - 1
  PROVE  k % n = IF k < n THEN k ELSE k - n
<1>1. CASE k < n
  BY <1>1
<1>2. CASE ~(k < n)
  <2>1. k = 1 * n + (k - n) /\ k - n \in 0 .. n - 1
    BY <1>2
  <2>2. QED BY <1>2, <2>1
<1>3. QED BY <1>1, <1>2

\* Within a round no two steps wrap to the same place.
LEMMA WrapDistinct ==
  ASSUME NEW n \in Nat \ {0}, NEW c \in 0 .. n - 1, NEW k \in 1 .. n, NEW j \in 1 .. n,
         (c + k) % n = (c + j) % n
  PROVE  k = j
<1> DEFINE x == c + k
           y == c + j
<1>1. x \in 0 .. 2 * n - 1 /\ y \in 0 .. 2 * n - 1
  OBVIOUS
<1>2. x % n = IF x < n THEN x ELSE x - n
  <2> HIDE DEF x
  <2>1. QED BY <1>1, WrapAround
<1>3. y % n = IF y < n THEN y ELSE y - n
  <2> HIDE DEF y
  <2>1. QED BY <1>1, WrapAround
<1>4. CASE c + k < n /\ c + j < n
  BY <1>2, <1>3, <1>4
<1>5. CASE c + k < n /\ ~(c + j < n)
  BY <1>2, <1>3, <1>5
<1>6. CASE ~(c + k < n) /\ c + j < n
  BY <1>2, <1>3, <1>6
<1>7. CASE ~(c + k < n) /\ ~(c + j < n)
  BY <1>2, <1>3, <1>7
<1>8. QED BY <1>4, <1>5, <1>6, <1>7

-----------------------------------------------------------------------------
(* The pool stays typed *)

\* The slots examined lie in the pool, and the scan goes once round it.
LEMMA SlotIn ==
  ASSUME PoolTyped, NEW k \in 1 .. Length
  PROVE  Slot(k) \in 0 .. Length - 1 /\ At(k) \in Slots
<1>1. Length \in Nat /\ Length # 0 /\ connectionCounter \in Nat
  BY LenProperties DEF PoolTyped, Length
<1>2. Slot(k) \in 0 .. Length - 1
  <2>1. CASE connectionCounter < Length
    <3>1. connectionCounter + k \in 0 .. 2 * Length - 1
      BY <1>1, <2>1
    <3>2. QED BY <1>1, <2>1, <3>1, WrapAround DEF Slot
  <2>2. CASE ~(connectionCounter < Length)
    BY <1>1, <2>2 DEF Slot
  <2>3. QED BY <2>1, <2>2
<1>3. Slot(k) + 1 \in 1 .. Length
  BY <1>1, <1>2
<1>4. QED BY <1>2, <1>3, ElementOfSeq DEF PoolTyped, Length, At

\* Every slot of the pool is examined by some iteration.
LEMMA SlotReached ==
  ASSUME PoolTyped, NEW i \in 1 .. Length
  PROVE  \E k \in 1 .. Length : At(k) = connections[i]
<1>1. Length \in Nat /\ Length # 0 /\ connectionCounter \in Nat
  BY LenProperties DEF PoolTyped, Length
<1>2. CASE ~(connectionCounter < Length)
  <2>1. Slot(i) + 1 = i
    BY <1>1, <1>2 DEF Slot
  <2>2. QED BY <2>1 DEF At
<1>3. CASE connectionCounter < Length /\ i - 1 > connectionCounter
  <2>1. i - 1 - connectionCounter \in 1 .. Length
    BY <1>1, <1>3
  <2>2. connectionCounter + (i - 1 - connectionCounter) = i - 1 /\ i - 1 \in 0 .. 2 * Length - 1
    BY <1>1, <1>3
  <2>3. (i - 1) % Length = i - 1
    <3>1. i - 1 < Length
      BY <1>1
    <3>2. Length \in Nat \ {0}
      BY <1>1
    <3>3. QED BY <2>2, <3>1, <3>2, WrapAround
  <2>4. Slot(i - 1 - connectionCounter) = i - 1
    BY <1>3, <2>2, <2>3 DEF Slot
  <2>5. i - 1 + 1 = i
    BY <1>1
  <2>6. QED BY <2>1, <2>4, <2>5 DEF At
<1>4. CASE connectionCounter < Length /\ ~(i - 1 > connectionCounter)
  <2>1. i - 1 - connectionCounter + Length \in 1 .. Length
    BY <1>1, <1>4
  <2>2. /\ connectionCounter + (i - 1 - connectionCounter + Length) = i - 1 + Length
        /\ i - 1 + Length \in 0 .. 2 * Length - 1
    BY <1>1, <1>4
  <2>3. (i - 1 + Length) % Length = i - 1
    BY <1>1, <2>2, WrapAround
  <2>4. Slot(i - 1 - connectionCounter + Length) = i - 1
    BY <1>4, <2>2, <2>3 DEF Slot
  <2>5. i - 1 + 1 = i
    BY <1>1
  <2>6. QED BY <2>1, <2>4, <2>5 DEF At
<1>5. QED BY <1>2, <1>3, <1>4

\* The scan ends at the first usable connection, or after a round.
LEMMA ExaminedIn ==
  ASSUME PoolTyped, Length # 0
  PROVE  /\ Examined \in 1 .. Length
         /\ (\E k \in 1 .. Length : Usable(At(k))) => Usable(At(Examined))
<1>1. Length \in Nat
  BY LenProperties DEF PoolTyped, Length
<1> DEFINE Hits == {k \in 1 .. Length : Usable(At(k))}
<1>2. CASE Hits = {}
  BY <1>1, <1>2 DEF Examined
<1>3. CASE Hits # {}
  <2>1. Hits \in SUBSET Nat
    BY <1>1
  <2>2. (CHOOSE k \in Hits : \A j \in Hits : k <= j) \in Hits
    <3> HIDE DEF Hits
    <3>1. QED BY <1>3, <2>1, LeastChosen
  <2>3. Examined = (CHOOSE k \in Hits : \A j \in Hits : k <= j)
    BY <1>3 DEF Examined
  <2>4. Examined \in Hits
    BY <2>2, <2>3
  <2>5. QED BY <2>4
<1>4. QED BY <1>2, <1>3

\* connect fills the slots.
LEMMA ConnectAllTyped ==
  ASSUME PoolTyped, ConnectAll
  PROVE  PoolTyped'
<1>1. Cardinality(Connections) \in Nat
  BY ClientConstantsOK, FS_CardinalityType
<1>2. connections' \in [1 .. Cardinality(Connections) -> Connections]
  BY DEF ConnectAll, SetToSeqs
<1>3. connections' \in Seq(Slots)
  <2>1. connections' \in [1 .. Cardinality(Connections) -> Slots]
    BY <1>2 DEF Slots
  <2>2. QED BY <1>1, <2>1, SeqDef
<1>4. QED BY <1>3 DEF ConnectAll, PoolTyped

-----------------------------------------------------------------------------
(* Each connection stays in one place *)

\* No iteration of the scan comes back to a slot.
LEMMA SlotsDistinct ==
  ASSUME PoolTyped, NEW k \in 1 .. Length, NEW j \in 1 .. Length, Slot(k) = Slot(j)
  PROVE  k = j
<1>1. Length \in Nat \ {0} /\ connectionCounter \in Nat
  BY LenProperties DEF PoolTyped, Length
<1>2. CASE connectionCounter < Length
  <2>1. (connectionCounter + k) % Length = (connectionCounter + j) % Length
    BY <1>2 DEF Slot
  <2>2. connectionCounter \in 0 .. Length - 1
    BY <1>1, <1>2
  <2>3. QED BY <1>1, <2>1, <2>2, WrapDistinct
<1>3. CASE ~(connectionCounter < Length)
  BY <1>1, <1>3 DEF Slot
<1>4. QED BY <1>2, <1>3

\* Where c is in a pool.
Places(c, s) == {i \in 1 .. Len(s) : s[i] = c}

\* The places of a connection among the slots can be counted.
LEMMA HeldType ==
  ASSUME NEW s \in Seq(Slots), NEW c
  PROVE  /\ IsFiniteSet(Places(c, s))
         /\ Held(c, s) = Cardinality(Places(c, s))
         /\ Held(c, s) \in Nat
<1>1. Len(s) \in Nat
  BY LenProperties
<1>2. IsFiniteSet(1 .. Len(s))
  BY <1>1, FS_Interval
<1>3. Places(c, s) \in SUBSET (1 .. Len(s))
  BY DEF Places
<1>4. IsFiniteSet(Places(c, s))
  BY <1>2, <1>3, FS_Subset
<1>5. Held(c, s) = Cardinality(Places(c, s))
  BY DEF Held, Places
<1>6. QED BY <1>4, <1>5, FS_CardinalityType

\* Held in no slot.
LEMMA HeldNowhere ==
  ASSUME NEW s \in Seq(Slots), NEW c
  PROVE  Held(c, s) = 0 <=> \A i \in 1 .. Len(s) : s[i] # c
<1>1. IsFiniteSet(Places(c, s)) /\ Held(c, s) = Cardinality(Places(c, s))
  BY HeldType
<1>2. Held(c, s) = 0 <=> Places(c, s) = {}
  BY <1>1, FS_EmptySet
<1>3. QED BY <1>2 DEF Places

\* Held in one slot only.
LEMMA HeldOnce ==
  ASSUME NEW s \in Seq(Slots), NEW c, NEW i \in 1 .. Len(s), s[i] = c
  PROVE  Held(c, s) = 1 <=> \A j \in 1 .. Len(s) : s[j] = c => j = i
<1>1. i \in Places(c, s)
  BY DEF Places
<1>2. Held(c, s) = 1 <=> \E x : Places(c, s) = {x}
  BY HeldType, FS_Singleton
<1>3. (\E x : Places(c, s) = {x}) <=> \A j \in Places(c, s) : j = i
  BY <1>1
<1>4. QED BY <1>2, <1>3 DEF Places

\* The iterations that evict are iterations of the scan.
LEMMA EvictionsIn ==
  ASSUME PoolTyped
  PROVE  Evictions \subseteq 1 .. Length
<1>1. Length \in Nat
  BY LenProperties DEF PoolTyped, Length
<1>2. CASE Length = 0
  <2>1. 1 .. Length = {}
    BY <1>2
  <2>2. Examined = 0
    BY <1>2, <2>1 DEF Examined
  <2>3. QED BY <2>2 DEF Evictions
<1>3. CASE Length # 0
  <2>1. Examined \in 1 .. Length
    BY <1>3, ExaminedIn
  <2>2. 1 .. Examined \subseteq 1 .. Length
    BY <1>1, <2>1
  <2>3. QED BY <2>2 DEF Evictions
<1>4. QED BY <1>2, <1>3

\* The pool keeps its length, and a slot either its connection or nothing.
LEMMA EvictedSlots ==
  ASSUME PoolTyped, Evict
  PROVE  /\ connections' \in Seq(Slots)
         /\ Len(connections') = Len(connections)
         /\ \A i \in 1 .. Length :
              connections'[i] = IF i \in {Slot(k) + 1 : k \in Evictions}
                                  THEN NoConnection ELSE connections[i]
<1>1. Length \in Nat
  BY LenProperties DEF PoolTyped, Length
<1>2. \A i \in 1 .. Length : connections[i] \in Slots
  BY ElementOfSeq DEF PoolTyped, Length
<1> DEFINE B == {Slot(k) + 1 : k \in Evictions}
<1>3. connections' = [i \in 1 .. Length |-> IF i \in B THEN NoConnection ELSE connections[i]]
  BY DEF Evict
<1> HIDE DEF B
<1>4. connections' \in [1 .. Length -> Slots]
  BY <1>2, <1>3 DEF Slots
<1>5. connections' \in Seq(Slots)
  BY <1>1, <1>4, SeqDef
<1>6. DOMAIN connections' = 1 .. Length
  BY <1>4
<1>7. Len(connections') = Length
  BY <1>1, <1>5, <1>6, LenProperties
<1>8. \A i \in 1 .. Length : connections'[i] = IF i \in B THEN NoConnection ELSE connections[i]
  BY <1>3
<1>9. QED BY <1>5, <1>7, <1>8 DEF Length, B

\* A connection that no iteration evicts stays where it is.
LEMMA EvictSpares ==
  ASSUME PoolTyped, Evict, NEW c \in Connections, badConnections[c] \in Nat,
         \A k \in Evictions : At(k) # c
  PROVE  /\ Held(c, connections') = Held(c, connections)
         /\ badConnections'[c] = badConnections[c]
<1>1. c # NoConnection
  BY ClientConstantsOK
<1>2. \A i \in 1 .. Len(connections) : connections'[i] = c <=> connections[i] = c
  <2> SUFFICES ASSUME NEW i \in 1 .. Len(connections)
               PROVE  connections'[i] = c <=> connections[i] = c
    OBVIOUS
  <2>1. connections[i] = c => i \notin {Slot(k) + 1 : k \in Evictions}
    BY DEF At
  <2>2. QED BY <1>1, <2>1, EvictedSlots DEF Length
<1>3. Held(c, connections') = Held(c, connections)
  BY <1>2, EvictedSlots DEF Held
<1>4. {k \in Evictions : At(k) = c} = {}
  OBVIOUS
<1>5. badConnections'[c] = badConnections[c] + Cardinality({k \in Evictions : At(k) = c})
  BY DEF Evict, PutAside
<1>6. Cardinality({k \in Evictions : At(k) = c}) = 0
  BY <1>4, FS_EmptySet
<1>7. QED BY <1>3, <1>5, <1>6

\* One that an iteration evicts goes from its one slot to badConnections, once.
LEMMA EvictMoves ==
  ASSUME PoolTyped, Evict, NEW c \in Connections, badConnections[c] \in Nat,
         NEW k \in Evictions, At(k) = c, Held(c, connections) = 1
  PROVE  /\ Held(c, connections') = 0
         /\ badConnections'[c] = badConnections[c] + 1
<1>1. c # NoConnection /\ k \in 1 .. Length
  BY ClientConstantsOK, EvictionsIn
<1>2. Slot(k) + 1 \in 1 .. Length /\ connections[Slot(k) + 1] = c
  <2>1. Length \in Nat /\ Slot(k) \in 0 .. Length - 1
    BY <1>1, SlotIn, LenProperties DEF PoolTyped, Length
  <2>2. QED BY <2>1 DEF At
<1>3. \A i \in 1 .. Length : connections[i] = c => i = Slot(k) + 1
  BY <1>2, HeldOnce DEF PoolTyped, Length
<1>4. \A i \in 1 .. Length : connections'[i] # c
  BY <1>1, <1>3, EvictedSlots
<1>5. Held(c, connections') = 0
  BY <1>4, EvictedSlots, HeldNowhere DEF Length
<1>6. \A j \in Evictions : At(j) = c => j = k
  <2> SUFFICES ASSUME NEW j \in Evictions, At(j) = c PROVE j = k
    OBVIOUS
  <2>1. j \in 1 .. Length
    BY EvictionsIn
  <2>2. Length \in Nat /\ Slot(j) \in 0 .. Length - 1 /\ Slot(k) \in 0 .. Length - 1
    BY <1>1, <2>1, SlotIn, LenProperties DEF PoolTyped, Length
  <2>3. Slot(j) + 1 = Slot(k) + 1
    BY <1>3, <2>2 DEF At
  <2>4. Slot(j) = Slot(k)
    BY <2>2, <2>3
  <2>5. QED BY <1>1, <2>1, <2>4, SlotsDistinct
<1>7. {j \in Evictions : At(j) = c} = {k}
  BY <1>6
<1>8. Cardinality({j \in Evictions : At(j) = c}) = 1
  BY <1>7, FS_Singleton
<1>9. badConnections'[c] = badConnections[c] + Cardinality({j \in Evictions : At(j) = c})
  BY DEF Evict, PutAside
<1>10. QED BY <1>5, <1>8, <1>9

-----------------------------------------------------------------------------
(* The invariant *)

\* The parts of the invariant that are types.
LEMMA InvTyped ==
  ASSUME PoolInv
  PROVE  /\ PoolTyped
         /\ Length \in Nat
         /\ \A c \in Connections : badConnections[c] \in Nat /\ Held(c, connections) \in Nat
<1>1. PoolTyped
  BY DEF PoolInv, ClientTypeOK, PoolTyped, Slots
<1>2. \A c \in Connections : badConnections[c] \in Nat
  BY DEF PoolInv, ClientTypeOK
<1>3. \A c \in Connections : Held(c, connections) \in Nat
  BY <1>1, HeldType DEF PoolTyped
<1>4. QED BY <1>1, <1>2, <1>3, LenProperties DEF PoolTyped, Length

\* connect() gives every connection one slot: as many distinct connections as there
\* are, so that none is left out.
LEMMA ConnectAllKeeps ==
  ASSUME PoolInv, ConnectAll
  PROVE  PoolInv'
<1> DEFINE N == Cardinality(Connections)
<1>1. N \in Nat /\ IsFiniteSet(1 .. N) /\ Cardinality(1 .. N) = N
  BY ClientConstantsOK, FS_CardinalityType, FS_Interval
<1>2. /\ connections' \in [1 .. N -> Connections]
      /\ \A i, j \in 1 .. N : i # j => connections'[i] # connections'[j]
  BY DEF ConnectAll, SetToSeqs
<1>3. connections' \in Injection(1 .. N, Connections)
  BY <1>2 DEF Injection, IsInjective
<1>4. connections' \in Surjection(1 .. N, Connections)
  BY <1>1, <1>3, ClientConstantsOK, FS_Injection
<1>5. connections' \in Seq(Slots) /\ connections' \in Seq(Connections)
  BY <1>1, <1>2, InvTyped, ConnectAllTyped, SeqDef DEF PoolTyped
<1>6. Len(connections') = N
  <2>1. DOMAIN connections' = 1 .. N
    BY <1>2
  <2>2. QED BY <1>1, <1>5, <2>1, LenProperties
<1>7. \A c \in Connections : Held(c, connections') = 1
  <2> SUFFICES ASSUME NEW c \in Connections PROVE Held(c, connections') = 1
    OBVIOUS
  <2>1. PICK i \in 1 .. N : connections'[i] = c
    BY <1>4 DEF Surjection
  <2>2. \A j \in 1 .. N : connections'[j] = c => j = i
    BY <1>2, <2>1
  <2>3. QED BY <1>5, <1>6, <2>1, <2>2, HeldOnce
<1>8. \A c \in Connections : badConnections[c] = 0 /\ ~closed[c]
  BY DEF ConnectAll, PoolInv
<1>9. UNCHANGED <<badConnections, connectionCounter, valid, blocked, closed, target, event, exit>>
  BY DEF ConnectAll, connVars
<1>10. ClientTypeOK'
  BY <1>5, <1>9 DEF PoolInv, ClientTypeOK, Slots
<1>11. InOnePlace'
  <2>1. \A c \in Connections : Held(c, connections') + badConnections'[c] = IF closed'[c] THEN 0 ELSE 1
    BY <1>7, <1>8, <1>9
  <2>2. QED BY <2>1 DEF InOnePlace, Held
<1>12. (Len(connections) <= Cardinality(Connections))'
  BY <1>1, <1>6
<1>13. QED BY <1>8, <1>9, <1>10, <1>11, <1>12 DEF PoolInv

\* A scan only moves connections from slots to badConnections.
LEMMA GetConnectionKeeps ==
  ASSUME PoolInv, GetConnection, closed' = closed, exit' = exit
  PROVE  /\ connections' \in Seq(Slots)
         /\ badConnections' \in [Connections -> Nat]
         /\ connectionCounter' \in Nat
         /\ connectionCounter' = 0 \/ connectionCounter' < Cardinality(Connections)
         /\ Len(connections') <= Cardinality(Connections)
         /\ connections' = <<>> /\ exit' = "none" =>
              \A c \in Connections : badConnections'[c] = 0 /\ ~closed'[c]
         /\ InOnePlace'
<1>1. PoolTyped /\ Length \in Nat /\ Evict /\ Cardinality(Connections) \in Nat
  BY InvTyped, ClientConstantsOK, FS_CardinalityType DEF GetConnection
<1>2. connections' \in Seq(Slots) /\ Len(connections') = Length
  BY <1>1, EvictedSlots DEF Length
<1>3. badConnections' \in [Connections -> Nat]
  <2>1. IsFiniteSet(1 .. Length)
    BY <1>1, FS_Interval
  <2>2. \A c \in Connections : Cardinality({k \in Evictions : At(k) = c}) \in Nat
    <3> SUFFICES ASSUME NEW c \in Connections
                 PROVE  Cardinality({k \in Evictions : At(k) = c}) \in Nat
      OBVIOUS
    <3>1. {k \in Evictions : At(k) = c} \in SUBSET (1 .. Length)
      BY <1>1, EvictionsIn
    <3>2. QED BY <2>1, <3>1, FS_Subset, FS_CardinalityType
  <2>3. \A c \in Connections :
          badConnections[c] + Cardinality({k \in Evictions : At(k) = c}) \in Nat
    BY <2>2, InvTyped
  <2>4. QED BY <1>1, <2>3 DEF Evict, PutAside
<1>4. /\ connectionCounter' \in Nat
      /\ connectionCounter' = 0 \/ connectionCounter' < Cardinality(Connections)
  <2>1. CASE Length = 0
    BY <2>1 DEF GetConnection, PoolInv, ClientTypeOK
  <2>2. CASE Length # 0
    <3>1. connectionCounter' = Slot(Examined) /\ Slot(Examined) \in 0 .. Length - 1
      BY <1>1, <2>2, ExaminedIn, SlotIn DEF GetConnection
    <3>2. Length <= Cardinality(Connections)
      BY DEF PoolInv, Length
    <3>3. QED BY <1>1, <3>1, <3>2
  <2>3. QED BY <2>1, <2>2
<1>5. connections' = <<>> => connections = <<>>
  BY <1>1, <1>2, EmptySeq DEF PoolTyped, Length
<1>6. \A c \in Connections : Evictions = {} => badConnections'[c] = badConnections[c]
  <2> SUFFICES ASSUME NEW c \in Connections, Evictions = {}
               PROVE  badConnections'[c] = badConnections[c]
    OBVIOUS
  <2>1. QED BY <1>1, InvTyped, EvictSpares
<1>7. connections' = <<>> /\ exit' = "none" =>
        \A c \in Connections : badConnections'[c] = 0 /\ ~closed'[c]
  <2>1. ASSUME connections = <<>> PROVE Evictions = {}
    <3>1. Length = 0
      BY <2>1, EmptySeq DEF Length
    <3>2. 1 .. Length = {}
      BY <3>1
    <3>3. QED BY <1>1, <3>2, EvictionsIn
  <2>2. QED BY <1>5, <1>6, <2>1 DEF PoolInv
<1>8. InOnePlace'
  <2> SUFFICES ASSUME connections' # <<>> \/ exit' # "none", NEW c \in Connections
               PROVE  Held(c, connections') + badConnections'[c] = IF closed'[c] THEN 0 ELSE 1
    BY DEF InOnePlace, Held
  <2>1. connections # <<>> \/ exit # "none"
    <3>1. ASSUME connections = <<>> PROVE connections' = <<>>
      <4>1. Len(connections') = 0
        BY <1>2, <3>1, EmptySeq DEF Length
      <4>2. QED BY <1>2, <4>1, EmptySeq
    <3>2. QED BY <3>1
  <2>2. Held(c, connections) + badConnections[c] = IF closed[c] THEN 0 ELSE 1
    BY <2>1 DEF PoolInv, InOnePlace
  <2>3. badConnections[c] \in Nat /\ Held(c, connections) \in Nat
    BY InvTyped
  <2>4. CASE \A k \in Evictions : At(k) # c
    BY <1>1, <2>2, <2>3, <2>4, EvictSpares
  <2>5. CASE \E k \in Evictions : At(k) = c
    <3>1. PICK k \in Evictions : At(k) = c
      BY <2>5
    <3>2. Slot(k) + 1 \in 1 .. Length /\ connections[Slot(k) + 1] = c
      <4>1. k \in 1 .. Length
        BY <1>1, EvictionsIn
      <4>2. Slot(k) \in 0 .. Length - 1
        BY <1>1, <4>1, SlotIn
      <4>3. QED BY <1>1, <3>1, <4>2 DEF At
    <3>3. Held(c, connections) # 0
      BY <1>1, <3>2, HeldNowhere DEF PoolTyped, Length
    <3>4. Held(c, connections) = 1 /\ badConnections[c] = 0 /\ ~closed[c]
      BY <2>2, <2>3, <3>3
    <3>5. Held(c, connections') = 0 /\ badConnections'[c] = badConnections[c] + 1
      BY <1>1, <2>3, <3>1, <3>4, EvictMoves
    <3>6. QED BY <3>4, <3>5
  <2>6. QED BY <2>4, <2>5
<1>9. QED BY <1>2, <1>3, <1>4, <1>7, <1>8, InvTyped DEF PoolInv, Length

\* A call evicts from the slots what it puts aside.
LEMMA CallProcedureKeeps ==
  ASSUME PoolInv, CallProcedure
  PROVE  PoolInv'
<1>1. /\ valid' \in [Connections -> BOOLEAN] /\ blocked' \in [Connections -> BOOLEAN]
      /\ closed' = closed
      /\ target' \in Slots /\ event' \in {"none", "noConnection", "invalidConnection"}
  <2>1. CASE CallNothing
    BY <2>1 DEF CallNothing, connVars, PoolInv, ClientTypeOK, Slots
  <2>2. CASE \E c \in Connections : CallConnection(c)
    <3>1. PICK c \in Connections : CallConnection(c)
      BY <2>2
    <3>2. PICK v \in BOOLEAN, b \in BOOLEAN, k \in BOOLEAN :
            /\ valid' = [valid EXCEPT ![c] = v]
            /\ blocked' = [blocked EXCEPT ![c] = b]
            /\ closed' = [closed EXCEPT ![c] = k]
      BY <3>1 DEF CallConnection, Moves
    <3>3. closed'[c] = closed[c]
      BY <3>1 DEF CallConnection, Conn!Accept, Conn!Refuse
    <3>4. closed' = closed
      BY <3>2, <3>3 DEF PoolInv, ClientTypeOK
    <3>5. valid' \in [Connections -> BOOLEAN] /\ blocked' \in [Connections -> BOOLEAN]
      BY <3>2 DEF PoolInv, ClientTypeOK
    <3>6. QED BY <3>1, <3>4, <3>5 DEF CallConnection, Slots
  <2>3. QED BY <2>1, <2>2 DEF CallProcedure
<1>2. exit' = exit /\ GetConnection
  BY DEF CallProcedure
<1>3. ClientTypeOK'
  BY <1>1, <1>2, GetConnectionKeeps DEF PoolInv, ClientTypeOK, Slots
<1>4. QED BY <1>1, <1>2, <1>3, GetConnectionKeeps DEF PoolInv

\* exit() removes the slots it closes, and no others.
LEMMA ExitKeeps ==
  ASSUME PoolInv, Exit
  PROVE  PoolInv'
<1> DEFINE Emptied == {i \in 1 .. Length : connections[i] = NoConnection}
           First   == CHOOSE i \in Emptied : \A j \in Emptied : i <= j
           n       == IF Emptied = {} THEN Length ELSE First - 1
<1>1. PoolTyped /\ Length \in Nat
  BY InvTyped
<1>2. n \in 0 .. Length
  <2>1. CASE Emptied = {}
    BY <1>1, <2>1
  <2>2. CASE Emptied # {}
    <3>1. Emptied \in SUBSET Nat /\ Emptied \subseteq 1 .. Length
      BY <1>1
    <3>2. First \in Emptied
      <4> HIDE DEF Emptied
      <4>1. QED BY <2>2, <3>1, LeastChosen
    <3>3. First \in 1 .. Length
      BY <3>1, <3>2
    <3>4. QED BY <1>1, <2>2, <3>3
  <2>3. QED BY <2>1, <2>2
<1>3. /\ connections' = SubSeq(connections, n + 1, Length)
      /\ closed' = [c \in Connections |-> closed[c] \/ c \in ToSet(SubSeq(connections, 1, n))]
      /\ connections # <<>> /\ exit' \in {"done", "threw"}
      /\ UNCHANGED <<badConnections, connectionCounter, valid, blocked, target, event>>
  BY DEF Exit
<1> HIDE DEF n
<1>4. \A i \in 1 .. Length : connections[i] \in Slots
  BY <1>1, ElementOfSeq DEF PoolTyped, Length
<1>5. /\ connections' \in Seq(Slots) /\ Len(connections') = Length - n
      /\ \A i \in 1 .. Length - n : connections'[i] = connections[i + n]
  <2>1. \A i \in n + 1 .. Length : connections[i] \in Slots
    BY <1>1, <1>2, <1>4
  <2>2. n + 1 \in Int /\ Length \in Int
    BY <1>1, <1>2
  <2>3. connections' \in Seq(Slots)
    BY <1>3, <2>1, <2>2, SubSeqProperties
  <2>4. Len(connections') = IF n + 1 <= Length THEN Length - (n + 1) + 1 ELSE 0
    BY <1>3, <2>1, <2>2, SubSeqProperties
  <2>5. Len(connections') = Length - n
    BY <1>1, <1>2, <2>4
  <2>6. \A i \in 1 .. Length - (n + 1) + 1 : connections'[i] = connections[n + 1 + i - 1]
    BY <1>3, <2>1, <2>2, SubSeqProperties
  <2>7. \A i \in 1 .. Length - n : connections'[i] = connections[i + n]
    BY <1>1, <1>2, <2>6
  <2>8. QED BY <2>3, <2>5, <2>7
<1>6. \A c : c \in ToSet(SubSeq(connections, 1, n)) <=> \E i \in 1 .. n : connections[i] = c
  <2>1. \A i \in 1 .. n : connections[i] \in Slots
    BY <1>1, <1>2, <1>4
  <2>2. n \in Nat /\ 1 \in Int
    BY <1>1, <1>2
  <2>3. SubSeq(connections, 1, n) = [i \in 1 .. n |-> connections[1 + i - 1]]
    <3>1. SubSeq(connections, 1, n) = [i \in 1 .. n - 1 + 1 |-> connections[1 + i - 1]]
      BY <2>1, <2>2, SubSeqProperties
    <3>2. n - 1 + 1 = n
      BY <2>2
    <3>3. QED BY <3>1, <3>2
  <2>4. \A i \in 1 .. n : 1 + i - 1 = i
    BY <2>2
  <2>5. SubSeq(connections, 1, n) = [i \in 1 .. n |-> connections[i]]
    BY <2>3, <2>4
  <2>6. QED BY <2>5 DEF ToSet
<1>7. ClientTypeOK'
  <2>1. closed' \in [Connections -> BOOLEAN]
    BY <1>3
  <2>2. QED BY <1>3, <1>5, <2>1 DEF PoolInv, ClientTypeOK, Slots
<1>8. (Len(connections) <= Cardinality(Connections))'
  <2>1. Length <= Cardinality(Connections) /\ Cardinality(Connections) \in Nat
    BY ClientConstantsOK, FS_CardinalityType DEF PoolInv, Length
  <2>2. QED BY <1>1, <1>2, <1>5, <2>1
<1>9. InOnePlace'
  <2> SUFFICES ASSUME NEW c \in Connections
               PROVE  Held(c, connections') + badConnections'[c] = IF closed'[c] THEN 0 ELSE 1
    BY DEF InOnePlace, Held
  <2>1. Held(c, connections) + badConnections[c] = IF closed[c] THEN 0 ELSE 1
    BY <1>3 DEF PoolInv, InOnePlace
  <2>2. badConnections[c] \in Nat /\ Held(c, connections) \in Nat
    BY InvTyped
  <2>3. closed'[c] <=> closed[c] \/ \E i \in 1 .. n : connections[i] = c
    BY <1>3, <1>6
  <2>4. CASE Held(c, connections) = 0
    <3>1. \A i \in 1 .. Length : connections[i] # c
      BY <1>1, <2>4, HeldNowhere DEF PoolTyped, Length
    <3>2. \A i \in 1 .. Length - n : i + n \in 1 .. Length
      BY <1>1, <1>2
    <3>3. Held(c, connections') = 0
      BY <1>5, <3>1, <3>2, HeldNowhere
    <3>4. 1 .. n \subseteq 1 .. Length
      BY <1>1, <1>2
    <3>5. closed'[c] <=> closed[c]
      BY <2>3, <3>1, <3>4
    <3>6. QED BY <1>3, <2>1, <2>4, <3>3, <3>5
  <2>5. CASE Held(c, connections) # 0
    <3>1. PICK i \in 1 .. Length : connections[i] = c
      BY <1>1, <2>5, HeldNowhere DEF PoolTyped, Length
    <3>2. Held(c, connections) = 1 /\ badConnections[c] = 0 /\ ~closed[c]
      BY <2>1, <2>2, <2>5
    <3>3. \A j \in 1 .. Length : connections[j] = c => j = i
      BY <1>1, <3>1, <3>2, HeldOnce DEF PoolTyped, Length
    <3>4. CASE i <= n
      <4>1. i \in 1 .. n
        BY <1>1, <1>2, <3>4
      <4>2. closed'[c]
        BY <2>3, <3>1, <4>1
      <4>3. \A j \in 1 .. Length - n : connections'[j] # c
        <5>1. \A j \in 1 .. Length - n : j + n \in 1 .. Length /\ j + n # i
          BY <1>1, <1>2, <3>4
        <5>2. QED BY <1>5, <3>3, <5>1
      <4>4. Held(c, connections') = 0
        BY <1>5, <4>3, HeldNowhere
      <4>5. QED BY <1>3, <3>2, <4>2, <4>4
    <3>5. CASE ~(i <= n)
      <4>1. \A j \in 1 .. n : j \in 1 .. Length /\ j # i
        BY <1>1, <1>2, <3>5
      <4>2. ~closed'[c]
        BY <2>3, <3>2, <3>3, <4>1
      <4>3. i - n \in 1 .. Length - n /\ i - n + n = i
        BY <1>1, <1>2, <3>5
      <4>4. connections'[i - n] = c
        BY <1>5, <3>1, <4>3
      <4>5. \A j \in 1 .. Length - n : connections'[j] = c => j = i - n
        <5>1. \A j \in 1 .. Length - n : j + n \in 1 .. Length /\ (j + n = i => j = i - n)
          BY <1>1, <1>2
        <5>2. QED BY <1>5, <3>3, <5>1
      <4>6. Held(c, connections') = 1
        BY <1>5, <4>3, <4>4, <4>5, HeldOnce
      <4>7. QED BY <1>3, <3>2, <4>2, <4>6
    <3>6. QED BY <3>4, <3>5
  <2>6. QED BY <2>4, <2>5
<1>10. QED BY <1>3, <1>7, <1>8, <1>9 DEF PoolInv

\* A connection's own step moves no connection.
LEMMA ConnectionStepKeeps ==
  ASSUME PoolInv, NEW c \in Connections, ConnectionStep(c)
  PROVE  PoolInv'
<1>1. PICK v \in BOOLEAN, b \in BOOLEAN, k \in BOOLEAN :
        /\ valid' = [valid EXCEPT ![c] = v]
        /\ blocked' = [blocked EXCEPT ![c] = b]
        /\ closed' = [closed EXCEPT ![c] = k]
  BY DEF ConnectionStep, Moves
<1>2. closed'[c] = closed[c]
  BY DEF ConnectionStep, Conn!Connected, Conn!LoggedIn, Conn!Unblocked
<1>3. closed' = closed
  BY <1>1, <1>2 DEF PoolInv, ClientTypeOK
<1>4. valid' \in [Connections -> BOOLEAN] /\ blocked' \in [Connections -> BOOLEAN]
  BY <1>1 DEF PoolInv, ClientTypeOK
<1>5. UNCHANGED <<connections, badConnections, connectionCounter, target, event, exit>>
  BY DEF ConnectionStep, poolVars
<1>6. ClientTypeOK'
  BY <1>3, <1>4, <1>5 DEF PoolInv, ClientTypeOK
<1>7. InOnePlace'
  BY <1>3, <1>5 DEF PoolInv, InOnePlace, Held
<1>8. QED BY <1>3, <1>5, <1>6, <1>7 DEF PoolInv

\* The invariant of the pool, by induction over its steps.
THEOREM PoolInvariant == ClientSpec => []PoolInv
<1>1. ASSUME ClientInit PROVE PoolInv
  <2>1. ClientTypeOK
    BY <1>1, EmptySeq DEF ClientInit, ClientTypeOK
  <2>2. connections = <<>> /\ exit = "none" /\ Len(connections) = 0
    BY <1>1, EmptySeq DEF ClientInit
  <2>3. Cardinality(Connections) \in Nat
    BY ClientConstantsOK, FS_CardinalityType
  <2>4. \A c \in Connections : badConnections[c] = 0 /\ ~closed[c]
    BY <1>1 DEF ClientInit
  <2>5. QED BY <2>1, <2>2, <2>3, <2>4 DEF PoolInv, InOnePlace
<1>2. PoolInv /\ [ClientNext]_cvars => PoolInv'
  <2> SUFFICES ASSUME PoolInv, [ClientNext]_cvars PROVE PoolInv'
    OBVIOUS
  <2>1. CASE ConnectAll
    BY <2>1, ConnectAllKeeps
  <2>2. CASE CallProcedure
    BY <2>2, CallProcedureKeeps
  <2>3. CASE Exit
    BY <2>3, ExitKeeps
  <2>4. CASE \E c \in Connections : ConnectionStep(c)
    BY <2>4, ConnectionStepKeeps
  <2>5. CASE UNCHANGED cvars
    BY <2>5 DEF cvars, poolVars, connVars, PoolInv, ClientTypeOK, InOnePlace, Held
  <2>6. QED BY <2>1, <2>2, <2>3, <2>4, <2>5 DEF ClientNext
<1>3. QED BY <1>1, <1>2, PTL DEF ClientSpec

\* Type correctness of the pool, the counter within the connections included.
THEOREM ClientTypeCorrect == ClientSpec => []ClientTypeOK
<1>1. PoolInv => ClientTypeOK
  BY DEF PoolInv
<1>2. QED BY <1>1, PoolInvariant, PTL

\* Whatever the scans evict and exit() closes, each connection is in one slot, or
\* once on the bad list, or closed.
THEOREM EachInOnePlace == ClientSpec => []InOnePlace
<1>1. PoolInv => InOnePlace
  BY DEF PoolInv
<1>2. QED BY <1>1, PoolInvariant, PTL

-----------------------------------------------------------------------------
(* Calls *)

\* With a usable connection in the pool a call goes to a usable one, for any number
\* of connections and wherever the counter stands: in a round of the slots the loop
\* of _getConnection meets each, and it stops at the first that serves.
THEOREM UsableReached == ClientSpec => CallReachesUsable
<1>1. ASSUME PoolTyped, CallProcedure, NEW c \in ToSet(connections), Serves(c)
      PROVE  Serves(target')
  <2>1. PICK i \in 1 .. Length : connections[i] = c
    BY <1>1, LenProperties DEF ToSet, PoolTyped, Length
  <2>2. PICK k \in 1 .. Length : At(k) = c
    BY <1>1, <2>1, SlotReached
  <2>3. Length # 0
    BY <2>2, <1>1, LenProperties DEF PoolTyped, Length
  <2>4. Usable(c)
    BY <1>1, ClientConstantsOK DEF Serves, Usable
  <2>5. Usable(At(Examined)) /\ At(Examined) \in Slots
    BY <1>1, <2>2, <2>3, <2>4, ExaminedIn, SlotIn
  <2>6. Found = At(Examined) /\ Found # NoConnection
    BY <2>3, <2>5 DEF Found, Usable
  <2>7. target' = Found
    BY <1>1, <2>6 DEF CallProcedure, CallNothing, CallConnection
  <2>8. QED BY <2>5, <2>6, <2>7 DEF Usable, Serves, Slots
<1>2. PoolTyped => (CallProcedure /\ (\E c \in ToSet(connections) : Serves(c)) => Serves(target'))
  BY <1>1
<1>3. PoolTyped =>
        [CallProcedure /\ (\E c \in ToSet(connections) : Serves(c)) => Serves(target')]_cvars
  BY <1>2
<1>4. PoolInv => PoolTyped
  BY InvTyped
<1>5. QED BY <1>3, <1>4, PoolInvariant, PTL DEF CallReachesUsable
=============================================================================
