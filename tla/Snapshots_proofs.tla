---------------------------- MODULE Snapshots_proofs ----------------------------
(***************************************************************************)
(* The safety of the snapshots of a room, for any number of edits, checks  *)
(* and joiners, any resolution of the stored time and any bound on the     *)
(* failures.                                                               *)
(***************************************************************************)
EXTENDS Snapshots, TLAPS

USE ProcessesAssumption, TimeAssumption, FaultsAssumption

\* Every deletion of the keys is one of the counted faults.
LivesCounted == life <= faults

\* While a check goes from the board to the version, and from there to the database, what
\* it holds shows nothing newer than the version it will carry.  In a new life of the keys
\* the versions start over, and what was read before says nothing about them.
Behind(b, v) == \A a \in Actions : b[a] <= v
HeldIsBehind(k) ==
    /\ held[k].boardLife <= life
    /\ pc[k] = "second" /\ held[k].boardLife = life => Behind(held[k].board, version)
    /\ pc[k] \in {"create", "save"} /\ Whole(held[k]) => Behind(held[k].board, held[k].version)
VersionsInv ==
    /\ Behind(board, version)
    /\ \A k \in Checks : HeldIsBehind(k)
    /\ NothingNewer

\* Whoever is about to fill the cache holds a saved snapshot, and keeps it; a joiner holds
\* nothing before it is answered.
WarmingIsSaved ==
    \A p \in warming : /\ held[p] \in rows
                       /\ pc[p] \in {"time", "ended", "sent"}
NothingServedYet == \A j \in Joiners : pc[j] \in {"idle", "query"} => held[j] = NoSnapshot
CacheInv == WarmingIsSaved /\ NothingServedYet /\ ServedIsSaved

\* A snapshot is created after its generation began.
CreatedSince(t) == \E s \in rows : s.created >= t
TimeInv ==
    /\ \A k \in Checks : /\ pc[k] = "save" => held[k].created >= began[k]
                         /\ pc[k] = "time" => CreatedSince(began[k])
    /\ TimeIsOfASnapshot

Inv == TypeOK /\ LivesCounted /\ VersionsInv /\ CacheInv /\ TimeInv

--------------------------------------------------------------------------------
\* Cutting off the fraction of a second gives a time that is not later.
LEMMA SecondIsNotLater == ASSUME NEW t \in Nat PROVE Second(t) \in 0 .. t
  BY DEF Second

LEMMA InitInv == Init => Inv
  BY DEF Init, Inv, TypeOK, LivesCounted, VersionsInv, Behind, HeldIsBehind, NothingNewer,
         CacheInv, WarmingIsSaved, NothingServedYet, ServedIsSaved, TimeInv,
         TimeIsOfASnapshot, Processes, Boards, Blank, Snapshot, NoSnapshot, CheckSteps,
         JoinSteps

--------------------------------------------------------------------------------
(***************************************************************************)
(* Types.                                                                  *)
(***************************************************************************)
LEMMA TypeNext == TypeOK /\ LivesCounted /\ [Next]_vars => TypeOK' /\ LivesCounted'
<1> SUFFICES ASSUME TypeOK, LivesCounted, [Next]_vars PROVE TypeOK' /\ LivesCounted'
  OBVIOUS
<1> USE DEF TypeOK, LivesCounted, Processes, Boards, CheckSteps, JoinSteps, Goto, Fault, Now,
            roomVars, timeVars
<1>1. ASSUME NEW a \in Actions, IncrementVersion(a) \/ ApplyScript(a)
      PROVE  TypeOK' /\ LivesCounted'
  BY <1>1 DEF IncrementVersion, ApplyScript
<1>2. CASE CleanupRoomState
  BY <1>2 DEF CleanupRoomState, Blank, NoSnapshot, Snapshot
<1>3. CASE Expire
  BY <1>3 DEF Expire, Blank, NoSnapshot, Snapshot
<1>4. ASSUME NEW k \in Checks,
             GetLastSnapshotTime(k) \/ Skip(k) \/ Due(k)
      PROVE  TypeOK' /\ LivesCounted'
  BY <1>4 DEF GetLastSnapshotTime, Skip, Due
<1>5. ASSUME NEW k \in Checks, GetBoardState(k) \/ GetCurrentVersion(k) \/ CreateSnapshot(k)
      PROVE  TypeOK' /\ LivesCounted'
  <2>1. held' \in [Processes -> Snapshot]
    <3>1. held[k] \in Snapshot /\ board \in Boards /\ Blank \in Boards
      BY DEF Blank
    <3>2. /\ DOMAIN held' = Processes /\ held' = [p \in Processes |-> held'[p]]
          /\ \A p \in Processes \ {k} : held'[p] = held[p]
      BY <1>5 DEF GetBoardState, GetCurrentVersion, CreateSnapshot
    <3>3. held'[k] \in Snapshot
      <4>1. CASE GetBoardState(k)
        <5>1. PICK b \in {board, Blank} :
                  held' = [held EXCEPT ![k].board = b, ![k].boardLife = life]
          BY <4>1 DEF GetBoardState
        <5>2. life \in Nat /\ b \in Boards
          BY <3>1
        <5> QED BY <3>1, <5>1, <5>2 DEF Snapshot
      <4>2. CASE GetCurrentVersion(k)
        <5>1. /\ held' = [held EXCEPT ![k].version = version, ![k].versionLife = life]
              /\ version \in Nat /\ life \in Nat
          BY <4>2 DEF GetCurrentVersion
        <5> QED BY <3>1, <5>1 DEF Snapshot
      <4>3. CASE CreateSnapshot(k)
        BY <3>1, <4>3 DEF CreateSnapshot, Snapshot
      <4> QED BY <1>5, <4>1, <4>2, <4>3
    <3> QED BY <3>2, <3>3
  <2> QED BY <1>5, <2>1 DEF GetBoardState, GetCurrentVersion, CreateSnapshot, After, Turn
<1>6. ASSUME NEW k \in Checks, SaveSnapshot(k) \/ GenerationFails(k)
      PROVE  TypeOK' /\ LivesCounted'
  BY <1>6 DEF SaveSnapshot, GenerationFails, ReturnError
<1>7. ASSUME NEW k \in Checks, SetLastSnapshotTime(k) PROVE TypeOK' /\ LivesCounted'
  <2>1. Second(began[k]) \in 0 .. clock
    BY SecondIsNotLater
  <2> QED BY <1>7, <2>1 DEF SetLastSnapshotTime
<1>8. ASSUME NEW j \in Joiners, Join(j) PROVE TypeOK' /\ LivesCounted'
  BY <1>8 DEF Join, GetSnapshotCache, GetLatestSnapshot, QueryFails, Latest
<1>9. ASSUME NEW p \in Processes, SetSnapshotCache(p) PROVE TypeOK' /\ LivesCounted'
  BY <1>9 DEF SetSnapshotCache
<1>10. CASE UNCHANGED vars
  BY <1>10 DEF vars
<1> QED
  BY <1>1, <1>2, <1>3, <1>4, <1>5, <1>6, <1>7, <1>8, <1>9, <1>10 DEF Next, Room, Check

--------------------------------------------------------------------------------
(***************************************************************************)
(* Versions.                                                               *)
(***************************************************************************)
LEMMA VersionsNext == TypeOK /\ VersionsInv /\ [Next]_vars => VersionsInv'
<1> SUFFICES ASSUME TypeOK, VersionsInv, [Next]_vars PROVE VersionsInv'
  OBVIOUS
<1> USE DEF VersionsInv, TypeOK, Processes, Boards, Goto, roomVars
<1>1. ASSUME NEW a \in Actions, IncrementVersion(a) \/ ApplyScript(a) PROVE VersionsInv'
  <2>1. /\ version' = version + 1
        /\ board' = board \/ board' = [board EXCEPT ![a] = version + 1]
        /\ UNCHANGED <<life, rows, pc, held>>
    BY <1>1 DEF IncrementVersion, ApplyScript
  <2>2. Behind(board, version)'
    BY <2>1 DEF Behind
  <2>3. ASSUME NEW k \in Checks PROVE HeldIsBehind(k)'
    <3>1. held[k].board \in [Actions -> Nat]
      BY DEF Snapshot
    <3> QED BY <2>1, <3>1 DEF HeldIsBehind, Behind, Whole
  <2> QED BY <2>1, <2>2, <2>3 DEF NothingNewer, Whole
<1>2. CASE CleanupRoomState
  <2>1. /\ Behind(board, version)'
        /\ life' = life + 1
        /\ UNCHANGED <<rows, pc, held>>
    BY <1>2 DEF CleanupRoomState, Behind, Blank
  <2>2. ASSUME NEW k \in Checks PROVE HeldIsBehind(k)'
    <3>1. held[k].boardLife \in Nat
      BY DEF Snapshot
    <3> QED BY <2>1, <3>1 DEF HeldIsBehind, Whole
  <2> QED BY <2>1, <2>2 DEF NothingNewer, Whole
<1>3. ASSUME NEW k \in Checks, GetBoardState(k) PROVE VersionsInv'
  <2>1. /\ pc' = [pc EXCEPT ![k] = "second"]
        /\ held' = [held EXCEPT ![k].board = board, ![k].boardLife = life]
              \/ held' = [held EXCEPT ![k].board = Blank, ![k].boardLife = life]
        /\ UNCHANGED <<board, version, life, rows>>
    BY <1>3 DEF GetBoardState, After, Turn
  <2>2. Behind(Blank, version)
    BY DEF Behind, Blank
  <2>3. HeldIsBehind(k)'
    BY <2>1, <2>2 DEF HeldIsBehind, Snapshot
  <2>4. ASSUME NEW l \in Checks \ {k} PROVE HeldIsBehind(l)'
    BY <2>1 DEF HeldIsBehind, Whole
  <2> QED BY <2>1, <2>3, <2>4 DEF Behind, NothingNewer, Whole
<1>4. ASSUME NEW k \in Checks, GetCurrentVersion(k) PROVE VersionsInv'
  <2>1. /\ pc[k] = "second" /\ pc' = [pc EXCEPT ![k] = "create"]
        /\ held' = [held EXCEPT ![k].version = version, ![k].versionLife = life]
        /\ UNCHANGED <<board, version, life, rows>>
    BY <1>4 DEF GetCurrentVersion, After, Turn
  <2>2. HeldIsBehind(k)'
    BY <2>1 DEF HeldIsBehind, Snapshot, Whole
  <2>3. ASSUME NEW l \in Checks \ {k} PROVE HeldIsBehind(l)'
    BY <2>1 DEF HeldIsBehind, Whole
  <2> QED BY <2>1, <2>2, <2>3 DEF Behind, NothingNewer, Whole
<1>5. ASSUME NEW k \in Checks, CreateSnapshot(k) PROVE VersionsInv'
  <2>1. /\ pc[k] = "create" /\ pc' = [pc EXCEPT ![k] = "save"]
        /\ held' = [held EXCEPT ![k].created = Now]
        /\ UNCHANGED <<board, version, life, rows>>
    BY <1>5 DEF CreateSnapshot
  <2>2. HeldIsBehind(k)'
    BY <2>1 DEF HeldIsBehind, Snapshot, Whole
  <2>3. ASSUME NEW l \in Checks \ {k} PROVE HeldIsBehind(l)'
    BY <2>1 DEF HeldIsBehind, Whole
  <2> QED BY <2>1, <2>2, <2>3 DEF Behind, NothingNewer, Whole
<1>6. ASSUME NEW k \in Checks, SaveSnapshot(k) \/ GenerationFails(k) PROVE VersionsInv'
  <2>1. /\ pc' = [pc EXCEPT ![k] = "time"] \/ pc' = [pc EXCEPT ![k] = "ended"]
        /\ rows' = rows \/ (pc[k] = "save" /\ rows' = rows \cup {held[k]})
        /\ UNCHANGED <<board, version, life, held>>
    BY <1>6 DEF SaveSnapshot, GenerationFails, ReturnError
  <2>2. ASSUME NEW l \in Checks PROVE HeldIsBehind(l)'
    BY <2>1 DEF HeldIsBehind, Whole
  <2>3. NothingNewer'
    BY <2>1 DEF NothingNewer, HeldIsBehind, Behind, Whole
  <2> QED BY <2>1, <2>2, <2>3 DEF Behind
<1>7. ASSUME NEW k \in Checks,
             GetLastSnapshotTime(k) \/ Skip(k) \/ Due(k) \/ SetLastSnapshotTime(k)
      PROVE  VersionsInv'
  <2>1. /\ \E step \in {"decide", "ended", "first"} : pc' = [pc EXCEPT ![k] = step]
        /\ UNCHANGED <<board, version, life, held, rows>>
    BY <1>7 DEF GetLastSnapshotTime, Skip, Due, SetLastSnapshotTime
  <2>2. ASSUME NEW l \in Checks PROVE HeldIsBehind(l)'
    BY <2>1 DEF HeldIsBehind, Whole
  <2> QED BY <2>1, <2>2 DEF Behind, NothingNewer, Whole
<1>8. ASSUME NEW j \in Joiners, Join(j) PROVE VersionsInv'
  <2>1. \A k \in Checks : pc'[k] = pc[k] /\ held'[k] = held[k]
    BY <1>8 DEF Join, GetSnapshotCache, GetLatestSnapshot, QueryFails
  <2>2. UNCHANGED <<board, version, life, rows>>
    BY <1>8 DEF Join, GetSnapshotCache, GetLatestSnapshot, QueryFails
  <2>3. ASSUME NEW k \in Checks PROVE HeldIsBehind(k)'
    BY <2>1, <2>2 DEF HeldIsBehind, Whole
  <2> QED BY <2>2, <2>3 DEF Behind, NothingNewer, Whole
<1>9. ASSUME UNCHANGED <<board, version, life, rows, pc, held>> PROVE VersionsInv'
  BY <1>9 DEF HeldIsBehind, Behind, NothingNewer, Whole
<1>10. ASSUME NEW p \in Processes, SetSnapshotCache(p) PROVE VersionsInv'
  BY <1>9, <1>10 DEF SetSnapshotCache
<1>11. CASE Expire
  BY <1>9, <1>11 DEF Expire
<1>12. CASE UNCHANGED vars
  BY <1>9, <1>12 DEF vars
<1> QED
  BY <1>1, <1>2, <1>3, <1>4, <1>5, <1>6, <1>7, <1>8, <1>10, <1>11, <1>12
     DEF Next, Room, Check

--------------------------------------------------------------------------------
(***************************************************************************)
(* The cache.                                                              *)
(***************************************************************************)
LEMMA CacheNext == TypeOK /\ CacheInv /\ [Next]_vars => CacheInv'
<1> SUFFICES ASSUME TypeOK, CacheInv, [Next]_vars PROVE CacheInv'
  OBVIOUS
<1> USE DEF CacheInv, WarmingIsSaved, NothingServedYet, ServedIsSaved, TypeOK, Processes,
            CheckSteps, JoinSteps, Goto
<1>1. ASSUME UNCHANGED <<rows, pc, held, warming>>, cache' \in {cache, NoSnapshot}
      PROVE  CacheInv'
  BY <1>1
<1>2. ASSUME NEW a \in Actions, IncrementVersion(a) \/ ApplyScript(a) PROVE CacheInv'
  BY <1>1, <1>2 DEF IncrementVersion, ApplyScript
<1>3. CASE CleanupRoomState \/ Expire
  BY <1>1, <1>3 DEF CleanupRoomState, Expire
<1>4. ASSUME NEW k \in Checks,
             \/ GetLastSnapshotTime(k) \/ Skip(k) \/ Due(k) \/ GetBoardState(k)
             \/ GetCurrentVersion(k) \/ CreateSnapshot(k)
      PROVE  CacheInv'
  \* It is before its save: no goroutine holds its snapshot.
  <2>1. /\ pc[k] \in {"idle", "decide", "first", "second", "create"}
        /\ UNCHANGED <<rows, cache, warming>>
        /\ \A p \in Processes \ {k} : pc'[p] = pc[p] /\ held'[p] = held[p]
    BY <1>4 DEF GetLastSnapshotTime, Skip, Due, GetBoardState, GetCurrentVersion,
                CreateSnapshot, Turn
  <2> QED BY <2>1
<1>5. ASSUME NEW k \in Checks, SaveSnapshot(k) PROVE CacheInv'
  BY <1>5 DEF SaveSnapshot
<1>6. ASSUME NEW k \in Checks, GenerationFails(k) PROVE CacheInv'
  <2>1. /\ rows \subseteq rows' /\ UNCHANGED <<cache, held, warming>>
        /\ pc' = [pc EXCEPT ![k] = "ended"]
    BY <1>6 DEF GenerationFails, ReturnError
  <2> QED BY <2>1
<1>7. ASSUME NEW k \in Checks, SetLastSnapshotTime(k) PROVE CacheInv'
  BY <1>7 DEF SetLastSnapshotTime
<1>8. ASSUME NEW j \in Joiners, Join(j) PROVE CacheInv'
  <2>1. CASE GetSnapshotCache(j)
    <3>1. /\ pc[j] = "idle" /\ UNCHANGED <<rows, cache, warming>>
          /\ \A p \in Processes \ {j} : pc'[p] = pc[p] /\ held'[p] = held[p]
          /\ \/ pc'[j] = "sent" /\ held'[j] = cache
             \/ pc'[j] = "query" /\ held'[j] = held[j]
      BY <2>1 DEF GetSnapshotCache
    <3> QED BY <3>1
  <2>2. CASE GetLatestSnapshot(j)
    <3>1. /\ pc[j] = "query" /\ pc' = [pc EXCEPT ![j] = "sent"]
          /\ UNCHANGED <<rows, cache>>
      BY <2>2 DEF GetLatestSnapshot
    <3>2. CASE UNCHANGED <<held, warming>>
      BY <3>1, <3>2
    <3>3. CASE \E s \in rows : held' = [held EXCEPT ![j] = s] /\ warming' = warming \cup {j}
      BY <3>1, <3>3
    <3> QED BY <2>2, <3>2, <3>3 DEF GetLatestSnapshot, Latest
  <2>3. CASE QueryFails(j)
    BY <2>3 DEF QueryFails
  <2> QED BY <1>8, <2>1, <2>2, <2>3 DEF Join
<1>9. ASSUME NEW p \in Processes, SetSnapshotCache(p) PROVE CacheInv'
  BY <1>9 DEF SetSnapshotCache
<1>10. CASE UNCHANGED vars
  BY <1>1, <1>10 DEF vars
<1> QED
  BY <1>2, <1>3, <1>4, <1>5, <1>6, <1>7, <1>8, <1>9, <1>10 DEF Next, Room, Check

--------------------------------------------------------------------------------
(***************************************************************************)
(* The stored time.                                                        *)
(***************************************************************************)
LEMMA TimeNext == TypeOK /\ TimeInv /\ [Next]_vars => TimeInv'
<1> SUFFICES ASSUME TypeOK, TimeInv, [Next]_vars PROVE TimeInv'
  OBVIOUS
<1> USE DEF TimeInv, TimeIsOfASnapshot, CreatedSince, TypeOK, Processes, Goto
<1>1. ASSUME rows \subseteq rows', UNCHANGED <<held, began>>, lastTime' \in {lastTime, 0},
             \A k \in Checks : pc'[k] \in {"save", "time"} => pc'[k] = pc[k]
      PROVE  TimeInv'
  BY <1>1
<1>2. ASSUME NEW a \in Actions, IncrementVersion(a) \/ ApplyScript(a) PROVE TimeInv'
  BY <1>1, <1>2 DEF IncrementVersion, ApplyScript, timeVars
<1>3. CASE CleanupRoomState \/ Expire
  BY <1>1, <1>3 DEF CleanupRoomState, Expire, timeVars
<1>4. ASSUME NEW k \in Checks, GetLastSnapshotTime(k) \/ Skip(k) \/ GenerationFails(k)
      PROVE  TimeInv'
  BY <1>1, <1>4 DEF GetLastSnapshotTime, Skip, GenerationFails, ReturnError, timeVars
<1>5. ASSUME NEW k \in Checks, Due(k) \/ GetBoardState(k) \/ GetCurrentVersion(k)
      PROVE  TimeInv'
  <2>1. /\ pc'[k] \notin {"save", "time"} /\ UNCHANGED <<rows, lastTime>>
        /\ \A l \in Checks \ {k} : /\ pc'[l] = pc[l] /\ held'[l] = held[l]
                                   /\ began'[l] = began[l]
    BY <1>5 DEF Due, GetBoardState, GetCurrentVersion, After, Turn, timeVars
  <2> QED BY <2>1
<1>6. ASSUME NEW k \in Checks, CreateSnapshot(k) PROVE TimeInv'
  <2>1. /\ held'[k].created = clock + 1 /\ pc'[k] = "save"
        /\ UNCHANGED <<rows, lastTime, began>>
        /\ \A l \in Checks \ {k} : pc'[l] = pc[l] /\ held'[l] = held[l]
    BY <1>6 DEF CreateSnapshot, Now, timeVars, Snapshot
  <2>2. began[k] <= clock
    OBVIOUS
  <2> QED BY <2>1, <2>2
<1>7. ASSUME NEW k \in Checks, SaveSnapshot(k) PROVE TimeInv'
  <2>1. /\ pc[k] = "save" /\ rows' = rows \cup {held[k]}
        /\ pc' = [pc EXCEPT ![k] = "time"] /\ UNCHANGED <<held, began, lastTime>>
    BY <1>7 DEF SaveSnapshot, timeVars
  <2> QED BY <2>1
<1>8. ASSUME NEW k \in Checks, SetLastSnapshotTime(k) PROVE TimeInv'
  <2>1. /\ pc[k] = "time" /\ pc' = [pc EXCEPT ![k] = "ended"]
        /\ lastTime' \in {lastTime, Second(began[k])}
        /\ UNCHANGED <<rows, held, began>>
    BY <1>8 DEF SetLastSnapshotTime, timeVars
  <2>2. PICK s \in rows : s.created >= began[k]
    BY <2>1
  <2>3. s.created \in Nat /\ began[k] \in Nat
    BY DEF Snapshot
  <2>4. s.created >= Second(began[k])
    BY <2>2, <2>3, SecondIsNotLater
  <2> QED BY <2>1, <2>4
<1>9. ASSUME NEW j \in Joiners, Join(j) PROVE TimeInv'
  <2>1. \A k \in Checks : pc'[k] = pc[k] /\ held'[k] = held[k]
    BY <1>9 DEF Join, GetSnapshotCache, GetLatestSnapshot, QueryFails
  <2>2. UNCHANGED <<rows, lastTime, began>>
    BY <1>9 DEF Join, GetSnapshotCache, GetLatestSnapshot, QueryFails, timeVars
  <2> QED BY <2>1, <2>2
<1>10. ASSUME NEW p \in Processes, SetSnapshotCache(p) PROVE TimeInv'
  BY <1>1, <1>10 DEF SetSnapshotCache, timeVars
<1>11. CASE UNCHANGED vars
  BY <1>1, <1>11 DEF vars, timeVars
<1> QED
  BY <1>2, <1>3, <1>4, <1>5, <1>6, <1>7, <1>8, <1>9, <1>10, <1>11 DEF Next, Room, Check

--------------------------------------------------------------------------------
\* The inductive invariant holds: types, what checks, goroutines and rows are known to hold.
THEOREM Invariance == Spec => []Inv
<1>1. Inv /\ [Next]_vars => Inv'
  BY TypeNext, VersionsNext, CacheNext, TimeNext DEF Inv
<1> QED BY <1>1, InitInv, PTL DEF Spec

\* The variables keep their types; the stored time is not in the future.
THEOREM TypeCorrect == Spec => []TypeOK
  BY Invariance, PTL DEF Inv

\* What the cache holds and what joiners are given is in the database, or is the empty
\* snapshot of a room without one.
THEOREM ServedSnapshotsAreSaved == Spec => []ServedIsSaved
  BY Invariance, PTL DEF Inv, CacheInv

\* A snapshot shows no edit newer than its version, unless the keys were deleted between
\* its two reads.
THEOREM SnapshotsShowNothingNewer == Spec => []NothingNewer
  BY Invariance, PTL DEF Inv, VersionsInv

\* The last snapshot time is that of a snapshot which was saved.
THEOREM StoredTimeIsOfASnapshot == Spec => []TimeIsOfASnapshot
  BY Invariance, PTL DEF Inv, TimeInv
================================================================================
