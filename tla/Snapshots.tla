------------------------------- MODULE Snapshots -------------------------------
(***************************************************************************)
(* The snapshots of one room: the checks of asynq's periodic task, which   *)
(* read the room's state in Redis and save it in the database; the cache   *)
(* in Redis; and the goroutines of Hub.sendInitialSnapshot, which answer   *)
(* those who join.  The room is edited, and its keys deleted, meanwhile.   *)
(*                                                                         *)
(* A board is abstracted to the version with which each edit got on it;    *)
(* the edits considered are of different cells.  A check runs once;        *)
(* several of them run side by side when the task of one period is late or *)
(* comes from another server.  Every time.Now() is a tick of the clock.    *)
(* op_count, which a generation resets and nothing reads, is left out.     *)
(***************************************************************************)
EXTENDS Naturals

CONSTANTS
    Actions,    \* edits of the room, one cell each
    Checks,     \* periodic checks of the room
    Joiners,    \* connections that want the board
    PerSecond,  \* ticks of the clock in a second
    MaxFaults   \* bound: failed calls, and deletions of the keys

ASSUME ProcessesAssumption == Checks \cap Joiners = {}
ASSUME TimeAssumption      == PerSecond \in Nat \ {0}
ASSUME FaultsAssumption    == MaxFaults \in Nat

VARIABLES
    board,     \* Redis hash: the version each edit was drawn with, 0 if it is not there
    version,   \* Redis counter
    life,      \* how often the room's keys have been deleted
    cache,     \* Redis: the cached snapshot, or NoSnapshot
    lastTime,  \* Redis: last snapshot time in seconds, 0 if there is none
    rows,      \* database: the saved snapshots
    edit,      \* per edit: the call its handler is about to make
    clock,     \* the last instant taken by time.Now()
    pc,        \* per check and joiner: the call it is about to make, or how it ended
    held,      \* per check and joiner: the snapshot it made or was given
    last,      \* per check: the last snapshot time it was told
    began,     \* per check: newSnapshotTime
    warming,   \* goroutines about to put their creator's snapshot in the cache
    faults     \* failures so far (bounded by MaxFaults)

roomVars   == <<board, version, life>>
timeVars   == <<last, began>>
vars == <<roomVars, cache, lastTime, rows, edit, clock, pc, held, timeVars, warming, faults>>

Processes == Checks \cup Joiners
Boards    == [Actions -> Nat]
Blank     == [a \in Actions |-> 0]

\* `boardLife` and `versionLife` record in which life of the keys the two were read.
Snapshot   == [board : Boards, version : Nat, created : Nat, boardLife : Nat, versionLife : Nat]
NoSnapshot == [board |-> Blank, version |-> 0, created |-> 0, boardLife |-> 0, versionLife |-> 0]

CheckSteps == {"idle", "decide", "first", "second", "create", "save", "time", "ended"}
JoinSteps  == {"idle", "query", "sent", "failed"}

\* The variables keep their types; the last snapshot time (SetLastSnapshotTime cuts it to
\* the second) is never in the future.
TypeOK ==
    /\ board \in Boards /\ version \in Nat /\ life \in 0 .. MaxFaults
    /\ cache \in Snapshot
    /\ clock \in Nat /\ lastTime \in 0 .. clock
    /\ rows \subseteq Snapshot
    /\ edit \in [Actions -> {"increment", "apply", "done"}]
    /\ pc \in [Processes -> CheckSteps \cup JoinSteps]
    /\ \A k \in Checks : pc[k] \in CheckSteps
    /\ \A j \in Joiners : pc[j] \in JoinSteps
    /\ held \in [Processes -> Snapshot]
    /\ last \in [Checks -> Nat] /\ began \in [Checks -> 0 .. clock]
    /\ warming \subseteq Processes
    /\ faults \in 0 .. MaxFaults

Init ==
    /\ board = Blank /\ version = 0 /\ life = 0
    /\ cache = NoSnapshot /\ lastTime = 0 /\ rows = {}
    /\ edit = [a \in Actions |-> "increment"]
    /\ clock = PerSecond
    /\ pc = [p \in Processes |-> "idle"]
    /\ held = [p \in Processes |-> NoSnapshot]
    /\ last = [k \in Checks |-> 0]
    /\ began = [k \in Checks |-> 0]
    /\ warming = {}
    /\ faults = 0

Goto(p, step) == pc' = [pc EXCEPT ![p] = step]
Fault == faults < MaxFaults /\ faults' = faults + 1
Now == clock + 1

--------------------------------------------------------------------------------
(***************************************************************************)
(* The room, as ActionPipeline edits it.                                   *)
(***************************************************************************)
IncrementVersion(a) ==
    /\ edit[a] = "increment"
    /\ version' = version + 1
    /\ edit' = [edit EXCEPT ![a] = "apply"]
    /\ UNCHANGED <<board, life, cache, lastTime, rows, clock, pc, held, timeVars, warming,
                   faults>>

ApplyScript(a) ==
    /\ edit[a] = "apply"
    /\ version' = version + 1
    /\ board' = [board EXCEPT ![a] = version + 1]
    /\ edit' = [edit EXCEPT ![a] = "done"]
    /\ UNCHANGED <<life, cache, lastTime, rows, clock, pc, held, timeVars, warming, faults>>

\* The hub found the room empty some time ago.
CleanupRoomState ==
    /\ Fault
    /\ board' = Blank /\ version' = 0 /\ life' = life + 1
    /\ cache' = NoSnapshot /\ lastTime' = 0
    /\ UNCHANGED <<rows, edit, clock, pc, held, timeVars, warming>>

\* Both keys are set with a TTL.
Expire ==
    /\ \/ cache' = NoSnapshot /\ UNCHANGED lastTime
       \/ lastTime' = 0 /\ UNCHANGED cache
    /\ UNCHANGED <<roomVars, rows, edit, clock, pc, held, timeVars, warming, faults>>

--------------------------------------------------------------------------------
(***************************************************************************)
(* A periodic check of the room: SnapshotCheckHandler.ProcessTask and      *)
(* SnapshotService.CheckAndGenerateSnapshot.                               *)
(***************************************************************************)
\* An error counts as "never".
GetLastSnapshotTime(k) ==
    /\ pc[k] = "idle"
    /\ \/ last' = [last EXCEPT ![k] = lastTime] /\ UNCHANGED faults
       \/ last' = [last EXCEPT ![k] = 0] /\ Fault
    /\ Goto(k, "decide")
    /\ UNCHANGED <<roomVars, cache, lastTime, rows, edit, clock, held, began, warming>>

\* Whether the interval has passed, which depends on the number of actions saved since,
\* is left open; the first snapshot is always due.
MayWait(k) == last[k] # 0

\* Not due yet, or GetCountSince failed.
Skip(k) ==
    /\ pc[k] = "decide"
    /\ (MayWait(k) /\ UNCHANGED faults) \/ Fault
    /\ Goto(k, "ended")
    /\ UNCHANGED <<roomVars, cache, lastTime, rows, edit, clock, held, timeVars, warming>>

Due(k) ==
    /\ pc[k] = "decide"
    /\ clock' = Now
    /\ began' = [began EXCEPT ![k] = Now]
    /\ Goto(k, "first")
    /\ UNCHANGED <<roomVars, cache, lastTime, rows, edit, held, last, warming, faults>>

SwappedTurn(what) == IF what = "board" THEN "second" ELSE "first"  \* slip: version first
Turn(what) == IF what = "board" THEN "first" ELSE "second"
After(step) == IF step = "first" THEN "second" ELSE "create"

\* An error is tolerated: the board is taken to be empty.
GetBoardState(k) ==
    /\ pc[k] = Turn("board")
    /\ \/ held' = [held EXCEPT ![k].board = board, ![k].boardLife = life] /\ UNCHANGED faults
       \/ held' = [held EXCEPT ![k].board = Blank, ![k].boardLife = life] /\ Fault
    /\ Goto(k, After(pc[k]))
    /\ UNCHANGED <<roomVars, cache, lastTime, rows, edit, clock, timeVars, warming>>

GetCurrentVersion(k) ==
    /\ pc[k] = Turn("version")
    /\ held' = [held EXCEPT ![k].version = version, ![k].versionLife = life]
    /\ Goto(k, After(pc[k]))
    /\ UNCHANGED <<roomVars, cache, lastTime, rows, edit, clock, timeVars, warming, faults>>

CreateSnapshot(k) ==
    /\ pc[k] = "create"
    /\ clock' = Now
    /\ held' = [held EXCEPT ![k].created = Now]
    /\ Goto(k, "save")
    /\ UNCHANGED <<roomVars, cache, lastTime, rows, edit, timeVars, warming, faults>>

\* SaveSnapshot succeeded: the cache is filled by a goroutine.
SaveSnapshot(k) ==
    /\ pc[k] = "save"
    /\ rows' = rows \cup {held[k]}
    /\ warming' = warming \cup {k}
    /\ Goto(k, "time")
    /\ UNCHANGED <<roomVars, cache, lastTime, edit, clock, held, timeVars, faults>>

CacheAnyway(k) == Goto(k, "ended") /\ warming' = warming \cup {k}  \* slip: cached unsaved
ReportSuccess(k) == Goto(k, "time") /\ UNCHANGED warming           \* slip: new time returned
ReturnError(k) == Goto(k, "ended") /\ UNCHANGED warming

\* The version could not be read, or the row not saved, unless only the reply was lost.
GenerationFails(k) ==
    /\ Fault
    /\ \/ pc[k] = Turn("version") /\ UNCHANGED rows
       \/ pc[k] = "save" /\ rows' \in {rows, rows \cup {held[k]}}
    /\ ReturnError(k)
    /\ UNCHANGED <<roomVars, cache, lastTime, edit, clock, held, timeVars>>

RoundedUp(t) == t + PerSecond - (t % PerSecond)       \* slip: rounded to the next second
Second(t) == t - (t % PerSecond)

SetLastSnapshotTime(k) ==
    /\ pc[k] = "time"
    /\ \/ lastTime' = Second(began[k]) /\ UNCHANGED faults
       \/ UNCHANGED lastTime /\ Fault
    /\ Goto(k, "ended")
    /\ UNCHANGED <<roomVars, cache, rows, edit, clock, held, timeVars, warming>>

--------------------------------------------------------------------------------
(***************************************************************************)
(* SnapshotService.GetSnapshotForClient: cache, database, refill.          *)
(***************************************************************************)
GetSnapshotCache(j) ==
    /\ pc[j] = "idle"
    /\ \/ /\ cache # NoSnapshot
          /\ held' = [held EXCEPT ![j] = cache]
          /\ Goto(j, "sent")
          /\ UNCHANGED faults
       \/ /\ (cache = NoSnapshot /\ UNCHANGED faults) \/ Fault
          /\ Goto(j, "query")
          /\ UNCHANGED held
    /\ UNCHANGED <<roomVars, cache, lastTime, rows, edit, clock, timeVars, warming>>

Latest(s) == s \in rows /\ \A t \in rows : t.created <= s.created

GetLatestSnapshot(j) ==
    /\ pc[j] = "query"
    /\ \/ rows = {} /\ UNCHANGED <<held, warming>>
       \/ /\ \E s \in rows : Latest(s) /\ held' = [held EXCEPT ![j] = s]
          /\ warming' = warming \cup {j}
    /\ Goto(j, "sent")
    /\ UNCHANGED <<roomVars, cache, lastTime, rows, edit, clock, timeVars, faults>>

QueryFails(j) ==
    /\ pc[j] = "query"
    /\ Fault
    /\ Goto(j, "failed")
    /\ UNCHANGED <<roomVars, cache, lastTime, rows, edit, clock, held, timeVars, warming>>

\* The goroutine of a check or of a joiner; its failure is only logged.
SetSnapshotCache(p) ==
    /\ p \in warming
    /\ \/ cache' = held[p] /\ UNCHANGED faults
       \/ UNCHANGED cache /\ Fault
    /\ warming' = warming \ {p}
    /\ UNCHANGED <<roomVars, lastTime, rows, edit, clock, pc, held, timeVars>>

--------------------------------------------------------------------------------
Room     == \/ CleanupRoomState \/ Expire
            \/ \E a \in Actions : IncrementVersion(a) \/ ApplyScript(a)
Check(k) == \/ GetLastSnapshotTime(k) \/ Skip(k) \/ Due(k) \/ GetBoardState(k)
            \/ GetCurrentVersion(k) \/ CreateSnapshot(k) \/ SaveSnapshot(k)
            \/ GenerationFails(k) \/ SetLastSnapshotTime(k)
Join(j)  == GetSnapshotCache(j) \/ GetLatestSnapshot(j) \/ QueryFails(j)

Next == \/ Room
        \/ \E k \in Checks : Check(k)
        \/ \E j \in Joiners : Join(j)
        \/ \E p \in Processes : SetSnapshotCache(p)

Spec == Init /\ [][Next]_vars

--------------------------------------------------------------------------------
(***************************************************************************)
(* Properties.                                                             *)
(***************************************************************************)
\* What the cache holds and what joiners are given is in the database, or is the empty
\* snapshot of a room that has none: generations that fail and asynchronous fills of the
\* cache never show a board that a restart of Redis would take back.
ServedIsSaved ==
    /\ cache \in rows \cup {NoSnapshot}
    /\ \A j \in Joiners : pc[j] = "sent" => held[j] \in rows \cup {NoSnapshot}

\* A snapshot shows no edit that is newer than its version, unless the keys were deleted
\* between its two reads: a client that goes on from it with the actions of higher
\* versions never undoes what the snapshot shows.
Whole(s) == s.boardLife = s.versionLife
NothingNewer == \A s \in rows : Whole(s) => \A a \in Actions : s.board[a] <= s.version

\* The last snapshot time is that of a snapshot which was saved: a check whose generation
\* failed does not make the next ones wait.
TimeIsOfASnapshot == lastTime # 0 => \E s \in rows : s.created >= lastTime

--------------------------------------------------------------------------------
(***************************************************************************)
(* What the documentation says, and the code does not do.                  *)
(***************************************************************************)
\* domain/snapshot.go:15, README.md:363: the version of a snapshot is that of the last
\* action it corresponds to.  It shows then every action up to its version.
SnapshotReachesVersion ==
    \A s \in rows : Whole(s) /\ s.boardLife = life =>
        \A a \in Actions : board[a] # 0 /\ board[a] <= s.version => s.board[a] = board[a]
================================================================================
