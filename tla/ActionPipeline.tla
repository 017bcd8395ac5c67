----------------------------- MODULE ActionPipeline -----------------------------
(***************************************************************************)
(* The life of an action in one room: the goroutine that runs              *)
(* Hub.handleClientAction and CollaborationService.ProcessIncomingAction,  *)
(* one Redis call at a time, beside those of the other actions; then the   *)
(* asynq task that a worker turns into a row of the database.              *)
(*                                                                         *)
(* Every remote call may fail without effect, or take effect without its   *)
(* reply arriving, in which case the Redis client sends it again or gives  *)
(* up.  The room's keys may be deleted at any moment: the hub starts       *)
(* CleanupRoomState in a goroutine that nothing orders with the handlers.  *)
(* A server may die, with whatever its handlers had under way; Redis and   *)
(* the queue in it live on.                                                *)
(***************************************************************************)
EXTENDS Edits, Sequences, FiniteSets

CONSTANTS
    TypeOf,      \* the "type" member of a client's message, "" if it has none
    HistoryCap,  \* length the history list is trimmed to (100 in the code)
    MaxRetry,    \* retries asynq grants a task (its default is 25)
    MaxFaults    \* bound: failures of calls and workers, ends of servers, deletions of keys

ASSUME TypeOfAssumption == TypeOf \in [Actions -> {"draw", "erase", ""}]
ASSUME BoundsAssumption ==
    HistoryCap \in Nat \ {0} /\ MaxRetry \in Nat /\ MaxFaults \in Nat

VARIABLES
    board,      \* Redis hash of the room: colour per cell, NoColor where no field is
    version,    \* Redis counter room:<id>:version
    history,    \* Redis list room:<id>:actions
    opCount,    \* Redis counter room:<id>:op_count
    pc,         \* per action: the call its handler is about to make, or how it ended
    ver,        \* per action: newVersion, and Action.Version once there is an Action
    stamp,      \* per action: the version the script gave it in Redis since the keys
                \* were last deleted, whether or not the handler was told; 0 if none
    published,  \* the room's channel, in the order Redis took the messages
    task,       \* per action: its asynq task
    retries,    \* per action: retries its task has used
    rows,       \* per action: rows of the actions table that hold it
    faults      \* failures so far (bounded by MaxFaults)

redisVars  == <<board, version, stamp>>
logVars    == <<history, opCount, published>>
workerVars == <<task, retries, rows>>
vars == <<redisVars, logVars, pc, ver, workerVars, faults>>

Calls     == {"received", "increment", "apply", "history", "opcount", "publish", "enqueue"}
Outcomes  == {"rejected", "failed", "done", "cut"}     \* "cut" by death, with an Action
TaskState == {"none", "pending", "active", "saved", "completed", "archived"}

Blank   == [x \in Cells |-> NoColor]
NoStamp == [a \in Actions |-> 0]

\* The types of the variables; the history never outgrows the length it is trimmed to, even
\* when a push is executed twice.
TypeOK ==
    /\ board \in [Cells -> Colors \cup {NoColor}]
    /\ version \in Nat
    /\ history \in Seq(Actions) /\ Len(history) <= HistoryCap
    /\ opCount \in Nat
    /\ pc \in [Actions -> Calls \cup Outcomes]
    /\ ver \in [Actions -> Nat]
    /\ stamp \in [Actions -> Nat]
    /\ published \in Seq(Actions)
    /\ task \in [Actions -> TaskState]
    /\ retries \in [Actions -> 0 .. MaxRetry]
    /\ rows \in [Actions -> Nat]
    /\ faults \in 0 .. MaxFaults

Init ==
    /\ board = Blank /\ version = 0 /\ stamp = NoStamp
    /\ history = <<>> /\ opCount = 0 /\ published = <<>>
    /\ pc = [a \in Actions |-> "received"]
    /\ ver = [a \in Actions |-> 0]
    /\ task = [a \in Actions |-> "none"]
    /\ retries = [a \in Actions |-> 0]
    /\ rows = [a \in Actions |-> 0]
    /\ faults = 0

\* The handler holds a domain.Action, with its version, for this message.
Accepted(a) == pc[a] \in {"history", "opcount", "publish", "enqueue", "done", "cut"}

Goto(a, call) == pc' = [pc EXCEPT ![a] = call]
Fault == faults < MaxFaults /\ faults' = faults + 1

\* How often a call whose error is only logged takes effect: once, unless it fails (0)
\* or its reply is lost and the client library sends it again (2).
TimesExecuted(k) == \/ k = 1 /\ UNCHANGED faults
                    \/ k \in {0, 2} /\ Fault
Copies(a, k) == [i \in 1 .. k |-> a]

--------------------------------------------------------------------------------
(***************************************************************************)
(* ProcessIncomingAction.                                                  *)
(***************************************************************************)
\* Unmarshal and validate: `binding:"required,oneof=draw erase"`.
Validate(a) ==
    /\ pc[a] = "received"
    /\ Goto(a, IF TypeOf[a] \in {"draw", "erase"} THEN "increment" ELSE "rejected")
    /\ UNCHANGED <<redisVars, logVars, ver, workerVars, faults>>

IncrementVersion(a) ==
    /\ pc[a] = "increment"
    /\ version' = version + 1
    /\ \/ /\ ver' = [ver EXCEPT ![a] = version + 1]
          /\ Goto(a, "apply")
          /\ UNCHANGED faults
       \/ Fault /\ UNCHANGED <<ver, pc>>
    /\ UNCHANGED <<board, stamp, logVars, workerVars>>

\* applyAndIncrScript, one atomic step of Redis: HSET for a colour, HDEL for none (the
\* action's type is overruled), then INCR.
ApplyScriptUncounted(a) ==                          \* slip: the INCR of the script is lost
    /\ board' = [board EXCEPT ![CellOf[a]] = ColorOf[a]]
    /\ stamp' = [stamp EXCEPT ![a] = version]
    /\ UNCHANGED version
ApplyScript(a) ==
    /\ board' = [board EXCEPT ![CellOf[a]] = ColorOf[a]]
    /\ version' = version + 1
    /\ stamp' = [stamp EXCEPT ![a] = version + 1]

KeepFirstVersion(a) == UNCHANGED ver                \* slip: newVersion of the first INCR kept
TakeVersion(a) == ver' = [ver EXCEPT ![a] = version + 1]

ApplyAction(a) ==
    /\ pc[a] = "apply"
    /\ ApplyScript(a)
    /\ TakeVersion(a)
    /\ Goto(a, "history")
    /\ UNCHANGED <<logVars, workerVars, faults>>

\* The script ran and the reply was lost: the call is made again, or fails.
ApplyReplyLost(a) ==
    /\ pc[a] = "apply"
    /\ ApplyScript(a)
    /\ Fault
    /\ UNCHANGED <<logVars, pc, ver, workerVars>>

CarryOn(a) == Goto(a, "history")                    \* slip: the error is only logged
GiveUp(a) == Goto(a, "failed")

\* ErrInternalServer; the hub reports it to the sender and forgets the action.
CallFails(a) ==
    /\ pc[a] \in {"increment", "apply"}
    /\ Fault
    /\ GiveUp(a)
    /\ UNCHANGED <<redisVars, logVars, ver, workerVars>>

Untrimmed(s) == s                                   \* slip: no LTRIM
Trim(s) == IF Len(s) <= HistoryCap THEN s
           ELSE SubSeq(s, Len(s) - HistoryCap + 1, Len(s))

\* RPUSH and LTRIM, sent as one batch that Redis takes in one go.
PushActionToHistory(a) ==
    /\ pc[a] = "history"
    /\ \E k \in 0 .. 2 : TimesExecuted(k) /\ history' = Trim(history \o Copies(a, k))
    /\ Goto(a, "opcount")
    /\ UNCHANGED <<redisVars, opCount, published, ver, workerVars>>

IncrementOpCount(a) ==
    /\ pc[a] = "opcount"
    /\ \E k \in 0 .. 2 : TimesExecuted(k) /\ opCount' = opCount + k
    /\ Goto(a, "publish")
    /\ UNCHANGED <<redisVars, history, published, ver, workerVars>>

PublishAction(a) ==
    /\ pc[a] = "publish"
    /\ \E k \in 0 .. 2 : TimesExecuted(k) /\ published' = published \o Copies(a, k)
    /\ Goto(a, "enqueue")
    /\ UNCHANGED <<redisVars, history, opCount, ver, workerVars>>

\* handleClientAction: EnqueueContext, whose error is only logged.
EnqueueTask(a) ==
    /\ pc[a] = "enqueue"
    /\ \/ task' = [task EXCEPT ![a] = "pending"] /\ UNCHANGED faults
       \/ Fault /\ UNCHANGED task
    /\ Goto(a, "done")
    /\ UNCHANGED <<redisVars, logVars, ver, retries, rows>>

\* The hub's cleanup of a room it found empty: DEL of all the room's keys.
CleanupRoomState ==
    /\ Fault
    /\ board' = Blank /\ version' = 0 /\ stamp' = NoStamp
    /\ history' = <<>> /\ opCount' = 0
    /\ UNCHANGED <<published, pc, ver, workerVars>>

\* A server's process ends, and with it the handlers D that it ran, wherever they are:
\* nobody does the rest of their calls.
ServerDies(D) ==
    /\ D # {} /\ \A a \in D : pc[a] \in Calls
    /\ Fault
    /\ pc' = [a \in Actions |-> IF a \notin D THEN pc[a]
                                ELSE IF Accepted(a) THEN "cut" ELSE "failed"]
    /\ UNCHANGED <<redisVars, logVars, ver, workerVars>>

--------------------------------------------------------------------------------
(***************************************************************************)
(* ActionPersistenceHandler.ProcessTask under asynq.                       *)
(***************************************************************************)
TakeTask(a) ==
    /\ task[a] = "pending"
    /\ task' = [task EXCEPT ![a] = "active"]
    /\ UNCHANGED <<redisVars, logVars, pc, ver, retries, rows, faults>>

SaveBatch(a) ==
    /\ task[a] = "active"
    /\ rows' = [rows EXCEPT ![a] = @ + 1]
    /\ task' = [task EXCEPT ![a] = "saved"]
    /\ UNCHANGED <<redisVars, logVars, pc, ver, retries, faults>>

\* ProcessTask returned nil: asynq removes the task.
CompleteTask(a) ==
    /\ task[a] = "saved"
    /\ task' = [task EXCEPT ![a] = "completed"]
    /\ UNCHANGED <<redisVars, logVars, pc, ver, retries, rows, faults>>

CompleteAnyway(a) ==                                \* slip: the error is swallowed
    task' = [task EXCEPT ![a] = "completed"] /\ UNCHANGED retries
Retry(a) ==
    IF retries[a] < MaxRetry
    THEN /\ retries' = [retries EXCEPT ![a] = @ + 1]
         /\ task' = [task EXCEPT ![a] = "pending"]
    ELSE task' = [task EXCEPT ![a] = "archived"] /\ UNCHANGED retries

\* A run that is given up may have committed its row.
Interrupt(a) ==
    /\ task[a] \in {"active", "saved"}
    /\ Fault
    /\ \/ UNCHANGED rows
       \/ task[a] = "active" /\ rows' = [rows EXCEPT ![a] = @ + 1]
    /\ UNCHANGED <<redisVars, logVars, pc, ver>>

\* SaveBatch fails, perhaps after the commit; or the worker dies before it has reported
\* the row it saved.  Either way asynq runs the task again while it has retries left.
TaskFails(a) == Interrupt(a) /\ Retry(a)

\* asynq's Shutdown waits a while for a task that runs, then puts it back in the queue, and
\* counts no retry.  The run it left behind may commit until the process ends.
ShutdownRequeues(a) ==
    /\ Interrupt(a)
    /\ task' = [task EXCEPT ![a] = "pending"]
    /\ UNCHANGED retries

--------------------------------------------------------------------------------
Handler(a) == \/ Validate(a) \/ IncrementVersion(a) \/ ApplyAction(a)
              \/ PushActionToHistory(a) \/ IncrementOpCount(a) \/ PublishAction(a)
              \/ EnqueueTask(a)
Worker(a)  == TakeTask(a) \/ SaveBatch(a) \/ CompleteTask(a)
Failure(a) == ApplyReplyLost(a) \/ CallFails(a) \/ TaskFails(a) \/ ShutdownRequeues(a)

Next == \/ CleanupRoomState
        \/ \E D \in SUBSET Actions : ServerDies(D)
        \/ \E a \in Actions : Handler(a) \/ Worker(a) \/ Failure(a)

Spec == Init /\ [][Next]_vars

\* A handler's goroutine and a worker's are scheduled, and calls return.
FairSpec == /\ Spec
            /\ \A a \in Actions : WF_vars(Handler(a)) /\ WF_vars(Worker(a))

--------------------------------------------------------------------------------
(***************************************************************************)
(* Properties.                                                             *)
(***************************************************************************)
\* The room's state in Redis is a Whiteboard, edited where the script runs.
Board == INSTANCE Whiteboard WITH order <- stamp
BoardSpec == Board!Spec

\* The versions that clients and the database see are those by which the board was
\* decided.  When every handler whose script ran on a cell since the keys were last
\* deleted has its reply, the cell shows the colour of the Action with the highest
\* Version, or is blank: whoever holds those Actions, in whatever order they were
\* published or saved, can tell what the board shows.
StampedOn(x) == {a \in Actions : CellOf[a] = x /\ stamp[a] > 0}
VersionsDecideBoard ==
    \A x \in Cells :
        (\A a \in StampedOn(x) : Accepted(a)) =>
            \/ StampedOn(x) = {} /\ board[x] = NoColor
            \/ \E a \in StampedOn(x) : /\ board[x] = ColorOf[a]
                                       /\ \A b \in StampedOn(x) \ {a} : ver[b] < ver[a]

\* No two Actions applied in the same life of the room's keys carry the same Version,
\* although IncrementVersion and the script advance one counter.
VersionIdentifiesAction ==
    \A a, b \in Actions :
        a # b /\ Accepted(a) /\ Accepted(b) /\ stamp[a] > 0 /\ stamp[b] > 0
            => ver[a] # ver[b]

\* Nothing is kept, broadcast, queued or saved that the board has not taken: an action
\* whose sender was told of an error never reaches the others or the database.
InSeq(a, s) == \E i \in 1 .. Len(s) : s[i] = a
OnlyAppliedSpreads ==
    \A a \in Actions :
        InSeq(a, history) \/ InSeq(a, published) \/ task[a] # "none" \/ rows[a] > 0
            => Accepted(a) /\ ver[a] > 0

\* asynq forgets a task only when its row is in the table, or when all its retries are
\* used: an error of SaveBatch, or the death of a worker, never loses a queued action.
NoTaskLost ==
    \A a \in Actions :
        /\ task[a] \in {"saved", "completed"} => rows[a] > 0
        /\ task[a] = "archived" => retries[a] = MaxRetry

\* Every action the board took and the handler was told of ends up in the database,
\* unless its server died before it was queued, it could not be queued or its task ran
\* out of retries.  Once it is queued no death of a server loses it.
AcceptedIsPersisted ==
    \A a \in Actions :
        Accepted(a) ~> \/ rows[a] > 0
                       \/ pc[a] \in {"done", "cut"} /\ task[a] = "none"
                       \/ pc[a] = "done" /\ task[a] = "archived"
================================================================================
