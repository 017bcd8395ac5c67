------------------------- MODULE ActionPipeline_proofs -------------------------
(***************************************************************************)
(* The safety of the pipeline, for any number of actions and failures.     *)
(*                                                                         *)
(* The invariant says that an Action's version is its place on the board   *)
(* (VersionsAgree) and that the counter is past every place (PlacesTaken): *)
(* the second makes every run of the script an edit of the Whiteboard, and *)
(* the two together carry what a Whiteboard promises over to the versions. *)
(***************************************************************************)
EXTENDS ActionPipeline, SequenceTheorems, TLAPS

VersionsAgree ==
    \A a \in Actions : Accepted(a) => /\ ver[a] > 0
                                      /\ stamp[a] > 0 => ver[a] = stamp[a]
PlacesTaken == \A a \in Actions : stamp[a] <= version

Inv == TypeOK /\ VersionsAgree /\ PlacesTaken

USE CellOfAssumption, ColorOfAssumption, BoundsAssumption

--------------------------------------------------------------------------------
\* Trimming keeps the last entries, at most HistoryCap, and invents none.
LEMMA TrimKeeps ==
    ASSUME NEW s \in Seq(Actions)
    PROVE  /\ Trim(s) \in Seq(Actions)
           /\ Len(Trim(s)) <= HistoryCap
           /\ \A a \in Actions : InSeq(a, Trim(s)) => InSeq(a, s)
<1>1. CASE Len(s) <= HistoryCap
  BY <1>1 DEF Trim
<1>2. CASE Len(s) > HistoryCap
  <2> DEFINE m == Len(s) - HistoryCap + 1
             t == SubSeq(s, m, Len(s))
  <2>1. m \in 1 .. Len(s) /\ Trim(s) = t
    BY <1>2 DEF Trim
  <2>2. t \in Seq(Actions) /\ Len(t) = HistoryCap
        /\ \A i \in 1 .. Len(t) : t[i] = s[m + i - 1]
    BY <2>1, <1>2, SubSeqProperties
  <2>3. \A i \in 1 .. Len(t) : m + i - 1 \in 1 .. Len(s)
    BY <2>1, <2>2
  <2> QED BY <2>1, <2>2, <2>3 DEF InSeq
<1> QED BY <1>1, <1>2

\* Appending copies of an action adds that action and nothing else.
LEMMA AppendCopies ==
    ASSUME NEW s \in Seq(Actions), NEW a \in Actions, NEW k \in 0 .. 2
    PROVE  /\ s \o Copies(a, k) \in Seq(Actions)
           /\ \A b \in Actions : InSeq(b, s \o Copies(a, k)) => b = a \/ InSeq(b, s)
<1>1. Copies(a, k) \in Seq(Actions) /\ Len(Copies(a, k)) = k
      /\ \A i \in 1 .. k : Copies(a, k)[i] = a
  BY DEF Copies
<1>2. \A i \in 1 .. Len(s \o Copies(a, k)) :
          (s \o Copies(a, k))[i] = IF i <= Len(s) THEN s[i] ELSE a
  BY <1>1, ConcatProperties
<1> QED BY <1>1, <1>2, ConcatProperties DEF InSeq
--------------------------------------------------------------------------------
\* Every step keeps the variables in their types, and the history within its bound.
LEMMA TypeOKNext == TypeOK /\ [Next]_vars => TypeOK'
<1> SUFFICES ASSUME TypeOK, [Next]_vars PROVE TypeOK'
  OBVIOUS
<1>0. Fault \/ UNCHANGED faults => faults' \in 0 .. MaxFaults
  BY DEF TypeOK, Fault
<1> USE DEF TypeOK, Goto, TaskState, Calls, Outcomes
<1>1. ASSUME NEW a \in Actions, Validate(a) PROVE TypeOK'
  BY <1>1 DEF Validate, redisVars, logVars, workerVars
<1>2. ASSUME NEW a \in Actions, IncrementVersion(a) PROVE TypeOK'
  <2>1. faults' \in 0 .. MaxFaults
    BY <1>0, <1>2 DEF IncrementVersion
  <2>2. version' \in Nat /\ ver' \in [Actions -> Nat]
        /\ pc' \in [Actions -> Calls \cup Outcomes]
    <3>1. CASE UNCHANGED <<ver, pc>>
      BY <1>2, <3>1 DEF IncrementVersion
    <3>2. CASE ver' = [ver EXCEPT ![a] = version + 1] /\ pc' = [pc EXCEPT ![a] = "apply"]
      BY <1>2, <3>2 DEF IncrementVersion
    <3> QED BY <1>2, <3>1, <3>2 DEF IncrementVersion
  <2> QED BY <1>2, <2>1, <2>2 DEF IncrementVersion, logVars, workerVars
<1>3. ASSUME NEW a \in Actions, ApplyAction(a) PROVE TypeOK'
  <2>1. board' \in [Cells -> Colors \cup {NoColor}]
    BY <1>3 DEF ApplyAction, ApplyScript
  <2>2. version' \in Nat /\ stamp' \in [Actions -> Nat] /\ ver' \in [Actions -> Nat]
    BY <1>3 DEF ApplyAction, ApplyScript, TakeVersion
  <2>3. pc' \in [Actions -> Calls \cup Outcomes]
    BY <1>3 DEF ApplyAction
  <2>4. UNCHANGED <<logVars, workerVars, faults>>
    BY <1>3 DEF ApplyAction
  <2> QED BY <2>1, <2>2, <2>3, <2>4 DEF logVars, workerVars
<1>4. ASSUME NEW a \in Actions, ApplyReplyLost(a) PROVE TypeOK'
  <2>1. board' \in [Cells -> Colors \cup {NoColor}]
    BY <1>4 DEF ApplyReplyLost, ApplyScript
  <2>2. version' \in Nat /\ stamp' \in [Actions -> Nat]
    BY <1>4 DEF ApplyReplyLost, ApplyScript
  <2>3. faults' \in 0 .. MaxFaults /\ UNCHANGED <<logVars, pc, ver, workerVars>>
    BY <1>0, <1>4 DEF ApplyReplyLost
  <2> QED BY <2>1, <2>2, <2>3 DEF logVars, workerVars
<1>5. ASSUME NEW a \in Actions, CallFails(a) PROVE TypeOK'
  BY <1>0, <1>5 DEF CallFails, GiveUp, redisVars, logVars, workerVars
<1>6. ASSUME NEW a \in Actions, PushActionToHistory(a) PROVE TypeOK'
  <2>1. PICK k \in 0 .. 2 : TimesExecuted(k) /\ history' = Trim(history \o Copies(a, k))
    BY <1>6 DEF PushActionToHistory
  <2>2. history' \in Seq(Actions) /\ Len(history') <= HistoryCap
    BY <2>1, AppendCopies, TrimKeeps
  <2>3. faults' \in 0 .. MaxFaults
    BY <1>0, <2>1 DEF TimesExecuted
  <2> QED BY <1>6, <2>2, <2>3 DEF PushActionToHistory, redisVars, workerVars
<1>7. ASSUME NEW a \in Actions, IncrementOpCount(a) PROVE TypeOK'
  <2>1. PICK k \in 0 .. 2 : TimesExecuted(k) /\ opCount' = opCount + k
    BY <1>7 DEF IncrementOpCount
  <2>2. faults' \in 0 .. MaxFaults
    BY <1>0, <2>1 DEF TimesExecuted
  <2> QED BY <1>7, <2>1, <2>2 DEF IncrementOpCount, redisVars, workerVars
<1>8. ASSUME NEW a \in Actions, PublishAction(a) PROVE TypeOK'
  <2>1. PICK k \in 0 .. 2 : TimesExecuted(k) /\ published' = published \o Copies(a, k)
    BY <1>8 DEF PublishAction
  <2>2. published' \in Seq(Actions)
    BY <2>1, AppendCopies
  <2>3. faults' \in 0 .. MaxFaults
    BY <1>0, <2>1 DEF TimesExecuted
  <2> QED BY <1>8, <2>2, <2>3 DEF PublishAction, redisVars, workerVars
<1>9. ASSUME NEW a \in Actions, EnqueueTask(a) PROVE TypeOK'
  <2>1. faults' \in 0 .. MaxFaults
    BY <1>0, <1>9 DEF EnqueueTask
  <2>2. task' = task \/ task' = [task EXCEPT ![a] = "pending"]
    BY <1>9 DEF EnqueueTask
  <2> QED BY <1>9, <2>1, <2>2 DEF EnqueueTask, redisVars, logVars
<1>10. ASSUME NEW a \in Actions, Worker(a) PROVE TypeOK'
  <2>1. CASE TakeTask(a)
    BY <2>1 DEF TakeTask, redisVars, logVars
  <2>2. CASE SaveBatch(a)
    BY <2>2 DEF SaveBatch, redisVars, logVars
  <2>3. CASE CompleteTask(a)
    BY <2>3 DEF CompleteTask, redisVars, logVars
  <2> QED BY <1>10, <2>1, <2>2, <2>3 DEF Worker
<1>11. ASSUME NEW a \in Actions, TaskFails(a) \/ ShutdownRequeues(a) PROVE TypeOK'
  <2>1. faults' \in 0 .. MaxFaults
    BY <1>0, <1>11 DEF TaskFails, ShutdownRequeues, Interrupt
  <2>2. task' \in [Actions -> TaskState] /\ retries' \in [Actions -> 0 .. MaxRetry]
    <3>1. CASE TaskFails(a) /\ retries[a] < MaxRetry
      <4>1. task' = [task EXCEPT ![a] = "pending"] /\ retries' = [retries EXCEPT ![a] = @ + 1]
        BY <3>1 DEF TaskFails, Retry
      <4>2. retries[a] + 1 \in 0 .. MaxRetry
        BY <3>1
      <4> QED BY <4>1, <4>2
    <3>2. CASE TaskFails(a) /\ ~(retries[a] < MaxRetry)
      BY <3>2 DEF TaskFails, Retry
    <3>3. CASE ShutdownRequeues(a)
      BY <3>3 DEF ShutdownRequeues
    <3> QED BY <1>11, <3>1, <3>2, <3>3
  <2>3. rows' = rows \/ rows' = [rows EXCEPT ![a] = @ + 1]
    BY <1>11 DEF TaskFails, ShutdownRequeues, Interrupt
  <2>4. rows' \in [Actions -> Nat]
    <3>1. [rows EXCEPT ![a] = @ + 1] \in [Actions -> Nat]
      OBVIOUS
    <3> QED BY <2>3, <3>1
  <2>5. UNCHANGED <<redisVars, logVars, pc, ver>>
    BY <1>11 DEF TaskFails, ShutdownRequeues, Interrupt
  <2> QED BY <2>1, <2>2, <2>4, <2>5 DEF redisVars, logVars
<1>12. CASE CleanupRoomState
  <2>1. history' \in Seq(Actions) /\ Len(history') = 0
    BY <1>12 DEF CleanupRoomState
  <2> QED BY <1>0, <1>12, <2>1 DEF CleanupRoomState, Blank, NoStamp, workerVars
<1>13. ASSUME NEW D \in SUBSET Actions, ServerDies(D) PROVE TypeOK'
  BY <1>0, <1>13 DEF ServerDies, redisVars, logVars, workerVars
<1>14. CASE UNCHANGED vars
  BY <1>14 DEF vars, redisVars, logVars, workerVars
<1> QED
  BY <1>1, <1>2, <1>3, <1>4, <1>5, <1>6, <1>7, <1>8, <1>9, <1>10, <1>11, <1>12, <1>13, <1>14
     DEF Next, Handler, Failure

--------------------------------------------------------------------------------
LEMMA InitInv == Init => Inv
  BY DEF Init, Inv, TypeOK, VersionsAgree, PlacesTaken, Accepted, Blank, NoStamp, Calls,
         Outcomes, TaskState

\* Only the script places an action, after all others, and its reply gives the handler
\* that very place; afterwards nothing moves either but the deletion of the keys.
LEMMA NextInv == Inv /\ [Next]_vars => Inv'
<1> SUFFICES ASSUME Inv, [Next]_vars PROVE VersionsAgree' /\ PlacesTaken'
  BY TypeOKNext DEF Inv
<1> USE DEF Inv, TypeOK, VersionsAgree, PlacesTaken, Accepted, Goto
<1>1. ASSUME NEW a \in Actions, Validate(a) PROVE VersionsAgree' /\ PlacesTaken'
  BY <1>1 DEF Validate, redisVars
<1>2. ASSUME NEW a \in Actions, IncrementVersion(a) PROVE VersionsAgree' /\ PlacesTaken'
  <2>1. \A b \in Actions : Accepted(b)' => Accepted(b) /\ ver'[b] = ver[b]
    BY <1>2 DEF IncrementVersion
  <2>2. stamp' = stamp /\ version' = version + 1
    BY <1>2 DEF IncrementVersion
  <2>3. VersionsAgree'
    BY <2>1, <2>2
  <2>4. PlacesTaken'
    BY <2>2
  <2> QED BY <2>3, <2>4
<1>3. ASSUME NEW a \in Actions, ApplyAction(a) PROVE VersionsAgree' /\ PlacesTaken'
  <2>1. /\ version' = version + 1
        /\ stamp' = [stamp EXCEPT ![a] = version + 1]
        /\ ver' = [ver EXCEPT ![a] = version + 1]
    BY <1>3 DEF ApplyAction, ApplyScript, TakeVersion
  <2>2. \A b \in Actions \ {a} : Accepted(b)' => Accepted(b)
    BY <1>3 DEF ApplyAction
  <2>3. VersionsAgree'
    BY <2>1, <2>2
  <2>4. PlacesTaken'
    BY <2>1
  <2> QED BY <2>3, <2>4
<1>4. ASSUME NEW a \in Actions, ApplyReplyLost(a) PROVE VersionsAgree' /\ PlacesTaken'
  <2>1. /\ stamp' = [stamp EXCEPT ![a] = version + 1] /\ version' = version + 1
        /\ pc' = pc /\ ver' = ver /\ ~Accepted(a)
    BY <1>4 DEF ApplyReplyLost, ApplyScript
  <2>2. VersionsAgree'
    BY <2>1
  <2>3. PlacesTaken'
    BY <2>1
  <2> QED BY <2>2, <2>3
<1>5. ASSUME NEW a \in Actions, CallFails(a) PROVE VersionsAgree' /\ PlacesTaken'
  BY <1>5 DEF CallFails, GiveUp, redisVars
<1>6. ASSUME NEW a \in Actions,
             PushActionToHistory(a) \/ IncrementOpCount(a) \/ PublishAction(a)
               \/ EnqueueTask(a)
      PROVE  VersionsAgree' /\ PlacesTaken'
  BY <1>6 DEF PushActionToHistory, IncrementOpCount, PublishAction, EnqueueTask, redisVars
<1>7. ASSUME NEW a \in Actions, Worker(a) \/ TaskFails(a) \/ ShutdownRequeues(a)
      PROVE  VersionsAgree' /\ PlacesTaken'
  BY <1>7 DEF Worker, TakeTask, SaveBatch, CompleteTask, TaskFails, ShutdownRequeues,
              Interrupt, redisVars
<1>8. CASE CleanupRoomState
  BY <1>8 DEF CleanupRoomState, NoStamp
<1>9. ASSUME NEW D \in SUBSET Actions, ServerDies(D) PROVE VersionsAgree' /\ PlacesTaken'
  <2>1. \A b \in Actions : Accepted(b)' => Accepted(b)
    BY <1>9 DEF ServerDies
  <2> QED BY <1>9, <2>1 DEF ServerDies, redisVars
<1>10. CASE UNCHANGED vars
  BY <1>10 DEF vars, redisVars
<1> QED
  BY <1>1, <1>2, <1>3, <1>4, <1>5, <1>6, <1>7, <1>8, <1>9, <1>10 DEF Next, Handler, Failure

\* The inductive invariant holds: types, the agreement of the versions handlers hold with
\* those Redis gave, and that places are taken once.
THEOREM Invariance == Spec => []Inv
  BY InitInv, NextInv, PTL DEF Spec

\* The variables keep their types; the history list never outgrows its cap.
THEOREM TypeCorrect == Spec => []TypeOK
  BY Invariance, PTL DEF Inv

--------------------------------------------------------------------------------
(***************************************************************************)
(* The pipeline implements a Whiteboard.                                   *)
(***************************************************************************)
\* Each run of the script takes a place after all others and paints its cell.
LEMMA ScriptEdits == ASSUME Inv, NEW a \in Actions, ApplyScript(a) PROVE Board!Edit(a)
<1> USE DEF Inv, TypeOK, PlacesTaken, ApplyScript
<1>1. stamp' \in [Actions -> Nat] /\ stamp'[a] = version + 1
  OBVIOUS
<1>2. \A b \in Actions : stamp'[a] > stamp[b]
  BY <1>1
<1> QED BY <1>1, <1>2 DEF Board!Edit

LEMMA NextRefines == Inv /\ [Next]_vars => [Board!Next]_<<board, stamp>>
<1> SUFFICES ASSUME Inv, [Next]_vars, ~UNCHANGED <<board, stamp>> PROVE Board!Next
  OBVIOUS
<1>1. ASSUME NEW a \in Actions, Handler(a) \/ Failure(a) PROVE ApplyScript(a)
  BY <1>1 DEF Handler, Failure, Validate, IncrementVersion, ApplyAction, PushActionToHistory,
              IncrementOpCount, PublishAction, EnqueueTask, ApplyReplyLost, CallFails,
              TaskFails, ShutdownRequeues, Interrupt, redisVars
<1>2. ASSUME NEW a \in Actions, Worker(a) PROVE FALSE
  BY <1>2 DEF Worker, TakeTask, SaveBatch, CompleteTask, redisVars
<1>3. CASE CleanupRoomState
  BY <1>3 DEF CleanupRoomState, Blank, NoStamp, Board!Next, Board!Wipe, Board!Blank,
              Board!Unplaced
<1>4. ASSUME NEW D \in SUBSET Actions, ServerDies(D) PROVE FALSE
  BY <1>4 DEF ServerDies, redisVars
<1> QED BY <1>1, <1>2, <1>3, <1>4, ScriptEdits DEF Next, Board!Next, vars, redisVars

\* The room's state in Redis is a Whiteboard: whatever handlers, lost replies, retries and
\* cleanups do, every change of the board is one edit, placed after all others, or a wipe.
THEOREM ImplementsWhiteboard == Spec => BoardSpec
<1>1. Init => Board!Init
  BY DEF Init, Board!Init, Blank, NoStamp, Board!Blank, Board!Unplaced
<1> QED BY <1>1, NextRefines, Invariance, PTL DEF Spec, BoardSpec, Board!Spec

BoardProofs == INSTANCE Whiteboard_proofs WITH order <- stamp

\* What every Whiteboard promises, this one does.
LEMMA BoardCorrect == Spec => []BoardProofs!Inv
<1>1. BoardSpec => BoardProofs!Spec
  BY DEF BoardSpec, Board!Spec, BoardProofs!Spec, Board!Init, BoardProofs!Init, Board!Next,
         BoardProofs!Next, Board!Wipe, BoardProofs!Wipe, Board!Edit, BoardProofs!Edit,
         Board!Blank, BoardProofs!Blank, Board!Unplaced, BoardProofs!Unplaced
<1> QED BY <1>1, ImplementsWhiteboard, BoardProofs!WhiteboardCorrect, PTL

\* No two Actions of one life of the room's keys carry the same version: an Action that
\* was applied and not wiped carries its place, and places are not shared.
THEOREM VersionsIdentify == Spec => []VersionIdentifiesAction
<1>1. Inv /\ BoardProofs!Inv => VersionIdentifiesAction
  BY DEF Inv, VersionsAgree, BoardProofs!Inv, BoardProofs!OrderIsStrict,
         VersionIdentifiesAction
<1> QED BY <1>1, Invariance, BoardCorrect, PTL

\* The versions that clients and the database see are those by which the board was
\* decided, once the handlers of a cell have their replies.
THEOREM VersionsDecide == Spec => []VersionsDecideBoard
<1>1. ASSUME Inv, BoardProofs!Inv PROVE VersionsDecideBoard
  <2> SUFFICES ASSUME NEW x \in Cells, \A a \in StampedOn(x) : Accepted(a)
               PROVE  \/ StampedOn(x) = {} /\ board[x] = NoColor
                      \/ \E a \in StampedOn(x) :
                            /\ board[x] = ColorOf[a]
                            /\ \A b \in StampedOn(x) \ {a} : ver[b] < ver[a]
    BY DEF VersionsDecideBoard
  <2>1. StampedOn(x) = BoardProofs!EditsOf(x)
    BY DEF StampedOn, BoardProofs!EditsOf
  <2>2. \A a \in StampedOn(x) : ver[a] = stamp[a]
    BY <1>1 DEF Inv, VersionsAgree, StampedOn
  <2>3. CASE StampedOn(x) = {} /\ board[x] = NoColor
    BY <2>3
  <2>4. CASE \E a \in StampedOn(x) :
                /\ \A b \in StampedOn(x) : stamp[b] <= stamp[a]
                /\ board[x] = ColorOf[a]
    <3>1. PICK a \in StampedOn(x) : /\ \A b \in StampedOn(x) : stamp[b] <= stamp[a]
                                    /\ board[x] = ColorOf[a]
      BY <2>4
    <3>2. ASSUME NEW b \in StampedOn(x) \ {a} PROVE ver[b] < ver[a]
      <4>1. stamp[b] # stamp[a]
        BY <1>1 DEF BoardProofs!Inv, BoardProofs!OrderIsStrict, StampedOn
      <4> QED BY <1>1, <2>2, <3>1, <4>1 DEF Inv, TypeOK, StampedOn
    <3> QED BY <3>1, <3>2
  <2> QED BY <1>1, <2>1, <2>3, <2>4 DEF BoardProofs!Inv, BoardProofs!LastWriterWins
<1> QED BY <1>1, Invariance, BoardCorrect, PTL

--------------------------------------------------------------------------------
(***************************************************************************)
(* What leaves the handler, and what happens to its task.                  *)
(***************************************************************************)
SpreadIsAccepted ==
    \A a \in Actions :
        InSeq(a, history) \/ InSeq(a, published) \/ task[a] # "none" \/ rows[a] > 0
            => Accepted(a)

SpreadInv == Inv /\ SpreadIsAccepted

LEMMA SpreadNext == SpreadInv /\ [Next]_vars => SpreadInv'
<1> SUFFICES ASSUME SpreadInv, [Next]_vars PROVE SpreadIsAccepted'
  BY NextInv DEF SpreadInv
<1> USE DEF SpreadInv, SpreadIsAccepted
<1>1. \A a \in Actions : Accepted(a) => Accepted(a)'
  <2> USE DEF Inv, TypeOK, Accepted, Goto
  <2>1. ASSUME NEW b \in Actions, Validate(b) \/ IncrementVersion(b) \/ CallFails(b)
        PROVE  pc[b] \in {"received", "increment", "apply"}
               /\ \A a \in Actions \ {b} : pc'[a] = pc[a]
    BY <2>1 DEF Validate, IncrementVersion, CallFails, GiveUp
  <2>2. ASSUME NEW b \in Actions,
               ApplyAction(b) \/ PushActionToHistory(b) \/ IncrementOpCount(b)
                 \/ PublishAction(b) \/ EnqueueTask(b)
        PROVE  pc'[b] \in {"history", "opcount", "publish", "enqueue", "done", "cut"}
               /\ \A a \in Actions \ {b} : pc'[a] = pc[a]
    BY <2>2 DEF ApplyAction, PushActionToHistory, IncrementOpCount, PublishAction,
                EnqueueTask
  <2>3. ASSUME NEW b \in Actions,
               Worker(b) \/ ApplyReplyLost(b) \/ TaskFails(b) \/ ShutdownRequeues(b)
        PROVE  pc' = pc
    BY <2>3 DEF Worker, TakeTask, SaveBatch, CompleteTask, ApplyReplyLost, TaskFails,
                ShutdownRequeues, Interrupt
  <2>4. CleanupRoomState \/ UNCHANGED vars => pc' = pc
    BY DEF CleanupRoomState, vars
  <2>5. ASSUME NEW D \in SUBSET Actions, ServerDies(D)
        PROVE  \A a \in Actions : Accepted(a) => Accepted(a)'
    BY <2>5 DEF ServerDies
  <2> QED BY <2>1, <2>2, <2>3, <2>4, <2>5 DEF Next, Handler, Failure
<1>2. ASSUME NEW a \in Actions, InSeq(a, history'), ~InSeq(a, history) PROVE Accepted(a)'
  <2>1. PICK b \in Actions : PushActionToHistory(b)
    BY <1>2 DEF Next, Handler, Worker, Failure, Validate, IncrementVersion, ApplyAction,
                IncrementOpCount, PublishAction, EnqueueTask, TakeTask, SaveBatch,
                CompleteTask, ApplyReplyLost, CallFails, TaskFails, ShutdownRequeues,
                Interrupt, CleanupRoomState, ServerDies, vars, logVars, InSeq
  <2>2. PICK k \in 0 .. 2 : history' = Trim(history \o Copies(b, k))
    BY <2>1 DEF PushActionToHistory
  <2>3. InSeq(a, history \o Copies(b, k))
    BY <1>2, <2>2, AppendCopies, TrimKeeps DEF Inv, TypeOK
  <2>4. a = b
    BY <1>2, <2>3, AppendCopies DEF Inv, TypeOK
  <2> QED BY <1>1, <2>1, <2>4 DEF PushActionToHistory, Accepted
<1>3. ASSUME NEW a \in Actions, InSeq(a, published'), ~InSeq(a, published)
      PROVE  Accepted(a)'
  <2>1. PICK b \in Actions : PublishAction(b)
    BY <1>3 DEF Next, Handler, Worker, Failure, Validate, IncrementVersion, ApplyAction,
                IncrementOpCount, PushActionToHistory, EnqueueTask, TakeTask, SaveBatch,
                CompleteTask, ApplyReplyLost, CallFails, TaskFails, ShutdownRequeues,
                Interrupt, CleanupRoomState, ServerDies, vars, logVars, InSeq
  <2>2. PICK k \in 0 .. 2 : published' = published \o Copies(b, k)
    BY <2>1 DEF PublishAction
  <2>3. a = b
    BY <1>3, <2>2, AppendCopies DEF Inv, TypeOK
  <2> QED BY <1>1, <2>1, <2>3 DEF PublishAction, Accepted
<1>4. ASSUME NEW a \in Actions, task'[a] # "none", task[a] = "none" PROVE Accepted(a)'
  <2>1. EnqueueTask(a)
    BY <1>4 DEF Inv, TypeOK, Next, Handler, Worker, Failure, Validate, IncrementVersion,
                ApplyAction, IncrementOpCount, PushActionToHistory, PublishAction,
                EnqueueTask, TakeTask, SaveBatch, CompleteTask, ApplyReplyLost, CallFails,
                TaskFails, ShutdownRequeues, Interrupt, Retry, CleanupRoomState, ServerDies,
                vars, workerVars
  <2> QED BY <1>1, <2>1 DEF EnqueueTask, Accepted
<1>5. ASSUME NEW a \in Actions, rows'[a] > 0, ~(rows[a] > 0) PROVE Accepted(a)'
  <2>1. PICK b \in Actions : SaveBatch(b) \/ TaskFails(b) \/ ShutdownRequeues(b)
    BY <1>5 DEF Next, Handler, Worker, Failure, Validate, IncrementVersion, ApplyAction,
                IncrementOpCount, PushActionToHistory, PublishAction, EnqueueTask, TakeTask,
                CompleteTask, ApplyReplyLost, CallFails, CleanupRoomState, ServerDies, vars,
                workerVars
  <2>2. task[b] \in {"active", "saved"} /\ (rows' = rows \/ rows' = [rows EXCEPT ![b] = @ + 1])
    BY <2>1 DEF SaveBatch, TaskFails, ShutdownRequeues, Interrupt
  <2>3. a = b
    BY <1>5, <2>2 DEF Inv, TypeOK
  <2> QED BY <1>1, <2>2, <2>3
<1> QED BY <1>1, <1>2, <1>3, <1>4, <1>5

\* Nothing is kept, broadcast, queued or saved that the board has not taken.
THEOREM OnlyAppliedIsSpread == Spec => []OnlyAppliedSpreads
<1>1. Init => SpreadInv
  BY InitInv DEF Init, SpreadInv, SpreadIsAccepted, InSeq
<1>2. SpreadInv => OnlyAppliedSpreads
  BY DEF SpreadInv, SpreadIsAccepted, Inv, VersionsAgree, OnlyAppliedSpreads
<1> QED BY <1>1, <1>2, SpreadNext, PTL DEF Spec

LEMMA TaskNext == TypeOK /\ NoTaskLost /\ [Next]_vars => NoTaskLost'
<1> SUFFICES ASSUME TypeOK, NoTaskLost, [Next]_vars PROVE NoTaskLost'
  OBVIOUS
<1> USE DEF TypeOK, NoTaskLost
<1>1. ASSUME NEW a \in Actions, EnqueueTask(a) PROVE NoTaskLost'
  BY <1>1 DEF EnqueueTask
<1>2. ASSUME NEW a \in Actions, TakeTask(a) PROVE NoTaskLost'
  BY <1>2 DEF TakeTask
<1>3. ASSUME NEW a \in Actions, SaveBatch(a) PROVE NoTaskLost'
  BY <1>3 DEF SaveBatch
<1>4. ASSUME NEW a \in Actions, CompleteTask(a) PROVE NoTaskLost'
  BY <1>4 DEF CompleteTask
<1>5. ASSUME NEW a \in Actions, TaskFails(a) \/ ShutdownRequeues(a) PROVE NoTaskLost'
  <2>0. rows' = rows \/ rows' = [rows EXCEPT ![a] = rows[a] + 1]
    BY <1>5 DEF TaskFails, ShutdownRequeues, Interrupt
  <2>1. \A b \in Actions : rows[b] > 0 => rows'[b] > 0
    <3>1. CASE rows' = [rows EXCEPT ![a] = rows[a] + 1]
      BY <3>1
    <3> QED BY <2>0, <3>1
  <2>2. CASE TaskFails(a) /\ retries[a] < MaxRetry
    BY <2>1, <2>2 DEF TaskFails, Retry
  <2>3. CASE TaskFails(a) /\ ~(retries[a] < MaxRetry)
    BY <2>1, <2>3 DEF TaskFails, Retry
  <2>4. CASE ShutdownRequeues(a)
    BY <2>1, <2>4 DEF ShutdownRequeues
  <2> QED BY <1>5, <2>2, <2>3, <2>4
<1>6. CASE UNCHANGED workerVars
  BY <1>6 DEF workerVars
<1> QED
  BY <1>1, <1>2, <1>3, <1>4, <1>5, <1>6
     DEF Next, Handler, Worker, Failure, Validate, IncrementVersion, ApplyAction,
         PushActionToHistory, IncrementOpCount, PublishAction, ApplyReplyLost, CallFails,
         CleanupRoomState, ServerDies, vars, workerVars

\* asynq forgets a task only when its row is saved or its retries are used.
THEOREM TasksAreNotLost == Spec => []NoTaskLost
<1>1. Init => NoTaskLost
  BY DEF Init, NoTaskLost
<1> QED BY <1>1, TaskNext, TypeCorrect, PTL DEF Spec
================================================================================
