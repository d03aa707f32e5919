-------------------------- MODULE HelperSessionProofs --------------------------
(***************************************************************************)
(* Proofs about HelperSession, for any number of run requests and any size *)
(* of the child's pipe.  The inductive invariant is TypeInv, ChildInv,     *)
(* StopInv and EventInv together, and each is preserved action by action:  *)
(* what a step does to a child, or to the output, is stated once and cited *)
(* wherever an action takes that step.                                     *)
(***************************************************************************)
EXTENDS HelperSession, FiniteSetTheorems, TLAPS

\* The worker has a child, alive or unreaped.
Serving == {"publishing", "announcing", "reading", "forwarding", "unwinding", "stopping", "waiting"}

-----------------------------------------------------------------------------
(* The inductive invariant.                                                *)

\* A request that is being started or served has a number.
Named == /\ reader = "joining" => target # 0
         /\ worker # "none" => job # 0
TypeInv == TypeOK /\ Named

\* A child that is not reaped is the worker's.
ChildOfJob == \A r \in Runs : KillReaches(r) => worker \in Serving /\ job = r

\* A request not yet served has no child, and requests are served in order.
Unserved == /\ job <= runsRead
            /\ \A r \in Runs : r > runsRead => child[r].state = "none"
            /\ reader = "joining" => target = runsRead /\ target # job /\ child[target].state = "none"
            /\ worker = "starting" => child[job].state = "none"
            /\ reader = "exited" => worker = "none"

\* The slot is taken exactly while the worker has not given it up, and names
\* its request and its child.
SlotOfJob == /\ shared.running <=> worker \notin {"none", "finishing"}
             /\ shared.running => shared.id = job
             /\ shared.pid # 0 => /\ shared.running /\ shared.pid = job
                                  /\ worker \notin {"starting", "publishing"}
                                  /\ child[job].state # "none"
             /\ worker = "publishing" => child[job].state # "none"
ChildInv == ChildOfJob /\ Unserved /\ SlotOfJob

\* The worker may have read a line; the session is coming to its end.
OutputStates == {"reading", "forwarding", "unwinding", "stopping", "waiting", "clearing"}
Ending == failed \/ reader \in {"draining", "drainSignal", "exiting", "exited"}

\* What is known of the child's handler: an engine that has written a line
\* is past its start.
HandlerKnown == /\ worker \in Serving => child[job].engine = shared.waits
                /\ \A r \in Runs : child[r].writing => child[r].state # "starting"
                /\ pipe.lines > 0 => job # 0 /\ child[job].state # "starting"
                /\ shared.hasOutput =>
                      /\ worker \in OutputStates
                      /\ child[job].state # "starting"

\* A signal that is still to be sent is not fatal to an engine, unless the
\* session is lost.
SignalsSafe == /\ queuedStop => \/ worker = "announcing" /\ ~ shared.waits
                                \/ worker = "forwarding" /\ shared.hasOutput
               /\ worker \in {"unwinding", "stopping"} => failed
               /\ reader = "signalling" => /\ target # 0 /\ child[target].state # "none"
                                           /\ child[target].engine => child[target].state # "starting"
StopInv == HandlerKnown /\ SignalsSafe /\ StopWaitsForHandler

\* Which events may still come.
Announced == worker \notin {"none", "starting", "publishing", "announcing"}
EventsDue == /\ failed => closed
             /\ \A i \in DOMAIN log : log[i][2] <= runsRead
             /\ reader = "joining" => \A i \in DOMAIN log : log[i][2] # target
             /\ worker # "none" => \A i \in DOMAIN log : log[i] # <<"finished", job>>
             /\ worker \in {"starting", "publishing", "announcing"}
                   => \A i \in DOMAIN log : log[i] # <<"started", job>>
             /\ ~ closed => \A i \in DOMAIN log : log[i][1] = "started" =>
                   \/ Announced /\ log[i][2] = job
                   \/ \E k \in i..Len(log) : log[k] = <<"finished", log[i][2]>>
EventInv == EventsDue /\ EventOrder

-----------------------------------------------------------------------------
(* What a step does to a child.                                            *)

\* d is c later on, not yet reaped: it has the same program, and only an
\* engine that has not left its start is killed by a signal.
Ages(c, d) == /\ d.engine = c.engine
              /\ d.state = "none" <=> c.state = "none"
              /\ d.state = "reaped" <=> c.state = "reaped"
              /\ d.state = "starting" => c.state = "starting"

\* A SIGINT only makes a child older.
LEMMA InterruptAges ==
  ASSUME NEW c \in Children
  PROVE  /\ Interrupt(c) \in Children
         /\ Ages(c, Interrupt(c))
         /\ Interrupt(c).writing = c.writing
         /\ Interrupt(c).end = "interrupted" =>
               c.end = "interrupted" \/ ~ c.engine \/ c.state = "starting"
BY DEF Interrupt, Children, Ages, Alive, Handles, Dead

\* A child changes, and none but the given one.
LEMMA KillAges ==
  ASSUME TypeOK, NEW r, Kill(r)
  PROVE  /\ child' \in [Runs -> Children]
         /\ \A q \in Runs : /\ Ages(child[q], child'[q])
                            /\ child'[q].writing = child[q].writing
                            /\ q # r => child'[q] = child[q]
         /\ \A q \in Runs : child'[q].end = "interrupted" =>
               \/ child[q].end = "interrupted"
               \/ q = r /\ (~ child[q].engine \/ child[q].state = "starting")
<1>1. \A q \in Runs : child[q] \in Children
  BY DEF TypeOK
<1>2. \A q \in Runs : child'[q] = IF q = r THEN Interrupt(child[q]) ELSE child[q]
  BY DEF TypeOK, Kill
<1>3. child' \in [Runs -> Children]
  BY <1>1, <1>2, InterruptAges DEF TypeOK, Kill
<1>4. \A q \in Runs : Ages(child[q], child[q])
  BY DEF Ages
<1>. QED BY <1>1, <1>2, <1>3, <1>4, InterruptAges

\* A step of a child leaves it a child and the pipe a pipe.
LEMMA ChildTypes ==
  ASSUME TypeOK, NEW r \in Runs, ChildStep(r)
  PROVE  /\ child' \in [Runs -> Children]
         /\ pipe' \in [lines : 0..PipeLines, open : BOOLEAN]
         /\ \A q \in Runs : Ages(child[q], child'[q]) /\ (q # r => child'[q] = child[q])
         /\ child'[r].end = "interrupted" => child[r].end = "interrupted"
         /\ child'[r].writing => child[r].writing \/ child'[r].state # "starting"
         /\ pipe'.lines > 0 => pipe.lines > 0 \/ child[r].writing
         /\ KillReaches(r)
         /\ UNCHANGED <<readerVars, workerVars, shared, closed, output, promised>>
<1>. USE DEF ChildOnly, Becomes, TypeOK, Children, Ages, KillReaches
<1>1. CASE InstallHandler(r)
  BY <1>1 DEF InstallHandler
<1>2. CASE BeginWrite(r)
  BY <1>2 DEF BeginWrite
<1>3. CASE FinishWrite(r)
  <2>1. CASE pipe.open /\ PipeHasRoom
    <3>1. child[r] \in Children /\ child[r].state \in {"starting", "running", "commit"} /\ child[r].writing
      BY <1>3 DEF FinishWrite, Alive
    <3>2. pipe' = [pipe EXCEPT !.lines = @ + 1] /\ pipe.lines + 1 \in 0..PipeLines
      <4>1. pipe.lines \in 0..PipeLines /\ pipe.lines < PipeLines
        BY <2>1 DEF PipeHasRoom
      <4>2. pipe.lines + 1 \in 0..PipeLines
        <5>. HIDE DEF ChildOnly, Becomes, TypeOK, Children, Ages, KillReaches
        <5>1. \A n \in 0..PipeLines : n < PipeLines => n + 1 \in 0..PipeLines
          BY Bounds
        <5>. QED BY <4>1, <5>1
      <4>3. pipe' = [pipe EXCEPT !.lines = @ + 1]
        BY <1>3, <2>1 DEF FinishWrite
      <4>. QED BY <4>2, <4>3
    <3>3. /\ child' = [child EXCEPT ![r] = [child[r] EXCEPT !.writing = FALSE, !.silent = FALSE]]
          /\ UNCHANGED <<readerVars, workerVars, shared, closed, output, promised>>
      BY <1>3, <2>1 DEF FinishWrite
    <3>4. pipe' \in [lines : 0..PipeLines, open : BOOLEAN]
      BY <3>2
    <3>5. child' \in [Runs -> Children]
      BY <3>1, <3>3
    <3>6. Ages(child[r], child'[r]) /\ ~ child'[r].writing /\ child'[r].end = child[r].end
      <4>1. \A c \in Children :
               LET d == [c EXCEPT !.writing = FALSE, !.silent = FALSE]
               IN d.engine = c.engine /\ d.state = c.state /\ ~ d.writing /\ d.end = c.end
        OBVIOUS
      <4>2. child'[r] = [child[r] EXCEPT !.writing = FALSE, !.silent = FALSE]
        BY <3>3
      <4>. QED BY <3>1, <4>1, <4>2
    <3>7. \A q \in Runs : Ages(child[q], child'[q]) /\ (q # r => child'[q] = child[q])
      <4>1. \A q \in Runs : q # r => child'[q] = child[q]
        BY <3>3
      <4>. QED BY <4>1, <3>6
    <3>8. KillReaches(r)
      BY <3>1
    <3>. HIDE DEF ChildOnly, Becomes, TypeOK, Children, Ages, KillReaches
    <3>. QED BY <3>1, <3>3, <3>4, <3>5, <3>6, <3>7, <3>8
  <2>2. CASE ~ pipe.open
    <3>1. child[r] \in Children /\ child[r].state \in {"starting", "running", "commit"} /\ child[r].writing
      BY <1>3 DEF FinishWrite, Alive
    <3>2. PICK how \in {"torn", "cut"} :
             /\ child' = [child EXCEPT ![r] = [child[r] EXCEPT !.state = "zombie", !.end = how]]
             /\ UNCHANGED <<pipe, readerVars, workerVars, shared, closed, output, promised>>
      BY <1>3, <2>2 DEF FinishWrite, Dead
    <3>. QED BY <3>1, <3>2
  <2>. QED BY <1>3, <2>1, <2>2 DEF FinishWrite
<1>4. CASE BeginCommit(r)
  BY <1>4 DEF BeginCommit
<1>5. CASE EndCommit(r)
  BY <1>5 DEF EndCommit
<1>6. CASE Exit(r)
  BY <1>6 DEF Exit, Dead
<1>. QED BY <1>1, <1>2, <1>3, <1>4, <1>5, <1>6 DEF ChildStep

\* An event the GUI receives is the last of the log.
Events == {"started", "finished"} \X Runs
\* What an emit does to the GUI's log and to the broken output.
LEMMA EmitAppends ==
  ASSUME TypeOK, NEW kind \in {"started", "finished"}, NEW r \in Runs, Emit(<<kind, r>>)
  PROVE  /\ log' \in Seq(Events)
         /\ failed' = (failed \/ closed)
         /\ Delivers => /\ Len(log') = Len(log) + 1
                        /\ \A i \in 1..Len(log) : log'[i] = log[i]
                        /\ log'[Len(log')] = <<kind, r>>
         /\ ~ Delivers => log' = log
<1>1. log \in Seq(Events) /\ <<kind, r>> \in Events
  BY DEF TypeOK, Events
<1>. HIDE DEF Events
<1>. QED BY <1>1 DEF Emit

\* A new child is in its start and has done nothing.
LEMMA SpawnBirth ==
  ASSUME TypeInv, Spawn
  PROVE  /\ job \in Runs
         /\ child' \in [Runs -> Children]
         /\ \A q \in Runs : q # job => child'[q] = child[q]
         /\ child'[job].state = "starting" /\ child'[job].engine = shared.waits
         /\ ~ child'[job].writing /\ child'[job].end = ""
<1>1. job \in Runs
  BY DEF TypeInv, TypeOK, Named, Spawn, Runs
<1>2. shared.waits \in BOOLEAN /\ child \in [Runs -> Children]
  BY DEF TypeInv, TypeOK
<1>3. \A c \in Children, waits \in BOOLEAN :
         LET born == [c EXCEPT !.state = "starting", !.engine = waits]
         IN /\ born \in Children /\ born.state = "starting" /\ born.engine = waits
            /\ born.writing = c.writing /\ born.end = c.end
  BY DEF Children
<1>4. Unborn \in Children /\ ~ Unborn.writing /\ Unborn.end = ""
  BY DEF Unborn, Children
<1>. DEFINE born == [Unborn EXCEPT !.state = "starting", !.engine = shared.waits]
<1>5. child' = [child EXCEPT ![job] = born]
  BY DEF Spawn, Becomes
<1>6. /\ born \in Children /\ born.state = "starting" /\ born.engine = shared.waits
      /\ ~ born.writing /\ born.end = ""
  BY <1>2, <1>3, <1>4
<1>. HIDE DEF born
<1>. QED BY <1>1, <1>2, <1>5, <1>6

-----------------------------------------------------------------------------
(* Types.                                                                  *)

\* The session's state is always well-formed.
LEMMA TypeInvHolds == Spec => []TypeInv
<1>1. Init => TypeInv
  <2>. SUFFICES ASSUME Init PROVE TypeInv
    OBVIOUS
  <2>1. child \in [Runs -> Children]
    BY DEF Init, Children, Unborn
  <2>2. log \in Seq({"started", "finished"} \X Runs)
    BY DEF Init
  <2>3. shared \in [running : BOOLEAN, pid : 0..MaxRuns, id : 0..MaxRuns,
                    hasOutput : BOOLEAN, waits : BOOLEAN, pending : BOOLEAN]
    BY Bounds DEF Init, Idle
  <2>4. pipe \in [lines : 0..PipeLines, open : BOOLEAN]
    BY Bounds DEF Init
  <2>5. 0 \in 0..MaxRuns
    BY Bounds
  <2>. QED BY <2>1, <2>2, <2>3, <2>4, <2>5 DEF Init, TypeInv, TypeOK, Named, ReaderStates, WorkerStates
<1>2. TypeInv /\ [Next]_vars => TypeInv'
  <2>. SUFFICES ASSUME TypeInv, [Next]_vars PROVE TypeInv'
    OBVIOUS
  <2>. USE Bounds DEF TypeInv, TypeOK, Named, Runs, ReaderStates, WorkerStates
  <2>1. CASE ReadRun
    <3>1. runsRead' \in Runs /\ runsRead' \in 0..MaxRuns
      BY <2>1 DEF ReadRun
    <3>2. CASE Emit(<<"finished", runsRead'>>) /\ NextRequest /\ UNCHANGED target
      BY <2>1, <3>1, <3>2, EmitAppends DEF ReadRun, NextRequest, workerVars, Events
    <3>3. CASE ~ Busy /\ target' = runsRead' /\ reader' = "joining" /\ UNCHANGED output
      BY <2>1, <3>1, <3>3 DEF ReadRun, workerVars, output
    <3>. QED BY <2>1, <3>2, <3>3 DEF ReadRun
  <2>2. CASE ReadStop
    BY <2>2 DEF ReadStop, EmitOther, NextRequest, workerVars, output
  <2>3. CASE ReadOther
    BY <2>3 DEF ReadOther, EmitOther, NextRequest, workerVars
  <2>4. CASE ReadEnd
    BY <2>4 DEF ReadEnd, workerVars, output
  <2>5. CASE LaunchWorker
    BY <2>5 DEF LaunchWorker, EmitOther, NextRequest, output
  <2>6. CASE DeliverStop
    BY <2>6, KillAges DEF DeliverStop, EmitOther, NextRequest, workerVars
  <2>7. CASE Drain
    BY <2>7 DEF Drain, workerVars, output
  <2>8. CASE DrainSignal
    BY <2>8, KillAges DEF DrainSignal, workerVars, output
  <2>9. CASE HelperExit
    BY <2>9 DEF HelperExit, workerVars, output
  <2>10. CASE RefuseRun
    BY <2>10 DEF RefuseRun, EmitOther, readerVars
  <2>11. CASE Spawn
    <3>1. child' \in [Runs -> Children]
      BY <2>11, SpawnBirth DEF TypeInv
    <3>2. pipe' \in [lines : 0..PipeLines, open : BOOLEAN]
      BY <2>11 DEF Spawn
    <3>. QED BY <2>11, <3>1, <3>2 DEF Spawn, readerVars, output
  <2>12. CASE PublishChild
    BY <2>12 DEF PublishChild, readerVars, output
  <2>13. CASE Announce
    <3>1. job \in Runs
      BY <2>13 DEF Announce
    <3>2. child' \in [Runs -> Children]
      BY <2>13, KillAges DEF Announce, AfterEmit
    <3>. QED BY <2>13, <3>1, <3>2, EmitAppends DEF Announce, AfterEmit, Events, readerVars
  <2>14. CASE TakeLine
    <3>1. pipe' \in [lines : 0..PipeLines, open : BOOLEAN]
      <4>1. pipe.lines \in 0..PipeLines /\ pipe.lines > 0
        BY <2>14 DEF TakeLine
      <4>2. pipe.lines - 1 \in 0..PipeLines
        BY <4>1
      <4>. QED BY <2>14, <4>2 DEF TakeLine
    <3>2. shared' \in [running : BOOLEAN, pid : 0..MaxRuns, id : 0..MaxRuns,
                       hasOutput : BOOLEAN, waits : BOOLEAN, pending : BOOLEAN]
      BY <2>14 DEF TakeLine
    <3>. QED BY <2>14, <3>1, <3>2 DEF TakeLine, readerVars, output
  <2>15. CASE ForwardLine
    <3>1. child' \in [Runs -> Children]
      BY <2>15, KillAges DEF ForwardLine, AfterEmit
    <3>2. failed' \in BOOLEAN /\ log' = log
      BY <2>15 DEF ForwardLine, EmitOther, output
    <3>. QED BY <2>15, <3>1, <3>2 DEF ForwardLine, AfterEmit, readerVars
  <2>16. CASE EndOfOutput
    BY <2>16 DEF EndOfOutput, readerVars, output
  <2>17. CASE Unwind
    BY <2>17 DEF Unwind, readerVars, output
  <2>18. CASE StopChild
    BY <2>18, KillAges DEF StopChild, readerVars, output
  <2>19. CASE Reap
    <3>1. child' \in [Runs -> Children]
      BY <2>19 DEF Reap, Becomes, Children
    <3>. QED BY <2>19, <3>1 DEF Reap, readerVars, output
  <2>20. CASE PublishIdle
    BY <2>20 DEF PublishIdle, Idle, readerVars, output
  <2>21. CASE Finish
    <3>1. job \in Runs
      BY <2>21 DEF Finish
    <3>. QED BY <2>21, <3>1, EmitAppends DEF Finish, Events, readerVars
  <2>22. CASE CloseOutput
    BY <2>22 DEF CloseOutput, readerVars, workerVars, output
  <2>23. ASSUME NEW r \in Runs, ChildStep(r) PROVE TypeInv'
    BY <2>23, ChildTypes DEF readerVars, workerVars, output
  <2>24. CASE UNCHANGED vars
    BY <2>24 DEF vars, readerVars, workerVars, output
  <2>. QED BY <2>1, <2>2, <2>3, <2>4, <2>5, <2>6, <2>7, <2>8, <2>9, <2>10, <2>11, <2>12,
              <2>13, <2>14, <2>15, <2>16, <2>17, <2>18, <2>19, <2>20, <2>21, <2>22, <2>23,
              <2>24 DEF Next, Request, ReaderStep, WorkerStep, Quiet
<1>. QED BY <1>1, <1>2, PTL DEF Spec

-----------------------------------------------------------------------------
(* One child at a time, and no orphan.                                     *)

\* Children only age: what ChildInv says of the reader, the worker and the
\* slot is kept when they are.
LEMMA AgingKeeps ==
  ASSUME TypeInv, ChildInv,
         \A q \in Runs : Ages(child[q], child'[q]),
         UNCHANGED <<target, runsRead, job, shared>>,
         worker' = worker \/ (worker \in Serving /\ worker' \in Serving \ {"publishing"}),
         reader' = reader \/ reader' \notin {"joining", "exited"}
  PROVE  ChildInv'
<1>1. ChildOfJob'
  BY DEF ChildInv, ChildOfJob, KillReaches, Ages
<1>2. worker # "none" => job \in Runs
  BY DEF TypeInv, TypeOK, Named, Runs
<1>3. reader = "joining" => target \in Runs
  BY DEF TypeInv, TypeOK, Named, Runs
<1>4. Unserved'
  BY <1>2, <1>3 DEF ChildInv, Unserved, Ages, Serving
<1>5. SlotOfJob'
  BY <1>2 DEF ChildInv, SlotOfJob, Ages, Serving
<1>. QED BY <1>1, <1>4, <1>5 DEF ChildInv

\* A step that touches no child and no slot keeps what holds of children.
LEMMA SameKeeps ==
  ASSUME TypeInv, ChildInv,
         UNCHANGED <<target, runsRead, job, shared, child>>,
         worker' = worker \/ (worker \in Serving /\ worker' \in Serving \ {"publishing"}),
         reader' = reader \/ reader' \notin {"joining", "exited"}
  PROVE  ChildInv'
<1>1. \A q \in Runs : Ages(child[q], child'[q])
  BY DEF Ages
<1>. QED BY <1>1, AgingKeeps

\* A child that is not reaped is always the worker thread's.
LEMMA ChildInvHolds == Spec => []ChildInv
<1>1. Init => ChildInv
  <2>. SUFFICES ASSUME Init PROVE ChildInv
    OBVIOUS
  <2>1. \A r \in Runs : child[r].state = "none"
    BY DEF Init, Unborn
  <2>2. ~ shared.running /\ shared.pid = 0
    BY DEF Init, Idle
  <2>. QED BY <2>1, <2>2 DEF Init, ChildInv, ChildOfJob, Unserved, SlotOfJob, KillReaches
<1>2. TypeInv /\ ChildInv /\ [Next]_vars => ChildInv'
  <2>. SUFFICES ASSUME TypeInv, ChildInv, [Next]_vars PROVE ChildInv'
    OBVIOUS
  <2>a. \A c : Ages(c, c)
    BY DEF Ages
  <2>b. TypeOK
    BY DEF TypeInv
  <2>1. CASE ReadRun
    <3>1. /\ runsRead \in 0..MaxRuns /\ job \in 0..MaxRuns /\ runsRead < MaxRuns /\ runsRead' = runsRead + 1
          /\ UNCHANGED <<worker, job, child, shared>>
          /\ reader' = "joining" => target' = runsRead'
          /\ reader' # "exited"
      BY <2>1, <2>b DEF ReadRun, NextRequest, TypeOK, workerVars
    <3>2. /\ job <= runsRead' /\ runsRead' \in Runs /\ runsRead' > runsRead
          /\ \A r \in Runs : r > runsRead' => r > runsRead
      BY <3>1, Bounds DEF Runs, ChildInv, Unserved
    <3>3. reader' = "joining" => target' = runsRead' /\ target' # job' /\ child'[target'].state = "none"
      <4>1. job # runsRead' /\ child[runsRead'].state = "none"
        BY <3>1, <3>2 DEF ChildInv, Unserved
      <4>. QED BY <3>1, <4>1
    <3>. QED BY <3>1, <3>2, <3>3 DEF ChildInv, ChildOfJob, Unserved, SlotOfJob, KillReaches
  <2>2. CASE ReadStop
    <3>1. /\ UNCHANGED <<runsRead, worker, job, child>>
          /\ reader' \notin {"joining", "exited"}
          /\ shared'.running = shared.running /\ shared'.id = shared.id /\ shared'.pid = shared.pid
      BY <2>2, <2>b DEF ReadStop, NextRequest, TypeOK, workerVars
    <3>. QED BY <3>1 DEF ChildInv, ChildOfJob, Unserved, SlotOfJob, KillReaches, Runs
  <2>3. CASE ReadOther
    BY <2>3, SameKeeps DEF ReadOther, NextRequest, workerVars, Serving
  <2>4. CASE ReadEnd
    BY <2>4, SameKeeps DEF ReadEnd, workerVars, Serving
  <2>5. CASE LaunchWorker
    <3>1. reader = "joining" /\ worker = "none" /\ UNCHANGED <<target, runsRead, child>> /\ reader' \notin {"joining", "exited"}
      BY <2>5 DEF LaunchWorker, Joined, NextRequest
    <3>2. ~ shared.running /\ shared.pid = 0 /\ target = runsRead /\ child[target].state = "none"
      BY <3>1 DEF ChildInv, SlotOfJob, Unserved
    <3>3. \/ /\ shared'.running /\ shared'.id = target /\ shared'.pid = 0
             /\ worker' = "starting" /\ job' = target
          \/ /\ ~ shared'.running /\ shared'.pid = 0
             /\ UNCHANGED <<worker, job>>
      BY <2>5, <2>b, <3>2 DEF LaunchWorker, TypeOK
    <3>4. \A r \in Runs : ~ KillReaches(r)
      BY <3>1 DEF ChildInv, ChildOfJob, Serving
    <3>5. runsRead \in 0..MaxRuns
      BY <2>b DEF TypeOK
    <3>. QED BY <3>1, <3>2, <3>3, <3>4, <3>5 DEF ChildInv, ChildOfJob, Unserved, SlotOfJob, KillReaches
  <2>6. CASE DeliverStop
    BY <2>b, <2>6, KillAges, AgingKeeps DEF DeliverStop, NextRequest, workerVars, Serving
  <2>7. CASE Drain
    <3>1. /\ UNCHANGED <<runsRead, worker, job, child, shared>>
          /\ reader' \notin {"joining", "exited"}
      BY <2>7 DEF Drain, workerVars
    <3>. QED BY <3>1 DEF ChildInv, ChildOfJob, Unserved, SlotOfJob, KillReaches
  <2>8. CASE DrainSignal
    BY <2>b, <2>8, KillAges, AgingKeeps DEF DrainSignal, workerVars, Serving
  <2>9. CASE HelperExit
    <3>1. /\ UNCHANGED <<target, runsRead, worker, job, child, shared>>
          /\ worker = "none" /\ reader' = "exited"
      BY <2>9 DEF HelperExit, Joined, workerVars
    <3>. QED BY <3>1 DEF ChildInv, ChildOfJob, Unserved, SlotOfJob, KillReaches
  <2>10. CASE RefuseRun
    <3>1. /\ UNCHANGED <<target, runsRead, reader, job, child, shared>>
          /\ worker = "starting" /\ worker' = "clearing"
      BY <2>10 DEF RefuseRun, readerVars
    <3>. QED BY <3>1 DEF ChildInv, ChildOfJob, Unserved, SlotOfJob, KillReaches, Serving
  <2>11. CASE Spawn
    <3>1. /\ UNCHANGED <<target, runsRead, reader, job, shared>>
          /\ worker = "starting" /\ worker' = "publishing"
      BY <2>11 DEF Spawn, readerVars
    <3>2. /\ job \in Runs /\ child'[job].state = "starting"
          /\ \A q \in Runs : q # job => child'[q] = child[q]
      BY <2>11, SpawnBirth
    <3>3. reader = "joining" => target \in Runs
      BY DEF TypeInv, TypeOK, Named, Runs
    <3>4. runsRead \in Int /\ job \in Int /\ job <= runsRead
      BY <2>b DEF TypeOK, ChildInv, Unserved
    <3>5. \A r \in Runs : r > runsRead => r # job
      BY <3>4 DEF Runs
    <3>. QED BY <3>1, <3>2, <3>3, <3>4, <3>5 DEF ChildInv, ChildOfJob, Unserved, SlotOfJob, KillReaches, Serving
  <2>12. CASE PublishChild
    <3>1. /\ UNCHANGED <<target, runsRead, reader, job, child>>
          /\ worker = "publishing" /\ worker' = "announcing"
          /\ shared'.running = shared.running /\ shared'.id = job /\ shared'.pid = job
      BY <2>12, <2>b DEF PublishChild, readerVars, TypeOK
    <3>. QED BY <3>1 DEF ChildInv, ChildOfJob, Unserved, SlotOfJob, KillReaches, Serving
  <2>13. CASE Announce
    <3>1. \A q \in Runs : Ages(child[q], child'[q])
      BY <2>13, <2>a, <2>b, KillAges DEF Announce, AfterEmit
    <3>. QED BY <2>13, <3>1, AgingKeeps DEF Announce, AfterEmit, readerVars, Serving
  <2>14. CASE TakeLine
    <3>1. /\ UNCHANGED <<target, runsRead, reader, job, child>>
          /\ worker = "reading" /\ worker' = "forwarding"
          /\ shared'.running = shared.running /\ shared'.id = shared.id /\ shared'.pid = shared.pid
      BY <2>14, <2>b DEF TakeLine, readerVars, TypeOK
    <3>. QED BY <3>1 DEF ChildInv, ChildOfJob, Unserved, SlotOfJob, KillReaches, Serving
  <2>15. CASE ForwardLine
    <3>1. \A q \in Runs : Ages(child[q], child'[q])
      BY <2>15, <2>a, <2>b, KillAges DEF ForwardLine, AfterEmit
    <3>. QED BY <2>15, <3>1, AgingKeeps DEF ForwardLine, AfterEmit, readerVars, Serving
  <2>16. CASE EndOfOutput
    BY <2>16, SameKeeps DEF EndOfOutput, readerVars, Serving
  <2>17. CASE Unwind
    BY <2>17, SameKeeps DEF Unwind, readerVars, Serving
  <2>18. CASE StopChild
    BY <2>18, <2>b, KillAges, AgingKeeps DEF StopChild, readerVars, Serving
  <2>19. CASE Reap
    <3>1. /\ UNCHANGED <<target, runsRead, reader, job, shared>>
          /\ worker = "waiting" /\ worker' = "clearing"
          /\ child[job].state # "none"
      BY <2>19 DEF Reap, readerVars
    <3>2. job \in Runs
      BY <3>1 DEF TypeInv, TypeOK, Named, Runs
    <3>3. /\ child'[job].state = "reaped"
          /\ \A q \in Runs : q # job => child'[q] = child[q]
      BY <2>19, <2>b, <3>2 DEF Reap, Becomes, TypeOK, Children
    <3>4. reader = "joining" => target \in Runs
      BY DEF TypeInv, TypeOK, Named, Runs
    <3>5. runsRead \in Int /\ job \in Int /\ job <= runsRead
      BY <2>b DEF TypeOK, ChildInv, Unserved
    <3>6. \A r \in Runs : r > runsRead => r # job
      BY <3>5 DEF Runs
    <3>. QED BY <3>1, <3>2, <3>3, <3>4, <3>6 DEF ChildInv, ChildOfJob, Unserved, SlotOfJob, KillReaches, Serving
  <2>20. CASE PublishIdle
    <3>1. /\ UNCHANGED <<target, runsRead, reader, job, child>>
          /\ worker = "clearing" /\ worker' = "finishing"
          /\ ~ shared'.running /\ shared'.pid = 0
      BY <2>20 DEF PublishIdle, Idle, readerVars
    <3>. QED BY <3>1 DEF ChildInv, ChildOfJob, Unserved, SlotOfJob, KillReaches, Serving
  <2>21. CASE Finish
    <3>1. /\ UNCHANGED <<target, runsRead, reader, job, child, shared>>
          /\ worker = "finishing" /\ worker' = "none"
      BY <2>21 DEF Finish, readerVars
    <3>. QED BY <3>1 DEF ChildInv, ChildOfJob, Unserved, SlotOfJob, KillReaches, Serving
  <2>22. CASE CloseOutput
    BY <2>22, SameKeeps DEF CloseOutput, readerVars, workerVars, Serving
  <2>23. ASSUME NEW r \in Runs, ChildStep(r) PROVE ChildInv'
    BY <2>23, <2>b, ChildTypes, AgingKeeps DEF readerVars, workerVars, Serving
  <2>24. CASE UNCHANGED vars
    <3>1. UNCHANGED <<reader, target, runsRead, worker, job, shared, child>>
      BY <2>24 DEF vars, readerVars, workerVars
    <3>. QED BY <3>1, SameKeeps
  <2>. QED BY <2>1, <2>2, <2>3, <2>4, <2>5, <2>6, <2>7, <2>8, <2>9, <2>10, <2>11, <2>12,
              <2>13, <2>14, <2>15, <2>16, <2>17, <2>18, <2>19, <2>20, <2>21, <2>22, <2>23,
              <2>24 DEF Next, Request, ReaderStep, WorkerStep, Quiet
<1>. QED BY <1>1, <1>2, TypeInvHolds, PTL DEF Spec

\* The helper never exits while a child is alive or unreaped, for any number
\* of run requests: when handle_run's, stop's and shutdown's paths have joined
\* the worker, no child is left.
THEOREM NoOrphanTheorem == Spec => []NoOrphan
<1>1. ChildInv => NoOrphan
  BY DEF ChildInv, ChildOfJob, Unserved, NoOrphan, KillReaches, Serving
<1>. QED BY <1>1, ChildInvHolds, PTL

\* Two children never exist at once: handle_run joins the previous worker
\* before it starts the next, and a worker reaps its child before it ends.
THEOREM OneChildTheorem == Spec => []OneChild
<1>1. ChildInv => OneChild
  <2>. SUFFICES ASSUME ChildInv PROVE OneChild
    OBVIOUS
  <2>. DEFINE S == {r \in Runs : KillReaches(r)}
  <2>1. S \subseteq {job}
    BY DEF ChildInv, ChildOfJob
  <2>2. IsFiniteSet({job}) /\ Cardinality({job}) = 1
    BY FS_Singleton
  <2>3. IsFiniteSet(S) /\ Cardinality(S) <= Cardinality({job})
    BY <2>1, <2>2, FS_Subset
  <2>. QED BY <2>2, <2>3 DEF OneChild
<1>. QED BY <1>1, ChildInvHolds, PTL

-----------------------------------------------------------------------------
(* A Stop waits for the handler.                                           *)

\* What StopInv asks of a step that neither serves another request nor
\* changes what is known of the handler.
LEMMA StopKeeps ==
  ASSUME TypeInv, StopInv,
         \A q \in Runs :
            /\ Ages(child[q], child'[q])
            /\ child'[q].writing => child[q].writing \/ child'[q].state # "starting"
            /\ child'[q].end = "interrupted" =>
                  child[q].end = "interrupted" \/ ~ child[q].engine \/ Ending',
         UNCHANGED job,
         shared'.waits = shared.waits, shared'.hasOutput = shared.hasOutput,
         pipe'.lines > 0 => pipe.lines > 0 \/ (job # 0 /\ child'[job].state # "starting"),
         worker' \in Serving => worker \in Serving,
         worker \in OutputStates => worker' \in OutputStates,
         queuedStop' => queuedStop /\ worker' = worker,
         worker' \in {"unwinding", "stopping"} => failed',
         reader' = "signalling" => reader = "signalling" /\ target' = target,
         Ending => Ending'
  PROVE  StopInv'
<1>a. worker \in Serving \cup OutputStates \/ pipe.lines > 0 => job \in Runs
  BY DEF TypeInv, TypeOK, Named, Runs, StopInv, HandlerKnown, Serving, OutputStates
<1>1. HandlerKnown'
  BY <1>a DEF StopInv, HandlerKnown, Ages, Serving, OutputStates
<1>2. SignalsSafe'
  <2>1. reader = "signalling" => target \in Runs
    BY DEF TypeInv, TypeOK, StopInv, SignalsSafe, Runs
  <2>. QED BY <2>1 DEF StopInv, SignalsSafe, Ages
<1>3. StopWaitsForHandler'
  BY DEF StopInv, StopWaitsForHandler, Ages, Ending
<1>. QED BY <1>1, <1>2, <1>3 DEF StopInv

\* While a stop is on its way to a child outside the lock, that child is past
\* its start or has no handler to wait for.
LEMMA StopIsSafe ==
  ASSUME TypeInv, ChildInv, StopInv, ReadStop
  PROVE  StopInv'
<1>a. /\ UNCHANGED <<runsRead, worker, job, queuedStop, child, pipe>>
      /\ shared'.waits = shared.waits /\ shared'.hasOutput = shared.hasOutput
      /\ Ending => Ending'
      /\ \A q \in Runs : Ages(child[q], child'[q])
  BY DEF ReadStop, TypeInv, TypeOK, workerVars, Ages, Ending, EmitOther, output
<1>b. worker \in {"unwinding", "stopping"} => failed'
  BY DEF StopInv, SignalsSafe, ReadStop, EmitOther, output
<1>1. CASE reader' # "signalling"
  BY <1>a, <1>b, <1>1, StopKeeps
<1>2. CASE reader' = "signalling"
  <2>1. Busy /\ ~ Defers /\ target' = shared.pid
    BY <1>2 DEF ReadStop, NextRequest
  <2>2. /\ target' # 0 /\ target' = job /\ child[job].state # "none" /\ job \in Runs
        /\ ~ shared.waits \/ shared.hasOutput
    BY <2>1 DEF Busy, Defers, ChildInv, SlotOfJob, TypeInv, TypeOK, Runs
  <2>3. child[job].state = "starting" => worker \in Serving
    BY <2>2 DEF ChildInv, ChildOfJob, KillReaches
  <2>4. child[job].engine => child[job].state # "starting"
    BY <2>2, <2>3 DEF StopInv, HandlerKnown
  <2>5. HandlerKnown'
    BY <1>a DEF StopInv, HandlerKnown
  <2>6. SignalsSafe'
    BY <1>a, <1>b, <2>2, <2>4 DEF StopInv, SignalsSafe
  <2>7. StopWaitsForHandler'
    BY <1>a DEF StopInv, StopWaitsForHandler, Ending
  <2>. QED BY <2>5, <2>6, <2>7 DEF StopInv
<1>. QED BY <1>1, <1>2

\* A new run starts with nothing known and nothing to deliver.
LEMMA LaunchIsSafe ==
  ASSUME TypeInv, ChildInv, StopInv, LaunchWorker
  PROVE  StopInv'
<1>1. /\ worker = "none" /\ reader = "joining" /\ target # 0 /\ child[target].state = "none"
      /\ UNCHANGED <<queuedStop, child, pipe>>
      /\ reader' # "signalling"
  BY DEF LaunchWorker, Joined, NextRequest, TypeInv, Named, ChildInv, Unserved
<1>2. ~ queuedStop /\ ~ shared.hasOutput /\ ~ shared'.hasOutput
  BY <1>1 DEF StopInv, SignalsSafe, HandlerKnown, OutputStates, LaunchWorker, TypeInv, TypeOK
<1>3. (worker' = "starting" /\ job' = target) \/ (worker' = "none" /\ job' = job)
  BY <1>1 DEF LaunchWorker
<1>4. Ending => Ending'
  BY DEF LaunchWorker, Ending, NextRequest, EmitOther, output
<1>5. HandlerKnown'
  BY <1>1, <1>2, <1>3 DEF StopInv, HandlerKnown, Serving, OutputStates
<1>6. SignalsSafe'
  BY <1>1, <1>2, <1>3 DEF StopInv, SignalsSafe
<1>7. StopWaitsForHandler'
  BY <1>1, <1>4 DEF StopInv, StopWaitsForHandler, Ending
<1>. QED BY <1>5, <1>6, <1>7 DEF StopInv

\* A new child has written nothing, so no evidence of its handler is left over.
LEMMA SpawnIsSafe ==
  ASSUME TypeInv, ChildInv, StopInv, Spawn
  PROVE  StopInv'
<1>1. /\ worker = "starting" /\ worker' = "publishing" /\ pipe'.lines = 0
      /\ UNCHANGED <<reader, target, job, queuedStop, shared, failed>>
      /\ child[job].state = "none"
  BY DEF Spawn, readerVars, output, ChildInv, Unserved
<1>2. ~ queuedStop /\ ~ shared.hasOutput
  BY <1>1 DEF StopInv, SignalsSafe, HandlerKnown, OutputStates
<1>3. /\ job \in Runs /\ child'[job].engine = shared.waits
      /\ ~ child'[job].writing /\ child'[job].end = ""
      /\ \A q \in Runs : q # job => child'[q] = child[q]
  BY SpawnBirth
<1>4. HandlerKnown'
  <2>1. \A r \in Runs : child'[r].writing => child'[r].state # "starting"
    BY <1>3 DEF StopInv, HandlerKnown
  <2>2. ~ (pipe'.lines > 0)
    BY <1>1
  <2>. QED BY <1>1, <1>2, <1>3, <2>1, <2>2 DEF HandlerKnown
<1>5. SignalsSafe'
  <2>1. reader = "signalling" => target \in Runs /\ target # job
    BY <1>1 DEF StopInv, SignalsSafe, TypeInv, TypeOK, Runs
  <2>. QED BY <1>1, <1>2, <1>3, <2>1 DEF StopInv, SignalsSafe
<1>6. StopWaitsForHandler'
  BY <1>1, <1>3 DEF StopInv, StopWaitsForHandler
<1>. QED BY <1>4, <1>5, <1>6 DEF StopInv

\* A queued stop follows started only when no handler is waited for, and the
\* first line otherwise, which only a child past its start has written.
LEMMA QueuedIsSafe ==
  ASSUME TypeInv, ChildInv, StopInv, PublishChild \/ TakeLine
  PROVE  StopInv'
<1>1. /\ UNCHANGED <<reader, target, job, child, failed>>
      /\ worker \in Serving /\ worker' \in {"announcing", "forwarding"}
      /\ shared'.waits = shared.waits
      /\ pipe'.lines > 0 => pipe.lines > 0
  BY DEF PublishChild, TakeLine, readerVars, output, TypeInv, TypeOK, Serving
<1>2. shared'.hasOutput => worker' = "forwarding" /\ child[job].state # "starting"
  <2>1. CASE PublishChild
    BY <2>1 DEF PublishChild, TypeInv, TypeOK
  <2>2. CASE TakeLine
    BY <2>2 DEF TakeLine, StopInv, HandlerKnown
  <2>. QED BY <2>1, <2>2
<1>3. queuedStop' => (worker' = "announcing" /\ ~ shared.waits) \/ (worker' = "forwarding" /\ shared'.hasOutput)
  <2>1. CASE PublishChild
    BY <2>1 DEF PublishChild
  <2>2. CASE TakeLine
    BY <2>2 DEF TakeLine, TypeInv, TypeOK
  <2>. QED BY <2>1, <2>2
<1>4. HandlerKnown'
  BY <1>1, <1>2 DEF StopInv, HandlerKnown, OutputStates
<1>5. SignalsSafe'
  BY <1>1, <1>3 DEF StopInv, SignalsSafe
<1>6. StopWaitsForHandler'
  BY <1>1 DEF StopInv, StopWaitsForHandler
<1>. QED BY <1>4, <1>5, <1>6 DEF StopInv

\* A kill that finds no engine in its start keeps what StopKeeps asks of the
\* children.
LEMMA SafeKill ==
  ASSUME TypeOK, NEW r, Kill(r),
         Ending' \/ ~ child[r].engine \/ child[r].state # "starting"
  PROVE  \A q \in Runs :
            /\ Ages(child[q], child'[q])
            /\ child'[q].writing => child[q].writing \/ child'[q].state # "starting"
            /\ child'[q].end = "interrupted" =>
                  child[q].end = "interrupted" \/ ~ child[q].engine \/ Ending'
<1>1. \A q \in Runs : /\ Ages(child[q], child'[q])
                      /\ child'[q].writing = child[q].writing
                      /\ q # r => child'[q] = child[q]
  BY KillAges
<1>2. \A q \in Runs : child'[q].end = "interrupted" =>
         \/ child[q].end = "interrupted"
         \/ q = r /\ (~ child[q].engine \/ child[q].state = "starting")
  BY KillAges
<1>. QED BY <1>1, <1>2

\* A step that touches no child.
LEMMA SameChildren ==
  ASSUME UNCHANGED child
  PROVE  \A q \in Runs :
            /\ Ages(child[q], child'[q])
            /\ child'[q].writing => child[q].writing \/ child'[q].state # "starting"
            /\ child'[q].end = "interrupted" =>
                  child[q].end = "interrupted" \/ ~ child[q].engine \/ Ending'
BY DEF Ages

\* Every way to a SIGINT always carries the evidence that the handler is there.
LEMMA StopInvHolds == Spec => []StopInv
<1>1. Init => StopInv
  <2>. SUFFICES ASSUME Init PROVE StopInv
    OBVIOUS
  <2>1. \A r \in Runs : ~ child[r].writing /\ child[r].end = ""
    BY DEF Init, Unborn
  <2>2. ~ shared.hasOutput /\ ~ (pipe.lines > 0)
    BY DEF Init, Idle
  <2>. QED BY <2>1, <2>2 DEF Init, StopInv, HandlerKnown, SignalsSafe, StopWaitsForHandler, Serving
<1>2. TypeInv /\ ChildInv /\ StopInv /\ [Next]_vars => StopInv'
  <2>. SUFFICES ASSUME TypeInv, ChildInv, StopInv, [Next]_vars PROVE StopInv'
    OBVIOUS
  <2>a. TypeOK
    BY DEF TypeInv
  <2>c. worker \in {"unwinding", "stopping"} => failed
    BY DEF StopInv, SignalsSafe
  <2>. USE DEF Serving, OutputStates, Ending
  <2>1. CASE ReadRun
    <3>1. /\ UNCHANGED <<worker, job, queuedStop, shared, child, pipe>>
          /\ reader = "reading" /\ reader' # "signalling"
          /\ failed => failed'
      <4>1. /\ UNCHANGED <<worker, job, queuedStop, shared, child, pipe>>
            /\ reader = "reading" /\ reader' # "signalling"
        BY <2>1 DEF ReadRun, NextRequest, workerVars
      <4>2. failed => failed'
        <5>1. CASE Emit(<<"finished", runsRead'>>)
          BY <5>1 DEF Emit
        <5>2. CASE UNCHANGED output
          BY <5>2 DEF output
        <5>. QED BY <2>1, <5>1, <5>2 DEF ReadRun
      <4>. QED BY <4>1, <4>2
    <3>. QED BY <2>c, <3>1, SameChildren, StopKeeps
  <2>2. CASE ReadStop
    BY <2>2, StopIsSafe
  <2>3. CASE ReadOther
    <3>1. /\ UNCHANGED <<worker, job, queuedStop, shared, child, pipe>>
          /\ reader = "reading" /\ reader' # "signalling"
          /\ failed => failed'
      BY <2>3 DEF ReadOther, NextRequest, EmitOther, workerVars
    <3>. QED BY <2>c, <3>1, SameChildren, StopKeeps
  <2>4. CASE ReadEnd
    <3>1. /\ UNCHANGED <<worker, job, queuedStop, shared, child, pipe, failed>>
          /\ reader = "reading" /\ reader' # "signalling"
      BY <2>4 DEF ReadEnd, output, workerVars
    <3>. QED BY <2>c, <3>1, SameChildren, StopKeeps
  <2>5. CASE LaunchWorker
    BY <2>5, LaunchIsSafe
  <2>6. CASE DeliverStop
    <3>1. /\ UNCHANGED <<worker, job, queuedStop, shared, pipe>> /\ Kill(target)
          /\ reader = "signalling" /\ reader' # "signalling"
          /\ failed => failed'
      BY <2>6 DEF DeliverStop, NextRequest, EmitOther, workerVars
    <3>2. ~ child[target].engine \/ child[target].state # "starting"
      BY <3>1 DEF StopInv, SignalsSafe
    <3>. QED BY <2>a, <2>c, <3>1, <3>2, SafeKill, StopKeeps
  <2>7. CASE Drain
    <3>1. /\ UNCHANGED <<worker, job, queuedStop, shared, child, pipe, failed>>
          /\ reader' \in {"drainSignal", "exiting"}
      BY <2>7 DEF Drain, output, workerVars
    <3>. QED BY <2>c, <3>1, SameChildren, StopKeeps
  <2>8. CASE DrainSignal
    <3>1. /\ UNCHANGED <<worker, job, queuedStop, shared, pipe, failed>> /\ Kill(target)
          /\ reader' = "draining"
      BY <2>8 DEF DrainSignal, output, workerVars
    <3>. QED BY <2>a, <2>c, <3>1, SafeKill, StopKeeps
  <2>9. CASE HelperExit
    <3>1. /\ UNCHANGED <<worker, job, queuedStop, shared, child, pipe, failed>>
          /\ reader' = "exited"
      BY <2>9 DEF HelperExit, output, workerVars
    <3>. QED BY <2>c, <3>1, SameChildren, StopKeeps
  <2>10. CASE RefuseRun
    <3>1. /\ UNCHANGED <<reader, target, job, queuedStop, shared, child, pipe>>
          /\ worker = "starting" /\ worker' = "clearing"
          /\ failed => failed'
      BY <2>10 DEF RefuseRun, EmitOther, readerVars
    <3>2. ~ queuedStop
      BY <3>1 DEF StopInv, SignalsSafe
    <3>. QED BY <3>1, <3>2, SameChildren, StopKeeps
  <2>11. CASE Spawn
    BY <2>11, SpawnIsSafe
  <2>12. CASE PublishChild
    BY <2>12, QueuedIsSafe
  <2>13. CASE Announce
    <3>1. /\ UNCHANGED <<reader, target, job, shared, pipe>> /\ ~ queuedStop'
          /\ worker = "announcing"
          /\ failed => failed'
          /\ worker' \in {"reading", "unwinding"}
          /\ worker' = "unwinding" => failed'
          /\ UNCHANGED child \/ (queuedStop /\ Kill(job))
      BY <2>13, <2>a DEF Announce, Emit, AfterEmit, Delivers, readerVars, TypeOK
    <3>2. queuedStop => ~ child[job].engine
      BY <3>1 DEF StopInv, SignalsSafe, HandlerKnown
    <3>3. \A q \in Runs :
            /\ Ages(child[q], child'[q])
            /\ child'[q].writing => child[q].writing \/ child'[q].state # "starting"
            /\ child'[q].end = "interrupted" =>
                  child[q].end = "interrupted" \/ ~ child[q].engine \/ Ending'
      BY <2>a, <3>1, <3>2, SafeKill, SameChildren
    <3>. QED BY <3>1, <3>3, StopKeeps
  <2>14. CASE TakeLine
    BY <2>14, QueuedIsSafe
  <2>15. CASE ForwardLine
    <3>1. /\ UNCHANGED <<reader, target, job, shared, pipe>> /\ ~ queuedStop'
          /\ worker = "forwarding"
          /\ failed => failed'
          /\ worker' \in {"reading", "unwinding"}
          /\ worker' = "unwinding" => failed'
          /\ UNCHANGED child \/ (queuedStop /\ Kill(job))
      BY <2>15, <2>a DEF ForwardLine, EmitOther, AfterEmit, Delivers, output, readerVars, TypeOK
    <3>2. queuedStop => child[job].state # "starting"
      BY <3>1 DEF StopInv, SignalsSafe, HandlerKnown
    <3>3. \A q \in Runs :
            /\ Ages(child[q], child'[q])
            /\ child'[q].writing => child[q].writing \/ child'[q].state # "starting"
            /\ child'[q].end = "interrupted" =>
                  child[q].end = "interrupted" \/ ~ child[q].engine \/ Ending'
      BY <2>a, <3>1, <3>2, SafeKill, SameChildren
    <3>. QED BY <3>1, <3>3, StopKeeps
  <2>16. CASE EndOfOutput
    <3>1. /\ UNCHANGED <<reader, target, job, queuedStop, shared, child, pipe, failed>>
          /\ worker = "reading" /\ worker' = "waiting"
      BY <2>16 DEF EndOfOutput, output, readerVars
    <3>2. ~ queuedStop
      BY <3>1 DEF StopInv, SignalsSafe
    <3>. QED BY <3>1, <3>2, SameChildren, StopKeeps
  <2>17. CASE Unwind
    <3>1. /\ UNCHANGED <<reader, target, job, queuedStop, shared, child, failed>>
          /\ worker = "unwinding" /\ worker' = "stopping" /\ ~ (pipe'.lines > 0)
      BY <2>17 DEF Unwind, output, readerVars
    <3>2. ~ queuedStop
      BY <3>1 DEF StopInv, SignalsSafe
    <3>. QED BY <2>c, <3>1, <3>2, SameChildren, StopKeeps
  <2>18. CASE StopChild
    <3>1. /\ UNCHANGED <<reader, target, job, queuedStop, shared, pipe, failed>> /\ Kill(job)
          /\ worker = "stopping" /\ worker' = "waiting"
      BY <2>18 DEF StopChild, output, readerVars
    <3>2. ~ queuedStop
      BY <3>1 DEF StopInv, SignalsSafe
    <3>. QED BY <2>a, <2>c, <3>1, <3>2, SafeKill, StopKeeps
  <2>19. CASE Reap
    <3>1. /\ UNCHANGED <<reader, target, job, queuedStop, shared, pipe, failed>>
          /\ worker = "waiting" /\ worker' = "clearing"
          /\ child[job].state = "zombie"
          /\ child' = [child EXCEPT ![job] = [child[job] EXCEPT !.state = "reaped"]]
      BY <2>19 DEF Reap, Becomes, output, readerVars
    <3>2. job \in Runs /\ ~ queuedStop
      BY <2>a, <3>1 DEF TypeInv, TypeOK, Named, Runs, StopInv, SignalsSafe
    <3>3. \A q \in Runs : /\ child'[q].engine = child[q].engine
                          /\ child'[q].writing = child[q].writing
                          /\ child'[q].end = child[q].end
                          /\ q = job => child'[q].state = "reaped"
                          /\ q # job => child'[q] = child[q]
      BY <2>a, <3>1, <3>2 DEF TypeOK, Children
    <3>4. HandlerKnown'
      BY <3>1, <3>2, <3>3 DEF StopInv, HandlerKnown
    <3>5. SignalsSafe'
      <4>1. reader = "signalling" => target \in Runs
        BY <2>a DEF TypeOK, StopInv, SignalsSafe, Runs
      <4>. QED BY <3>1, <3>2, <3>3, <4>1 DEF StopInv, SignalsSafe
    <3>6. StopWaitsForHandler'
      BY <3>1, <3>3 DEF StopInv, StopWaitsForHandler
    <3>. QED BY <3>4, <3>5, <3>6 DEF StopInv
  <2>20. CASE PublishIdle
    <3>1. /\ UNCHANGED <<reader, target, job, queuedStop, child, pipe, failed>>
          /\ worker = "clearing" /\ worker' = "finishing" /\ ~ shared'.hasOutput
      BY <2>20 DEF PublishIdle, Idle, output, readerVars
    <3>2. ~ queuedStop
      BY <3>1 DEF StopInv, SignalsSafe
    <3>. QED BY <3>1, <3>2 DEF StopInv, HandlerKnown, SignalsSafe, StopWaitsForHandler
  <2>21. CASE Finish
    <3>1. /\ UNCHANGED <<reader, target, job, queuedStop, shared, child, pipe>>
          /\ worker = "finishing" /\ worker' = "none"
          /\ failed => failed'
      BY <2>21 DEF Finish, Emit, readerVars
    <3>2. ~ queuedStop
      BY <3>1 DEF StopInv, SignalsSafe
    <3>. QED BY <3>1, <3>2, SameChildren, StopKeeps
  <2>22. CASE CloseOutput
    <3>1. UNCHANGED <<reader, target, worker, job, queuedStop, shared, child, pipe, failed>>
      BY <2>22 DEF CloseOutput, output, readerVars, workerVars
    <3>. QED BY <2>c, <3>1, SameChildren, StopKeeps
  <2>23. ASSUME NEW r \in Runs, ChildStep(r) PROVE StopInv'
    <3>1. UNCHANGED <<reader, target, worker, job, queuedStop, shared, failed>>
      BY <2>23, <2>a, ChildTypes DEF output, readerVars, workerVars
    <3>2. /\ \A q \in Runs : Ages(child[q], child'[q]) /\ (q # r => child'[q] = child[q])
          /\ child'[r].end = "interrupted" => child[r].end = "interrupted"
          /\ child'[r].writing => child[r].writing \/ child'[r].state # "starting"
          /\ pipe'.lines > 0 => pipe.lines > 0 \/ child[r].writing
          /\ job = r
      BY <2>23, <2>a, ChildTypes DEF ChildInv, ChildOfJob
    <3>3. child[r].writing => child'[r].state # "starting"
      BY <3>2 DEF StopInv, HandlerKnown, Ages
    <3>4. job # 0
      BY <3>2, Bounds DEF Runs
    <3>. QED BY <2>c, <3>1, <3>2, <3>3, <3>4, StopKeeps
  <2>24. CASE UNCHANGED vars
    <3>1. UNCHANGED <<reader, target, worker, job, queuedStop, shared, child, pipe, failed>>
      BY <2>24 DEF vars, output, readerVars, workerVars
    <3>. QED BY <2>c, <3>1, SameChildren, StopKeeps
  <2>. QED BY <2>1, <2>2, <2>3, <2>4, <2>5, <2>6, <2>7, <2>8, <2>9, <2>10, <2>11, <2>12,
              <2>13, <2>14, <2>15, <2>16, <2>17, <2>18, <2>19, <2>20, <2>21, <2>22, <2>23,
              <2>24 DEF Next, Request, ReaderStep, WorkerStep, Quiet
<1>. QED BY <1>1, <1>2, TypeInvHolds, ChildInvHolds, PTL DEF Spec

\* A Stop waits for the engine's handler, however the GUI's Stop, the child's
\* start, its first line and the worker's steps interleave: what deliver_stop
\* and the queued Stop signal is past its start, or is no engine.
THEOREM StopWaitsTheorem == Spec => []StopWaitsForHandler
BY StopInvHolds, PTL DEF StopInv

-----------------------------------------------------------------------------
(* The events the GUI receives.                                            *)

\* No event is sent: what is due only shrinks.
LEMMA LogKeeps ==
  ASSUME TypeInv, EventInv,
         UNCHANGED <<log, job>>,
         failed' => failed \/ closed,
         closed => closed',
         runsRead' \in 0..MaxRuns /\ runsRead <= runsRead',
         reader' = "joining" => reader = "joining" /\ target' = target,
         worker' # "none" => worker # "none",
         worker' \in {"starting", "publishing", "announcing"}
            => worker \in {"starting", "publishing", "announcing"},
         Announced => Announced'
  PROVE  EventInv'
<1>1. \A i \in DOMAIN log : log[i][2] <= runsRead'
  <2>1. log \in Seq(Events) /\ runsRead \in Int /\ runsRead' \in Int
    BY DEF TypeInv, TypeOK, Events
  <2>2. \A i \in DOMAIN log : log[i][2] \in Int
    <3>1. \A i \in DOMAIN log : log[i] \in Events
      BY <2>1
    <3>. QED BY <3>1 DEF Events, Runs
  <2>. QED BY <2>1, <2>2 DEF EventInv, EventsDue
<1>2. EventsDue'
  BY <1>1 DEF EventInv, EventsDue
<1>3. EventOrder'
  BY DEF EventInv, EventOrder
<1>. QED BY <1>2, <1>3 DEF EventInv

\* An event of a run of which the same event was not sent, nor finished, and
\* before whose start every started run has finished.
LEMMA AppendKeeps ==
  ASSUME TypeInv, EventOrder,
         NEW kind \in {"started", "finished"}, NEW r \in Runs,
         Emit(<<kind, r>>),
         \A i \in DOMAIN log : log[i] # <<kind, r>>,
         kind = "started" => \A i \in DOMAIN log : log[i] # <<"finished", r>>,
         Delivers /\ kind = "started" =>
            \A i \in DOMAIN log : log[i][1] = "started" =>
               \E k \in i..Len(log) : log[k] = <<"finished", log[i][2]>>
  PROVE  EventOrder'
<1>1. CASE ~ Delivers
  BY <1>1 DEF Emit, EventOrder
<1>2. CASE Delivers
  <2>1. /\ Len(log) \in Nat /\ DOMAIN log = 1..Len(log)
        /\ Len(log') = Len(log) + 1 /\ DOMAIN log' = 1..(Len(log) + 1)
        /\ \A i \in 1..Len(log) : log'[i] = log[i]
        /\ log'[Len(log) + 1] = <<kind, r>>
        /\ \A i \in 1..Len(log) : log[i] \in Events
    <3>1. log \in Seq(Events) /\ log' \in Seq(Events)
      BY EmitAppends DEF TypeInv, TypeOK, Events
    <3>2. /\ Len(log') = Len(log) + 1
          /\ \A i \in 1..Len(log) : log'[i] = log[i]
          /\ log'[Len(log')] = <<kind, r>>
      BY <1>2, EmitAppends DEF TypeInv
    <3>. HIDE DEF Events
    <3>3. /\ Len(log) \in Nat /\ DOMAIN log = 1..Len(log)
          /\ \A i \in 1..Len(log) : log[i] \in Events
      BY <3>1
    <3>4. DOMAIN log' = 1..Len(log')
      BY <3>1
    <3>. QED BY <3>2, <3>3, <3>4
  <2>2. SUFFICES ASSUME NEW i \in 1..(Len(log) + 1), NEW j \in 1..(Len(log) + 1), i < j
                 PROVE  /\ log'[i] # log'[j]
                        /\ log'[i][1] = "finished" => log'[j] # <<"started", log'[i][2]>>
                        /\ (log'[i][1] = "started" /\ log'[j][1] = "started")
                              => \E k \in i..j : log'[k] = <<"finished", log'[i][2]>>
    BY <2>1 DEF EventOrder
  <2>3. i \in 1..Len(log) /\ log'[i] = log[i]
    BY <2>1, <2>2
  <2>4. CASE j \in 1..Len(log)
    <3>1. log'[j] = log[j] /\ \A k \in i..j : log'[k] = log[k]
      BY <2>1, <2>2, <2>3, <2>4
    <3>2. /\ log[i] # log[j]
          /\ log[i][1] = "finished" => log[j] # <<"started", log[i][2]>>
          /\ (log[i][1] = "started" /\ log[j][1] = "started")
                => \E k \in i..j : log[k] = <<"finished", log[i][2]>>
      BY <2>1, <2>2, <2>3, <2>4 DEF EventOrder
    <3>. QED BY <2>3, <3>1, <3>2
  <2>5. CASE j = Len(log) + 1
    <3>1. log'[j] = <<kind, r>> /\ log[i] # <<kind, r>>
      BY <2>1, <2>3, <2>5
    <3>2. PICK x \in {"started", "finished"}, q \in Runs : log[i] = <<x, q>>
      BY <2>1, <2>3 DEF Events
    <3>3. kind = "started" => log[i] # <<"finished", r>>
      BY <2>1, <2>3
    <3>4. ASSUME x = "started", kind = "started"
          PROVE  \E k \in i..j : log'[k] = <<"finished", q>>
      <4>0. log[i][1] = "started" /\ log[i][2] = q /\ i \in DOMAIN log
        BY <2>1, <2>3, <3>2, <3>4
      <4>1. PICK k \in i..Len(log) : log[k] = <<"finished", q>>
        BY <1>2, <3>4, <4>0
      <4>2. k \in i..j /\ log'[k] = log[k]
        BY <2>1, <2>2, <2>3, <2>5
      <4>. QED BY <4>1, <4>2
    <3>5. log'[i] = <<x, q>>
      BY <2>3, <3>2
    <3>. QED BY <3>1, <3>2, <3>3, <3>4, <3>5
  <2>. QED BY <2>1, <2>2, <2>4, <2>5
<1>. QED BY <1>1, <1>2

\* Every request read so far is numbered below the next, and every event is
\* about one of them.
LEMMA EventOfRun ==
  ASSUME TypeInv
  PROVE  \A i \in DOMAIN log :
            /\ log[i][2] \in Runs
            /\ \A x : log[i] = <<x, log[i][2]>> <=> log[i][1] = x
<1>1. \A i \in DOMAIN log : log[i] \in {"started", "finished"} \X Runs
  BY DEF TypeInv, TypeOK
<1>. QED BY <1>1

\* What a step that sends no started or finished does to the output.
LEMMA SendsNothing ==
  ASSUME EmitOther \/ UNCHANGED output
  PROVE  log' = log /\ (failed' => failed \/ closed)
<1>1. CASE EmitOther
  BY <1>1 DEF EmitOther
<1>2. CASE UNCHANGED output
  BY <1>2 DEF output
<1>. QED BY <1>1, <1>2

\* A run request that is read has not been announced.
LEMMA ReadRunEvents ==
  ASSUME TypeInv, ChildInv, EventInv, ReadRun
  PROVE  EventInv'
<1>1. /\ runsRead \in Int /\ runsRead' = runsRead + 1 /\ runsRead' \in Runs /\ runsRead' \in 0..MaxRuns
      /\ UNCHANGED <<worker, job, closed>>
      /\ job <= runsRead /\ job \in Int
  BY Bounds DEF ReadRun, TypeInv, TypeOK, workerVars, Runs, ChildInv, Unserved
<1>2. \A i \in DOMAIN log : log[i][2] \in Int /\ log[i][2] <= runsRead
  BY EventOfRun DEF EventInv, EventsDue, Runs
<1>3. \A i \in DOMAIN log : log[i][2] # runsRead' /\ log[i][2] <= runsRead'
  BY <1>1, <1>2
<1>4. CASE Emit(<<"finished", runsRead'>>) /\ NextRequest /\ UNCHANGED target
  <2>1. EventOrder'
    <3>1. \A i \in DOMAIN log : log[i] # <<"finished", runsRead'>>
      BY <1>3
    <3>. QED BY <1>1, <1>4, <3>1, AppendKeeps DEF EventInv
  <2>2. failed' => closed'
    BY <1>1, <1>4 DEF Emit, EventInv, EventsDue
  <2>3. reader' # "joining"
    BY <1>4 DEF NextRequest
  <2>4. CASE ~ Delivers
    <3>1. log' = log
      BY <1>4, <2>4 DEF Emit
    <3>2. closed
      BY <2>4 DEF Delivers, EventInv, EventsDue
    <3>. QED BY <1>1, <1>3, <2>1, <2>2, <2>3, <3>1, <3>2 DEF EventInv, EventsDue
  <2>5. CASE Delivers
    <3>1. /\ log \in Seq(Events) /\ log' \in Seq(Events)
          /\ Len(log') = Len(log) + 1
          /\ \A i \in 1..Len(log) : log'[i] = log[i]
          /\ log'[Len(log')] = <<"finished", runsRead'>>
      BY <1>1, <1>4, <2>5, EmitAppends DEF TypeInv, TypeOK, Events
    <3>2. /\ DOMAIN log = 1..Len(log) /\ DOMAIN log' = 1..(Len(log) + 1) /\ Len(log) \in Nat
      <4>. HIDE DEF Events
      <4>. QED BY <3>1
    <3>3. \A i \in DOMAIN log' : (i \in DOMAIN log /\ log'[i] = log[i]) \/ log'[i] = <<"finished", runsRead'>>
      BY <3>1, <3>2
    <3>4. \A i \in DOMAIN log' : log'[i][2] <= runsRead'
      BY <1>1, <1>3, <3>3
    <3>5. worker' # "none" => \A i \in DOMAIN log' : log'[i] # <<"finished", job>>
      BY <1>1, <3>3 DEF EventInv, EventsDue
    <3>6. worker' \in {"starting", "publishing", "announcing"}
             => \A i \in DOMAIN log' : log'[i] # <<"started", job>>
      BY <1>1, <3>3 DEF EventInv, EventsDue
    <3>7. ASSUME ~ closed', NEW i \in DOMAIN log', log'[i][1] = "started"
          PROVE  \/ Announced' /\ log'[i][2] = job'
                 \/ \E k \in i..Len(log') : log'[k] = <<"finished", log'[i][2]>>
      <4>1. i \in DOMAIN log /\ log'[i] = log[i]
        BY <3>3, <3>7
      <4>2. CASE Announced /\ log[i][2] = job
        BY <1>1, <4>1, <4>2 DEF Announced
      <4>3. CASE \E k \in i..Len(log) : log[k] = <<"finished", log[i][2]>>
        BY <3>1, <3>2, <4>1, <4>3
      <4>. QED BY <1>1, <3>7, <4>1, <4>2, <4>3 DEF EventInv, EventsDue
    <3>. QED BY <1>1, <2>1, <2>2, <2>3, <3>4, <3>5, <3>6, <3>7 DEF EventInv, EventsDue
  <2>. QED BY <2>4, <2>5
<1>5. CASE target' = runsRead' /\ reader' = "joining" /\ UNCHANGED output
  <2>1. UNCHANGED <<failed, log>>
    BY <1>5 DEF output
  <2>2. EventsDue'
    BY <1>1, <1>3, <1>5, <2>1 DEF EventInv, EventsDue, Announced
  <2>3. EventOrder'
    BY <2>1 DEF EventInv, EventOrder
  <2>. QED BY <2>2, <2>3 DEF EventInv
<1>. QED BY <1>4, <1>5 DEF ReadRun

\* A run is launched after the run before it gave up the slot and finished.
LEMMA LaunchEvents ==
  ASSUME TypeInv, ChildInv, EventInv, LaunchWorker
  PROVE  EventInv'
<1>1. /\ reader = "joining" /\ worker = "none" /\ reader' # "joining"
      /\ UNCHANGED <<runsRead, closed, log>>
      /\ failed' => failed \/ closed
      /\ (worker' = "starting" /\ job' = target) \/ (worker' = "none" /\ job' = job)
  <2>1. EmitOther \/ UNCHANGED output
    BY DEF LaunchWorker
  <2>. QED BY <2>1, SendsNothing DEF LaunchWorker, Joined, NextRequest
<1>2. \A i \in DOMAIN log : log[i][2] # target
  BY <1>1 DEF EventInv, EventsDue
<1>3. \A i \in DOMAIN log : log[i] # <<"finished", target>> /\ log[i] # <<"started", target>>
  BY <1>2
<1>4. ~ Announced
  BY <1>1 DEF Announced
<1>5. EventsDue'
  BY <1>1, <1>2, <1>3, <1>4 DEF EventInv, EventsDue
<1>. QED BY <1>1, <1>5 DEF EventInv, EventOrder

\* What the worker sends is about its job.
LEMMA WorkerEvents ==
  ASSUME TypeInv, ChildInv, EventInv, Announce \/ Finish
  PROVE  /\ UNCHANGED <<reader, target, runsRead, job, closed>>
         /\ job \in Runs /\ job <= runsRead
         /\ reader = "joining" => target # job
         /\ failed' => closed
         /\ EventOrder'
<1>1. UNCHANGED <<reader, target, runsRead, job, closed>>
  BY DEF Announce, Finish, readerVars
<1>2. job \in Runs /\ job <= runsRead
  BY DEF Announce, Finish, TypeInv, TypeOK, Named, Runs, ChildInv, Unserved
<1>3. reader = "joining" => target # job
  BY DEF ChildInv, Unserved
<1>4. failed' => closed
  BY DEF Announce, Finish, Emit, EventInv, EventsDue
<1>5. EventOrder'
  <2>1. CASE Announce
    <3>1. worker = "announcing" /\ Emit(<<"started", job>>)
      BY <2>1 DEF Announce
    <3>2. Delivers => ~ closed /\ ~ Announced
      BY <3>1 DEF Delivers, Announced
    <3>. QED BY <1>2, <3>1, <3>2, AppendKeeps DEF EventInv, EventsDue
  <2>2. CASE Finish
    <3>1. worker = "finishing" /\ Emit(<<"finished", job>>)
      BY <2>2 DEF Finish
    <3>. QED BY <1>2, <3>1, AppendKeeps DEF EventInv, EventsDue
  <2>. QED BY <2>1, <2>2
<1>. QED BY <1>1, <1>2, <1>3, <1>4, <1>5

\* A started event is the first of its run, after every earlier finished.
LEMMA AnnounceEvents ==
  ASSUME TypeInv, ChildInv, EventInv, Announce
  PROVE  EventInv'
<1>1. /\ UNCHANGED <<reader, target, runsRead, job, closed>>
      /\ job \in Runs /\ job <= runsRead
      /\ reader = "joining" => target # job
      /\ failed' => closed
      /\ EventOrder'
  BY WorkerEvents
<1>2. worker = "announcing" /\ worker' \in {"reading", "unwinding"} /\ Emit(<<"started", job>>)
  BY DEF Announce, AfterEmit
<1>3. CASE ~ Delivers
  <2>1. log' = log /\ closed
    BY <1>2, <1>3 DEF Emit, Delivers, EventInv, EventsDue
  <2>. QED BY <1>1, <1>2, <2>1 DEF EventInv, EventsDue
<1>4. CASE Delivers
  <2>1. /\ log \in Seq(Events) /\ log' \in Seq(Events)
        /\ Len(log') = Len(log) + 1
        /\ \A i \in 1..Len(log) : log'[i] = log[i]
        /\ log'[Len(log')] = <<"started", job>>
    BY <1>1, <1>2, <1>4, EmitAppends DEF TypeInv, TypeOK, Events
  <2>2. /\ DOMAIN log = 1..Len(log) /\ DOMAIN log' = 1..(Len(log) + 1) /\ Len(log) \in Nat
    <3>. HIDE DEF Events
    <3>. QED BY <2>1
  <2>3. \A i \in DOMAIN log' : (i \in DOMAIN log /\ log'[i] = log[i]) \/ log'[i] = <<"started", job>>
    BY <2>1, <2>2
  <2>4. \A i \in DOMAIN log' : log'[i][2] <= runsRead
    BY <1>1, <2>3 DEF EventInv, EventsDue
  <2>5. reader = "joining" => \A i \in DOMAIN log' : log'[i][2] # target
    BY <1>1, <2>3 DEF EventInv, EventsDue
  <2>6. \A i \in DOMAIN log' : log'[i] # <<"finished", job>>
    BY <1>2, <2>3 DEF EventInv, EventsDue
  <2>7. ASSUME ~ closed', NEW i \in DOMAIN log', log'[i][1] = "started"
        PROVE  \/ Announced' /\ log'[i][2] = job'
               \/ \E k \in i..Len(log') : log'[k] = <<"finished", log'[i][2]>>
    <3>1. CASE log'[i] = <<"started", job>>
      BY <1>1, <1>2, <3>1 DEF Announced
    <3>2. CASE i \in DOMAIN log /\ log'[i] = log[i]
      <4>1. PICK k \in i..Len(log) : log[k] = <<"finished", log[i][2]>>
        BY <1>1, <1>2, <2>7, <3>2 DEF EventInv, EventsDue, Announced
      <4>. QED BY <2>1, <2>2, <3>2, <4>1
    <3>. QED BY <2>3, <3>1, <3>2
  <2>. QED BY <1>1, <1>2, <2>4, <2>5, <2>6, <2>7 DEF EventInv, EventsDue
<1>. QED BY <1>3, <1>4

\* A finished event is the last of its run.
LEMMA FinishEvents ==
  ASSUME TypeInv, ChildInv, EventInv, Finish
  PROVE  EventInv'
<1>1. /\ UNCHANGED <<reader, target, runsRead, job, closed>>
      /\ job \in Runs /\ job <= runsRead
      /\ reader = "joining" => target # job
      /\ failed' => closed
      /\ EventOrder'
  BY WorkerEvents
<1>2. worker' = "none" /\ Emit(<<"finished", job>>)
  BY DEF Finish
<1>3. CASE ~ Delivers
  <2>1. log' = log /\ closed
    BY <1>2, <1>3 DEF Emit, Delivers, EventInv, EventsDue
  <2>. QED BY <1>1, <1>2, <2>1 DEF EventInv, EventsDue
<1>4. CASE Delivers
  <2>1. /\ log \in Seq(Events) /\ log' \in Seq(Events)
        /\ Len(log') = Len(log) + 1
        /\ \A i \in 1..Len(log) : log'[i] = log[i]
        /\ log'[Len(log')] = <<"finished", job>>
    BY <1>1, <1>2, <1>4, EmitAppends DEF TypeInv, TypeOK, Events
  <2>2. /\ DOMAIN log = 1..Len(log) /\ DOMAIN log' = 1..(Len(log) + 1) /\ Len(log) \in Nat
    <3>. HIDE DEF Events
    <3>. QED BY <2>1
  <2>3. \A i \in DOMAIN log' : (i \in DOMAIN log /\ log'[i] = log[i]) \/ log'[i] = <<"finished", job>>
    BY <2>1, <2>2
  <2>4. \A i \in DOMAIN log' : log'[i][2] <= runsRead
    BY <1>1, <2>3 DEF EventInv, EventsDue
  <2>5. reader = "joining" => \A i \in DOMAIN log' : log'[i][2] # target
    BY <1>1, <2>3 DEF EventInv, EventsDue
  <2>6. ASSUME ~ closed', NEW i \in DOMAIN log', log'[i][1] = "started"
        PROVE  \E k \in i..Len(log') : log'[k] = <<"finished", log'[i][2]>>
    <3>1. i \in DOMAIN log /\ log'[i] = log[i]
      BY <2>3, <2>6
    <3>2. CASE log[i][2] = job
      BY <2>1, <2>2, <3>1, <3>2
    <3>3. CASE \E k \in i..Len(log) : log[k] = <<"finished", log[i][2]>>
      BY <2>1, <2>2, <3>1, <3>3
    <3>. QED BY <1>1, <2>6, <3>1, <3>2, <3>3 DEF EventInv, EventsDue
  <2>. QED BY <1>1, <1>2, <2>4, <2>5, <2>6 DEF EventInv, EventsDue
<1>. QED BY <1>3, <1>4

\* The log and the events still to come always fit together.
LEMMA EventInvHolds == Spec => []EventInv
<1>1. Init => EventInv
  <2>. SUFFICES ASSUME Init PROVE EventInv
    OBVIOUS
  <2>1. log = <<>> /\ DOMAIN log = {}
    BY DEF Init
  <2>. QED BY <2>1 DEF Init, EventInv, EventsDue, EventOrder
<1>2. TypeInv /\ ChildInv /\ EventInv /\ [Next]_vars => EventInv'
  <2>. SUFFICES ASSUME TypeInv, ChildInv, EventInv, [Next]_vars PROVE EventInv'
    OBVIOUS
  <2>a. TypeOK
    BY DEF TypeInv
  <2>c. runsRead \in 0..MaxRuns /\ runsRead <= runsRead
    BY DEF TypeInv, TypeOK
  <2>1. CASE ReadRun
    BY <2>1, ReadRunEvents
  <2>2. CASE ReadStop
    <3>1. /\ UNCHANGED <<runsRead, worker, job, closed, log>>
          /\ failed' => failed \/ closed
          /\ reader' # "joining"
      <4>1. EmitOther \/ UNCHANGED output
        BY <2>2 DEF ReadStop
      <4>. QED BY <2>2, <4>1, SendsNothing DEF ReadStop, NextRequest, workerVars
    <3>. QED BY <2>c, <3>1, LogKeeps DEF Announced
  <2>3. CASE ReadOther
    <3>1. /\ UNCHANGED <<runsRead, worker, job, closed, log>>
          /\ failed' => failed \/ closed
          /\ reader' # "joining"
      BY <2>3, <2>a DEF ReadOther, NextRequest, EmitOther, workerVars
    <3>. QED BY <2>c, <3>1, LogKeeps DEF Announced
  <2>4. CASE ReadEnd
    <3>1. /\ UNCHANGED <<runsRead, worker, job, closed, failed, log>>
          /\ reader' # "joining"
      BY <2>4, <2>a DEF ReadEnd, output, workerVars
    <3>. QED BY <2>c, <3>1, LogKeeps DEF Announced
  <2>5. CASE LaunchWorker
    BY <2>5, LaunchEvents
  <2>6. CASE DeliverStop
    <3>1. /\ UNCHANGED <<runsRead, worker, job, closed, log>>
          /\ failed' => failed \/ closed
          /\ reader' # "joining"
      BY <2>6, <2>a DEF DeliverStop, NextRequest, EmitOther, workerVars
    <3>. QED BY <2>c, <3>1, LogKeeps DEF Announced
  <2>7. CASE Drain
    <3>1. /\ UNCHANGED <<runsRead, worker, job, closed, failed, log>>
          /\ reader' # "joining"
      BY <2>7, <2>a DEF Drain, output, workerVars
    <3>. QED BY <2>c, <3>1, LogKeeps DEF Announced
  <2>8. CASE DrainSignal
    <3>1. /\ UNCHANGED <<runsRead, worker, job, closed, failed, log>>
          /\ reader' # "joining"
      BY <2>8, <2>a DEF DrainSignal, output, workerVars
    <3>. QED BY <2>c, <3>1, LogKeeps DEF Announced
  <2>9. CASE HelperExit
    <3>1. /\ UNCHANGED <<runsRead, worker, job, closed, failed, log>>
          /\ reader' # "joining"
      BY <2>9, <2>a DEF HelperExit, output, workerVars
    <3>. QED BY <2>c, <3>1, LogKeeps DEF Announced
  <2>10. CASE RefuseRun
    <3>1. /\ UNCHANGED <<reader, target, runsRead, job, closed, log>>
          /\ failed' => failed \/ closed
          /\ worker = "starting" /\ worker' = "clearing"
      BY <2>10, <2>a DEF RefuseRun, EmitOther, readerVars
    <3>. QED BY <2>c, <3>1, LogKeeps DEF Announced
  <2>11. CASE Spawn
    <3>1. /\ UNCHANGED <<reader, target, runsRead, job, closed, failed, log>>
          /\ worker = "starting" /\ worker' = "publishing"
      BY <2>11, <2>a DEF Spawn, output, readerVars
    <3>. QED BY <2>c, <3>1, LogKeeps DEF Announced
  <2>12. CASE PublishChild
    <3>1. /\ UNCHANGED <<reader, target, runsRead, job, closed, failed, log>>
          /\ worker = "publishing" /\ worker' = "announcing"
      BY <2>12, <2>a DEF PublishChild, output, readerVars
    <3>. QED BY <2>c, <3>1, LogKeeps DEF Announced
  <2>13. CASE Announce
    BY <2>13, AnnounceEvents
  <2>14. CASE TakeLine
    <3>1. /\ UNCHANGED <<reader, target, runsRead, job, closed, failed, log>>
          /\ worker = "reading" /\ worker' = "forwarding"
      BY <2>14, <2>a DEF TakeLine, output, readerVars
    <3>. QED BY <2>c, <3>1, LogKeeps DEF Announced
  <2>15. CASE ForwardLine
    <3>1. /\ UNCHANGED <<reader, target, runsRead, job, closed, log>>
          /\ failed' => failed \/ closed
          /\ worker = "forwarding" /\ worker' \in {"reading", "unwinding"}
      <4>1. EmitOther \/ UNCHANGED output
        BY <2>15 DEF ForwardLine, output
      <4>. QED BY <2>15, <4>1, SendsNothing DEF ForwardLine, AfterEmit, readerVars
    <3>. QED BY <2>c, <3>1, LogKeeps DEF Announced
  <2>16. CASE EndOfOutput
    <3>1. /\ UNCHANGED <<reader, target, runsRead, job, closed, failed, log>>
          /\ worker = "reading" /\ worker' = "waiting"
      BY <2>16, <2>a DEF EndOfOutput, output, readerVars
    <3>. QED BY <2>c, <3>1, LogKeeps DEF Announced
  <2>17. CASE Unwind
    <3>1. /\ UNCHANGED <<reader, target, runsRead, job, closed, failed, log>>
          /\ worker = "unwinding" /\ worker' = "stopping"
      BY <2>17, <2>a DEF Unwind, output, readerVars
    <3>. QED BY <2>c, <3>1, LogKeeps DEF Announced
  <2>18. CASE StopChild
    <3>1. /\ UNCHANGED <<reader, target, runsRead, job, closed, failed, log>>
          /\ worker = "stopping" /\ worker' = "waiting"
      BY <2>18, <2>a DEF StopChild, output, readerVars
    <3>. QED BY <2>c, <3>1, LogKeeps DEF Announced
  <2>19. CASE Reap
    <3>1. /\ UNCHANGED <<reader, target, runsRead, job, closed, failed, log>>
          /\ worker = "waiting" /\ worker' = "clearing"
      BY <2>19, <2>a DEF Reap, output, readerVars
    <3>. QED BY <2>c, <3>1, LogKeeps DEF Announced
  <2>20. CASE PublishIdle
    <3>1. /\ UNCHANGED <<reader, target, runsRead, job, closed, failed, log>>
          /\ worker = "clearing" /\ worker' = "finishing"
      BY <2>20, <2>a DEF PublishIdle, output, readerVars
    <3>. QED BY <2>c, <3>1, LogKeeps DEF Announced
  <2>21. CASE Finish
    BY <2>21, FinishEvents
  <2>22. CASE CloseOutput
    <3>1. /\ UNCHANGED <<reader, target, runsRead, worker, job, failed, log>>
          /\ closed'
      BY <2>22, <2>a DEF CloseOutput, output, readerVars, workerVars
    <3>. QED BY <2>c, <3>1, LogKeeps DEF Announced
  <2>23. ASSUME NEW r \in Runs, ChildStep(r) PROVE EventInv'
    <3>1. UNCHANGED <<reader, target, runsRead, worker, job, closed, failed, log>>
      BY <2>23, <2>a, ChildTypes DEF output, readerVars, workerVars
    <3>. QED BY <2>c, <3>1, LogKeeps DEF Announced
  <2>24. CASE UNCHANGED vars
    <3>1. /\ UNCHANGED <<reader, target, runsRead, worker, job, closed, failed, log>>
      BY <2>24, <2>a DEF vars, output, readerVars, workerVars
    <3>. QED BY <2>c, <3>1, LogKeeps DEF Announced
  <2>. QED BY <2>1, <2>2, <2>3, <2>4, <2>5, <2>6, <2>7, <2>8, <2>9, <2>10, <2>11, <2>12,
              <2>13, <2>14, <2>15, <2>16, <2>17, <2>18, <2>19, <2>20, <2>21, <2>22, <2>23,
              <2>24 DEF Next, Request, ReaderStep, WorkerStep, Quiet
<1>. QED BY <1>1, <1>2, TypeInvHolds, ChildInvHolds, PTL DEF Spec

\* The GUI sees each run start and finish at most once and in order, and no
\* run start before every run started earlier has finished, however requests,
\* refusals, stops and the loss of the GUI interleave.
THEOREM EventOrderTheorem == Spec => []EventOrder
BY EventInvHolds, PTL DEF EventInv

\* A run the GUI is told has finished has no child left and has given the
\* slot back.
THEOREM FinishedMeansIdleTheorem == Spec => []FinishedMeansIdle
<1>1. TypeInv /\ ChildInv /\ EventInv => FinishedMeansIdle
  <2>. SUFFICES ASSUME TypeInv, ChildInv, EventInv, NEW i \in DOMAIN log, log[i][1] = "finished"
                PROVE  /\ child[log[i][2]].state \in {"none", "reaped"}
                       /\ ~ (shared.running /\ shared.id = log[i][2])
    BY DEF FinishedMeansIdle
  <2>1. log[i][2] \in Runs /\ log[i] = <<"finished", log[i][2]>>
    BY EventOfRun
  <2>2. worker # "none" => log[i][2] # job
    BY <2>1 DEF EventInv, EventsDue
  <2>3. ~ KillReaches(log[i][2])
    BY <2>1, <2>2 DEF ChildInv, ChildOfJob, Serving
  <2>4. ~ (shared.running /\ shared.id = log[i][2])
    BY <2>2 DEF ChildInv, SlotOfJob
  <2>. QED BY <2>3, <2>4 DEF KillReaches
<1>. QED BY <1>1, TypeInvHolds, ChildInvHolds, EventInvHolds, PTL

\* Every variable keeps its type: in particular the pipe never holds more
\* than its capacity and no pid but a request's is ever published.
THEOREM TypeTheorem == Spec => []TypeOK
BY TypeInvHolds, PTL DEF TypeInv

=============================================================================
