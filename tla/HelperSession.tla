---------------------------- MODULE HelperSession ----------------------------
(***************************************************************************)
(* The privileged helper (native/privileged_helper.cpp): a reader thread   *)
(* takes requests from the GUI's pipe, a worker thread runs one child at a *)
(* time and forwards its output, and the child is an engine that stops     *)
(* only at the boundaries it chooses once its SIGINT handler is installed. *)
(* A step is what a thread does under active_mutex_, or one kill, emit,    *)
(* spawn or wait outside it.  A run request is named by its number, which  *)
(* stands for its id and for its child's pid; 0 is no request and no pid.  *)
(***************************************************************************)
EXTENDS Integers, Sequences, FiniteSets

CONSTANTS
    MaxRuns,   \* bound: run requests the GUI sends
    PipeLines  \* bound: lines the child's output pipe holds

ASSUME Bounds == MaxRuns \in Nat \ {0} /\ PipeLines \in Nat \ {0}

Runs == 1..MaxRuns

VARIABLES
    reader,     \* where the reader thread is
    target,     \* what it saw under the lock: a run to start, a pid to signal
    signalled,  \* the pid stop_active_and_wait has signalled
    runsRead,   \* run requests read so far
    worker,     \* where the worker thread is; "none" when it has ended
    job,        \* its request
    queuedStop, \* it must deliver the queued Stop after this line
    shared,     \* what active_mutex_ guards
    child,      \* the child of each request
    pipe,       \* the running child's output pipe: unread lines, read end open
    closed,     \* the GUI has closed the helper's output
    failed,     \* transport_failed_
    log,        \* started and finished events the GUI received
    promised    \* runs for which it was told that a Stop is delivered or queued
readerVars == <<reader, target, signalled, runsRead>>
workerVars == <<worker, job, queuedStop>>
output == <<failed, log>>
vars == <<readerVars, workerVars, shared, child, pipe, closed, output, promised>>

-----------------------------------------------------------------------------
(* The child.                                                              *)

Unborn == [state |-> "none", engine |-> FALSE, asked |-> FALSE, silent |-> TRUE,
           writing |-> FALSE, end |-> ""]
Alive(c) == c.state \in {"starting", "running", "commit"}
Handles(c) == c.engine /\ c.state # "starting"
Dead(c, how) == [c EXCEPT !.state = "zombie", !.end = how]

\* kill(-pid, SIGINT): fatal until an engine has its handler; no other
\* child has one.  A child already dead does not notice.
Interrupt(c) == IF ~ Alive(c) THEN c
                ELSE IF Handles(c) THEN [c EXCEPT !.asked = TRUE]
                ELSE Dead(c, "interrupted")
Kill(r) == child' = [child EXCEPT ![r] = Interrupt(@)]
KillReaches(r) == child[r].state \notin {"none", "reaped"}

Becomes(r, c) == child' = [child EXCEPT ![r] = c]
ChildOnly == UNCHANGED <<readerVars, workerVars, shared, closed, output, promised>>

\* main of a worker installs its handlers before it prints anything.
InstallHandler(r) ==
    /\ child[r].state = "starting"
    /\ Becomes(r, [child[r] EXCEPT !.state = "running"])
    /\ UNCHANGED pipe /\ ChildOnly

\* A line is written when the pipe has room; a child in write() does nothing
\* else.  spawn_command restores SIGPIPE's default for it, so a write after
\* the read end is closed kills it where it is.
BeginWrite(r) ==
    /\ child[r].state \in {"running", "commit"} /\ ~ child[r].writing
    /\ Becomes(r, [child[r] EXCEPT !.writing = TRUE])
    /\ UNCHANGED pipe /\ ChildOnly
\* A mistaken variant: a line is written whether the pipe has room or not.
PipeUnbounded == TRUE
PipeHasRoom == pipe.lines < PipeLines
FinishWrite(r) ==
    /\ Alive(child[r]) /\ child[r].writing
    /\ \/ /\ pipe.open /\ PipeHasRoom
          /\ pipe' = [pipe EXCEPT !.lines = @ + 1]
          /\ Becomes(r, [child[r] EXCEPT !.writing = FALSE, !.silent = FALSE])
       \/ /\ ~ pipe.open
          /\ Becomes(r, Dead(child[r], IF child[r].state = "commit" THEN "torn" ELSE "cut"))
          /\ UNCHANGED pipe
    /\ ChildOnly

\* An engine enters and leaves the part of its work that must not be cut
\* short; it looks at Stop outside.
BeginCommit(r) ==
    /\ child[r].state = "running" /\ child[r].engine
    /\ ~ child[r].asked /\ ~ child[r].writing
    /\ Becomes(r, [child[r] EXCEPT !.state = "commit"])
    /\ UNCHANGED pipe /\ ChildOnly
EndCommit(r) ==
    /\ child[r].state = "commit" /\ ~ child[r].writing
    /\ Becomes(r, [child[r] EXCEPT !.state = "running"])
    /\ UNCHANGED pipe /\ ChildOnly
Exit(r) ==
    /\ child[r].state \in {"starting", "running"} /\ ~ child[r].writing
    /\ Becomes(r, Dead(child[r], "exited"))
    /\ UNCHANGED pipe /\ ChildOnly

ChildStep(r) == InstallHandler(r) \/ BeginWrite(r) \/ FinishWrite(r)
                \/ BeginCommit(r) \/ EndCommit(r) \/ Exit(r)

-----------------------------------------------------------------------------
(* emit.                                                                   *)

Delivers == ~ closed /\ ~ failed
Emit(event) == /\ failed' = (failed \/ closed)
               /\ log' = IF Delivers THEN Append(log, event) ELSE log
EmitOther == failed' = (failed \/ closed) /\ UNCHANGED log

\* The reader's loop looks at transport_failed_ before the next getline.
NextRequest == reader' = IF failed' THEN "draining" ELSE "reading"

-----------------------------------------------------------------------------
(* The reader thread.                                                      *)

Busy == shared.running \/ shared.pid # 0

\* handle_run up to the join: malformed requests and those that find an
\* operation active are answered and finished at once.
ReadRun ==
    /\ reader = "reading"
    /\ runsRead < MaxRuns
    /\ runsRead' = runsRead + 1
    /\ \/ /\ Emit(<<"finished", runsRead'>>)
          /\ NextRequest
          /\ UNCHANGED target
       \/ /\ ~ Busy
          /\ target' = runsRead'
          /\ reader' = "joining"
          /\ UNCHANGED output
    /\ UNCHANGED <<signalled, workerVars, shared, child, pipe, closed, promised>>

\* A mistaken variant: the previous worker is taken to have ended.
WithoutJoin == TRUE
Joined == worker = "none"

\* The rest of handle_run; std::thread may fail to start one.
LaunchWorker ==
    /\ reader = "joining"
    /\ Joined
    /\ \E engine \in BOOLEAN :
         \/ /\ shared' = [shared EXCEPT !.running = TRUE, !.id = target,
                          !.waits = engine, !.pending = FALSE]
            /\ worker' = "starting"
            /\ job' = target
            /\ reader' = "reading"
            /\ UNCHANGED output
         \/ /\ shared' = [shared EXCEPT !.id = target, !.waits = engine, !.pending = FALSE]
            /\ EmitOther
            /\ NextRequest
            /\ UNCHANGED <<worker, job>>
    /\ UNCHANGED <<target, signalled, runsRead, queuedStop, child, pipe, closed, promised>>

\* A mistaken variant: a stop is held back only until the pid exists.
DefersOnlyUnborn == shared.running /\ shared.pid = 0
Defers == /\ shared.running
          /\ shared.pid = 0 \/ (shared.waits /\ ~ shared.hasOutput)

\* handle_stop up to the kill.
ReadStop ==
    /\ reader = "reading"
    /\ \/ /\ ~ Busy
          /\ EmitOther /\ NextRequest
          /\ UNCHANGED <<target, shared, promised>>
       \/ /\ Busy /\ Defers
          /\ shared' = [shared EXCEPT !.pending = TRUE]
          /\ promised' = promised \cup {shared.id}
          /\ EmitOther /\ NextRequest
          /\ UNCHANGED target
       \/ /\ Busy /\ ~ Defers
          /\ target' = shared.pid
          /\ reader' = "signalling"
          /\ UNCHANGED <<shared, output, promised>>
    /\ UNCHANGED <<signalled, runsRead, workerVars, child, pipe, closed>>

\* deliver_stop, after the lock was released.
DeliverStop ==
    /\ reader = "signalling"
    /\ Kill(target)
    /\ promised' = IF KillReaches(target) THEN promised \cup {target} ELSE promised
    /\ EmitOther /\ NextRequest
    /\ UNCHANGED <<target, signalled, runsRead, workerVars, shared, pipe, closed>>

\* ping, an unknown action, an invalid request.
ReadOther ==
    /\ reader = "reading"
    /\ EmitOther /\ NextRequest
    /\ UNCHANGED <<target, signalled, runsRead, workerVars, shared, child, pipe, closed,
                   promised>>

\* quit, or the end of the GUI's pipe.
ReadEnd ==
    /\ reader = "reading"
    /\ reader' = "draining"
    /\ UNCHANGED <<target, signalled, runsRead, workerVars, shared, child, pipe, closed,
                   output, promised>>

\* A mistaken variant: shutdown waits without signalling.
DrainsSilently == FALSE

\* stop_active_and_wait: one SIGINT to each pid it sees, then look again.
DrainSignals == shared.pid # 0 /\ shared.pid # signalled
Drain ==
    /\ reader = "draining"
    /\ \/ /\ DrainSignals
          /\ target' = shared.pid
          /\ reader' = "drainSignal"
       \/ /\ ~ DrainSignals /\ ~ shared.running
          /\ reader' = "exiting"
          /\ UNCHANGED target
    /\ UNCHANGED <<signalled, runsRead, workerVars, shared, child, pipe, closed, output,
                   promised>>
DrainSignal ==
    /\ reader = "drainSignal"
    /\ Kill(target)
    /\ signalled' = target
    /\ reader' = "draining"
    /\ UNCHANGED <<target, runsRead, workerVars, shared, pipe, closed, output, promised>>
HelperExit ==
    /\ reader = "exiting"
    /\ Joined
    /\ reader' = "exited"
    /\ UNCHANGED <<target, signalled, runsRead, workerVars, shared, child, pipe, closed,
                   output, promised>>

ReaderStep == LaunchWorker \/ DeliverStop \/ Drain \/ DrainSignal \/ HelperExit
Request == ReadRun \/ ReadStop \/ ReadOther \/ ReadEnd

-----------------------------------------------------------------------------
(* The worker thread: run_request.                                         *)

\* The policy, the executable, the pipe or the spawn fails.
RefuseRun ==
    /\ worker = "starting"
    /\ EmitOther
    /\ worker' = "clearing"
    /\ UNCHANGED <<readerVars, job, queuedStop, shared, child, pipe, closed, promised>>

Spawn ==
    /\ worker = "starting"
    /\ Becomes(job, [Unborn EXCEPT !.state = "starting", !.engine = shared.waits])
    /\ pipe' = [lines |-> 0, open |-> TRUE]
    /\ worker' = "publishing"
    /\ UNCHANGED <<readerVars, job, queuedStop, shared, closed, output, promised>>

\* A mistaken variant: publishing the child drops a stop already asked for.
PublishForgetsStop ==
    /\ worker = "publishing"
    /\ shared' = [shared EXCEPT !.pid = job, !.id = job, !.hasOutput = FALSE, !.pending = FALSE]
    /\ queuedStop' = (shared.pending /\ ~ shared.waits)
    /\ worker' = "announcing"
    /\ UNCHANGED <<readerVars, job, child, pipe, closed, output, promised>>
PublishChild ==
    /\ worker = "publishing"
    /\ shared' = [shared EXCEPT !.pid = job, !.id = job, !.hasOutput = FALSE,
                  !.pending = @ /\ shared.waits]
    /\ queuedStop' = (shared.pending /\ ~ shared.waits)
    /\ worker' = "announcing"
    /\ UNCHANGED <<readerVars, job, child, pipe, closed, output, promised>>

\* What follows an emit: the queued Stop, or the exception of a lost GUI.
AfterEmit ==
    IF Delivers
    THEN /\ IF queuedStop THEN Kill(job) ELSE UNCHANGED child
         /\ worker' = "reading"
    ELSE worker' = "unwinding" /\ UNCHANGED child

Announce ==
    /\ worker = "announcing"
    /\ Emit(<<"started", job>>)
    /\ AfterEmit
    /\ queuedStop' = FALSE
    /\ UNCHANGED <<readerVars, job, shared, pipe, closed, promised>>

\* A line: the first shows that an engine's handler is installed.
TakeLine ==
    /\ worker = "reading"
    /\ pipe.lines > 0
    /\ pipe' = [pipe EXCEPT !.lines = @ - 1]
    /\ IF shared.hasOutput THEN UNCHANGED <<shared, queuedStop>>
       ELSE /\ shared' = [shared EXCEPT !.hasOutput = TRUE, !.pending = FALSE]
            /\ queuedStop' = shared.pending
    /\ worker' = "forwarding"
    /\ UNCHANGED <<readerVars, job, child, closed, output, promised>>

\* A progress line that repeats the last percentage is not forwarded.
ForwardLine ==
    /\ worker = "forwarding"
    /\ \/ EmitOther /\ AfterEmit
       \/ /\ ~ queuedStop
          /\ worker' = "reading"
          /\ UNCHANGED <<child, output>>
    /\ queuedStop' = FALSE
    /\ UNCHANGED <<readerVars, job, shared, pipe, closed, promised>>

EndOfOutput ==
    /\ worker = "reading"
    /\ pipe.lines = 0
    /\ child[job].state = "zombie"
    /\ worker' = "waiting"
    /\ UNCHANGED <<readerVars, job, queuedStop, shared, child, pipe, closed, output, promised>>

\* The exception leaves the block that owns the pipe's read end before
\* stop_and_reap runs.
Unwind ==
    /\ worker = "unwinding"
    /\ pipe' = [lines |-> 0, open |-> FALSE]
    /\ worker' = "stopping"
    /\ UNCHANGED <<readerVars, job, queuedStop, shared, child, closed, output, promised>>
\* A mistaken variant: the worker goes on before the child it stops is reaped.
StopWithoutReap ==
    /\ worker = "stopping"
    /\ Kill(job)
    /\ worker' = "clearing"
    /\ UNCHANGED <<readerVars, job, queuedStop, shared, pipe, closed, output, promised>>
StopChild ==
    /\ worker = "stopping"
    /\ Kill(job)
    /\ worker' = "waiting"
    /\ UNCHANGED <<readerVars, job, queuedStop, shared, pipe, closed, output, promised>>

\* A mistaken variant: finished is sent before the slot is cleared.
ReapAndReport ==
    /\ worker = "waiting"
    /\ child[job].state = "zombie"
    /\ Becomes(job, [child[job] EXCEPT !.state = "reaped"])
    /\ Emit(<<"finished", job>>)
    /\ worker' = "clearing"
    /\ UNCHANGED <<readerVars, job, queuedStop, shared, pipe, closed, promised>>
Reap ==
    /\ worker = "waiting"
    /\ child[job].state = "zombie"
    /\ Becomes(job, [child[job] EXCEPT !.state = "reaped"])
    /\ worker' = "clearing"
    /\ UNCHANGED <<readerVars, job, queuedStop, shared, pipe, closed, output, promised>>

Idle == [running |-> FALSE, pid |-> 0, id |-> 0, hasOutput |-> FALSE, waits |-> FALSE,
         pending |-> FALSE]

\* Idle is published before the completion is reported.
PublishIdle ==
    /\ worker = "clearing"
    /\ shared' = Idle
    /\ worker' = "finishing"
    /\ UNCHANGED <<readerVars, job, queuedStop, child, pipe, closed, output, promised>>
Finish ==
    /\ worker = "finishing"
    /\ Emit(<<"finished", job>>)
    /\ worker' = "none"
    /\ UNCHANGED <<readerVars, job, queuedStop, shared, child, pipe, closed, promised>>

WorkerStep == RefuseRun \/ Spawn \/ PublishChild \/ Announce \/ TakeLine \/ ForwardLine
              \/ EndOfOutput \/ Unwind \/ StopChild \/ Reap \/ PublishIdle \/ Finish

-----------------------------------------------------------------------------
CloseOutput ==
    /\ ~ closed
    /\ closed' = TRUE
    /\ UNCHANGED <<readerVars, workerVars, shared, child, pipe, output, promised>>

\* Nothing left to do: the helper has exited, or its reader waits for the GUI.
Quiet == (reader = "exited" \/ (reader = "reading" /\ worker = "none")) /\ UNCHANGED vars

Init ==
    /\ reader = "reading" /\ target = 0 /\ signalled = 0 /\ runsRead = 0
    /\ worker = "none" /\ job = 0 /\ queuedStop = FALSE
    /\ shared = Idle
    /\ child = [r \in Runs |-> Unborn]
    /\ pipe = [lines |-> 0, open |-> FALSE]
    /\ closed = FALSE /\ failed = FALSE /\ log = <<>> /\ promised = {}

Next == \/ Request \/ ReaderStep \/ WorkerStep \/ CloseOutput \/ Quiet
        \/ \E r \in Runs : ChildStep(r)

Spec == Init /\ [][Next]_vars

\* Each thread runs on.  Of a child only what the helper relies on is
\* assumed: it gets as far as its first line, its writes return when they
\* can, it does not stay in a commit for ever, and an engine that keeps
\* passing a boundary once it is asked to stop sees that it is.
FairChild(r) ==
    /\ WF_vars(InstallHandler(r))
    /\ WF_vars(child[r].silent /\ BeginWrite(r))
    /\ WF_vars(FinishWrite(r))
    /\ SF_vars(EndCommit(r))
    /\ SF_vars(child[r].asked /\ Exit(r))
FairSpec == /\ Spec
            /\ WF_vars(ReaderStep)
            /\ WF_vars(WorkerStep)
            /\ \A r \in Runs : FairChild(r)

-----------------------------------------------------------------------------
ReaderStates == {"reading", "joining", "signalling", "draining", "drainSignal", "exiting",
                 "exited"}
WorkerStates == {"none", "starting", "publishing", "announcing", "reading", "forwarding",
                 "unwinding", "stopping", "waiting", "clearing", "finishing"}
Children == [state : {"none", "starting", "running", "commit", "zombie", "reaped"},
             engine : BOOLEAN, asked : BOOLEAN, silent : BOOLEAN, writing : BOOLEAN,
             end : {"", "exited", "interrupted", "cut", "torn"}]

TypeOK ==
    /\ reader \in ReaderStates /\ target \in 0..MaxRuns
    /\ signalled \in 0..MaxRuns /\ runsRead \in 0..MaxRuns
    /\ worker \in WorkerStates /\ job \in 0..MaxRuns /\ queuedStop \in BOOLEAN
    /\ shared \in [running : BOOLEAN, pid : 0..MaxRuns, id : 0..MaxRuns,
                   hasOutput : BOOLEAN, waits : BOOLEAN, pending : BOOLEAN]
    /\ child \in [Runs -> Children]
    /\ pipe \in [lines : 0..PipeLines, open : BOOLEAN]
    /\ closed \in BOOLEAN /\ failed \in BOOLEAN
    /\ log \in Seq({"started", "finished"} \X Runs)
    /\ promised \subseteq 0..MaxRuns

\* The helper never exits, whichever of quit, end of input and lost output
\* ends it, while a child is alive or unreaped.
NoOrphan == reader = "exited" => \A r \in Runs : child[r].state \in {"none", "reaped"}

\* Two children never exist at once, not even while one is spawned but not
\* yet published or is being reaped after a lost GUI.
OneChild == Cardinality({r \in Runs : KillReaches(r)}) <= 1

\* The GUI sees each run finish at most once and start at most once, never
\* started after finished, and no run started before every run started
\* earlier has finished.
EventOrder ==
    \A i, j \in DOMAIN log : i < j =>
        /\ log[i] # log[j]
        /\ log[i][1] = "finished" => log[j] # <<"started", log[i][2]>>
        /\ (log[i][1] = "started" /\ log[j][1] = "started")
              => \E k \in i..j : log[k] = <<"finished", log[i][2]>>

\* When the GUI learns that a run finished, its child is gone and the helper
\* is ready for the next: a follow-on run is not refused because of it.
FinishedMeansIdle ==
    \A i \in DOMAIN log : log[i][1] = "finished" =>
        LET r == log[i][2]
        IN child[r].state \in {"none", "reaped"} /\ ~ (shared.running /\ shared.id = r)

\* A Stop waits for the engine's handler: a SIGINT kills an engine that has
\* not installed it only when the session is coming to its end.
StopWaitsForHandler ==
    \A r \in Runs : child[r].engine /\ child[r].end = "interrupted" =>
        failed \/ reader \in {"draining", "drainSignal", "exiting", "exited"}

\* A Stop reported as delivered or queued reaches the child, unless the
\* operation ends by itself first.
StopReachesChild ==
    \A r \in Runs : r \in promised ~>
        \/ child[r].asked \/ child[r].state \in {"zombie", "reaped"}
        \/ ~ (shared.running /\ shared.id = r)

\* Once the session ends, the helper exits; no engine is waited for in vain.
ShutdownEnds == reader = "draining" ~> reader = "exited"

\* An engine is never killed between the boundaries at which it stops.
EngineStopsAtBoundary == \A r \in Runs : child[r].end # "torn"
=============================================================================
