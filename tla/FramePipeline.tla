----------------------------- MODULE FramePipeline -----------------------------
(***************************************************************************)
(* inference/frame_pipeline.py: the render loops of the sessions, all on    *)
(* the one runtime of the pod.  A loop suspends in two places: in           *)
(* read_exactly, and in the __anext__ of the block it submitted; the frames *)
(* that wait in the queue are taken without suspending.  What it pushes to  *)
(* the video track is kept here per block; AvatarVideoTrack is a module of  *)
(* its own, and so is AudioRing.                                            *)
(***************************************************************************)
EXTENDS ArachneRuntime, SequencesExt

CONSTANT Pipelines

VARIABLE pipe

vars == <<runtimeVars, pipe>>

\* `cancel`: stop() has set _cancelled and called task.cancel(), which the task has
\* yet to notice; or Condition.wait had ended, and asyncio.wait_for swallowed it.
PipeState ==
    [at     : {"new", "reading", "pulling", "ended", "failed"},
     cancel : {"none", "pending", "swallowed"},
     block  : 0 .. MaxBlocks,
     shown  : Seq(Frames)]       \* the frames of that block pushed to the track

Init ==
    /\ InitRuntime
    /\ pipe = [s \in Pipelines |->
                  [at |-> "new", cancel |-> "none", block |-> 0, shown |-> << >>]]

_cancelled(s) == pipe[s].cancel # "none"

Start(s) ==
    /\ executor = "up"
    /\ pipe[s].at = "new"
    /\ pipe' = [pipe EXCEPT ![s].at = "reading"]
    /\ UNCHANGED runtimeVars

\* stop(), up to its `await self._task`.
Stop(s) ==
    /\ LoopRuns
    /\ pipe[s].at \in {"reading", "pulling"}
    /\ ~_cancelled(s)
    /\ pipe' = [pipe EXCEPT ![s].cancel = "pending"]
    /\ UNCHANGED runtimeVars

\* The task ends with CancelledError.  A block it was pulling is left to the worker.
Cancelled(s) ==
    /\ LoopRuns
    /\ pipe[s].at \in {"reading", "pulling"}
    /\ pipe[s].cancel = "pending"
    /\ pipe' = [pipe EXCEPT ![s].at = "ended"]
    /\ UNCHANGED runtimeVars

Swallowed(s) ==
    /\ LoopRuns
    /\ pipe[s].at = "reading"
    /\ pipe[s].cancel = "pending"
    /\ pipe' = [pipe EXCEPT ![s].cancel = "swallowed"]
    /\ UNCHANGED runtimeVars

\* read_exactly times out, or its ring is closed, and the loop sees the flag.
ReadStops(s) ==
    /\ LoopRuns
    /\ pipe[s].at = "reading"
    /\ pipe[s].cancel = "swallowed"
    /\ pipe' = [pipe EXCEPT ![s].at = "ended"]
    /\ UNCHANGED runtimeVars

\* The audio is there, or silence stands in for it: the block is submitted.
Infer(s) ==
    /\ executor = "up"
    /\ pipe[s].at = "reading"
    /\ pipe[s].cancel # "pending"
    /\ Len(blocks) < MaxBlocks
    /\ Submit
    /\ pipe' = [pipe EXCEPT ![s].at = "pulling",
                            ![s].block = Len(blocks) + 1,
                            ![s].shown = << >>]
    /\ UNCHANGED <<worker, executor>>

\* The queue of the block that s pulls, and the frames in it: a sentinel comes last.
Queue(s) == blocks[pipe[s].block].queue
FramesOf(q) == IF q = << >> \/ Last(q) \in Frames THEN q ELSE Front(q)

\* Mutants: the loop does not look at _cancelled; it keeps the newest frame only.
PullIgnoringStop(s) ==
    /\ LoopRuns
    /\ pipe[s].at = "pulling"
    /\ pipe[s].cancel # "pending"
    /\ Queue(s) # << >>
    /\ blocks' = [blocks EXCEPT ![pipe[s].block].queue = << >>]
    /\ pipe' = [pipe EXCEPT
                  ![s].shown = @ \o FramesOf(Queue(s)),
                  ![s].at = CASE Last(Queue(s)) = Err -> "failed"
                              [] Last(Queue(s)) = Ok  -> IF _cancelled(s) THEN "ended"
                                                                          ELSE "reading"
                              [] OTHER -> "pulling"]
    /\ UNCHANGED <<worker, executor>>

PullNewest(s) ==
    /\ LoopRuns
    /\ pipe[s].at = "pulling"
    /\ pipe[s].cancel # "pending"
    /\ Queue(s) # << >>
    /\ blocks' = [blocks EXCEPT ![pipe[s].block].queue = << >>]
    /\ pipe' = [pipe EXCEPT
                  ![s].shown = IF FramesOf(Queue(s)) = << >> THEN @
                               ELSE Append(@, Last(FramesOf(Queue(s)))),
                  ![s].at = CASE _cancelled(s)         -> "ended"
                              [] Last(Queue(s)) = Err -> "failed"
                              [] Last(Queue(s)) = Ok  -> "reading"
                              [] OTHER                -> "pulling"]
    /\ UNCHANGED <<worker, executor>>

\* The task is resumed with items in the queue.  Stopped, it drops the frame it gets
\* and returns; otherwise it pushes all the frames that wait there to the track.
Pull(s) ==
    /\ LoopRuns
    /\ pipe[s].at = "pulling"
    /\ pipe[s].cancel # "pending"
    /\ Queue(s) # << >>
    /\ \/ /\ _cancelled(s)
          /\ blocks' = [blocks EXCEPT ![pipe[s].block].queue = Tail(@)]
          /\ pipe' = [pipe EXCEPT ![s].at = IF Head(Queue(s)) = Err THEN "failed"
                                                                    ELSE "ended"]
       \/ /\ ~_cancelled(s)
          /\ blocks' = [blocks EXCEPT ![pipe[s].block].queue = << >>]
          /\ pipe' = [pipe EXCEPT
                        ![s].shown = @ \o FramesOf(Queue(s)),
                        ![s].at = CASE Last(Queue(s)) = Err -> "failed"
                                    [] Last(Queue(s)) = Ok  -> "reading"
                                    [] OTHER                -> "pulling"]
    /\ UNCHANGED <<worker, executor>>

\* main.py closes the runtime when the sessions are stopped.
Quiet == \A s \in Pipelines : pipe[s].at \in {"new", "ended", "failed"}

------------------------------------------------------------------------------
LoopStep(s) == Cancelled(s) \/ Swallowed(s) \/ ReadStops(s) \/ Infer(s) \/ Pull(s)

Next ==
    \/ (RuntimeStep \/ Aclose(Quiet)) /\ UNCHANGED pipe
    \/ \E s \in Pipelines : Start(s) \/ Stop(s) \/ LoopStep(s)

Spec == Init /\ [][Next]_vars

\* The event loop resumes every task that can go on, and the GPU pipeline computes
\* its next frame or raises.  read_exactly has a timeout, so it returns.  Nobody has
\* to start, stop or close anything.
Fairness ==
    /\ WF_vars(WorkerStarts /\ UNCHANGED pipe)
    /\ WF_vars(WorkerComputes /\ UNCHANGED pipe)
    /\ WF_vars(Put /\ UNCHANGED pipe)
    /\ WF_vars(AcloseEnds /\ UNCHANGED pipe)
    /\ \A s \in Pipelines : WF_vars(LoopStep(s))

FairSpec == Spec /\ Fairness

------------------------------------------------------------------------------
TypeOK ==
    /\ RuntimeTypeOK
    /\ pipe \in [Pipelines -> PipeState]

\* The frames of block b that have reached its queue.
FramesPut(b) ==
    IF worker.job = b /\ worker.at = "putting" /\ worker.item \in Frames
    THEN blocks[b].made - 1 ELSE blocks[b].made

\* Between the thread and the track no frame is lost, repeated, reordered or taken
\* by another session, and a loop goes on to its next block with this one shown.
BridgeKeepsFrames ==
    \A s \in Pipelines :
        /\ pipe[s].at = "pulling" =>
            pipe[s].shown \o FramesOf(Queue(s)) = [i \in 1 .. FramesPut(pipe[s].block) |-> i]
        /\ pipe[s].at = "reading" /\ pipe[s].block # 0 =>
            pipe[s].shown = [i \in Frames |-> i]

\* After stop() the track gets no frame, not even of a block that is submitted
\* because the cancellation was swallowed.
NoFrameAfterStop ==
    [][\A s \in Pipelines :
        _cancelled(s) => pipe'[s].shown \in {pipe[s].shown, << >>}]_vars

\* Every block that a loop pulls comes to its end, behind whatever other blocks.
BlockCompletes ==
    \A s \in Pipelines : pipe[s].at = "pulling" ~> pipe[s].at # "pulling"

\* `await self._task` in stop() returns.
PipelineStops ==
    \A s \in Pipelines : _cancelled(s) ~> pipe[s].at \in {"ended", "failed"}

\* The one GPU thread is given back, also by a block whose loop has gone.
WorkerFreed == worker.at # "idle" ~> worker.at = "idle"

\* aclose() returns, with the thread joined.
AcloseReturns == executor = "closing" ~> executor = "down"
==============================================================================
