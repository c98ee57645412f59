---------------------------- MODULE ArachneRuntime ----------------------------
(***************************************************************************)
(* inference/arachne_runtime.py: the single GPU worker thread, and the      *)
(* _BlockIterator that carries the frames of a block from that thread to    *)
(* the event loop.  inference/infinitetalk_runtime.py has the same bridge.  *)
(*                                                                          *)
(* A block is known by its place in the order of submission, so the jobs    *)
(* that the executor still holds are the blocks after the worker's.  The    *)
(* model starts when load() has returned.                                   *)
(***************************************************************************)
EXTENDS Integers, Sequences

CONSTANTS
    NumFrames,          \* num_frames of a block
    QueueSize,          \* maxsize of an iterator's queue
    MaxBlocks,          \* bound on the blocks that are submitted
    InferenceMayFail,   \* the GPU pipeline may raise
    ClosesMidBlock      \* aclose() may find the worker at work

ASSUME RuntimeAssumption ==
    /\ NumFrames \in Nat \ {0}
    /\ QueueSize \in Nat \ {0}
    /\ MaxBlocks \in Nat
    /\ InferenceMayFail \in BOOLEAN
    /\ ClosesMidBlock \in BOOLEAN

VARIABLES
    blocks,     \* per submitted block, its iterator's _queue and the frames generated
    worker,     \* the GPU thread: its block, where it is, the item it is handing over
    executor    \* "up", "closing": the event loop sits in shutdown(wait=True), "down"

runtimeVars == <<blocks, worker, executor>>

Frames == 1 .. NumFrames
Ok  == 0                 \* _SENTINEL_OK
Err == -1                \* _SENTINEL_ERR
Items == Frames \cup {Ok, Err}

InitRuntime ==
    /\ blocks = << >>
    /\ worker = [job |-> 0, at |-> "idle", item |-> Ok]
    /\ executor = "up"

\* Nothing that needs the event loop happens while aclose() joins the thread.
LoopRuns == executor # "closing"

\* The first __anext__ of an iterator.
Submit == blocks' = Append(blocks, [queue |-> << >>, made |-> 0])

------------------------------------------------------------------------------
(* _drive_sync, in the worker thread.                                       *)

WorkerStarts ==
    /\ executor = "up"
    /\ worker.at = "idle"
    /\ worker.job < Len(blocks)
    /\ worker' = [worker EXCEPT !.job = @ + 1, !.at = "computing"]
    /\ UNCHANGED <<blocks, executor>>

\* What is handed over goes through run_coroutine_threadsafe(...).result(): the
\* thread waits for the event loop.
HandOver(item) == worker' = [worker EXCEPT !.at = "putting", !.item = item]

\* Mutant: the last frame is generated twice.
YieldsPastTheEnd ==
    /\ worker.at = "computing"
    /\ blocks[worker.job].made <= NumFrames
    /\ blocks' = [blocks EXCEPT ![worker.job].made = @ + 1]
    /\ HandOver(blocks[worker.job].made + 1)
    /\ UNCHANGED executor

Yields ==
    /\ worker.at = "computing"
    /\ blocks[worker.job].made < NumFrames
    /\ blocks' = [blocks EXCEPT ![worker.job].made = @ + 1]
    /\ HandOver(blocks[worker.job].made + 1)
    /\ UNCHANGED executor

Finishes ==
    /\ worker.at = "computing"
    /\ blocks[worker.job].made = NumFrames
    /\ HandOver(Ok)
    /\ UNCHANGED <<blocks, executor>>

\* Mutant: a failure is logged and not handed over.
FailsSilently ==
    /\ InferenceMayFail
    /\ worker.at = "computing"
    /\ worker' = [worker EXCEPT !.at = "idle"]
    /\ UNCHANGED <<blocks, executor>>

Fails ==
    /\ InferenceMayFail
    /\ worker.at = "computing"
    /\ HandOver(Err)
    /\ UNCHANGED <<blocks, executor>>

WorkerComputes == Yields \/ Finishes \/ Fails

\* Mutant: the queue holds one item.
PutOneAtATime ==
    /\ LoopRuns
    /\ worker.at = "putting"
    /\ blocks[worker.job].queue = << >>
    /\ blocks' = [blocks EXCEPT ![worker.job].queue = Append(@, worker.item)]
    /\ worker' = [worker EXCEPT
                    !.at = IF worker.item \in {Ok, Err} THEN "idle" ELSE "computing"]
    /\ UNCHANGED executor

\* The event loop completes the thread's queue.put, as soon as there is room.
Put ==
    /\ LoopRuns
    /\ worker.at = "putting"
    /\ Len(blocks[worker.job].queue) < QueueSize
    /\ blocks' = [blocks EXCEPT ![worker.job].queue = Append(@, worker.item)]
    /\ worker' = [worker EXCEPT
                    !.at = IF worker.item \in {Ok, Err} THEN "idle" ELSE "computing"]
    /\ UNCHANGED executor

------------------------------------------------------------------------------
(* aclose().  `quiet`: no session is live, the state main.py calls it in.   *)

Aclose(quiet) ==
    /\ executor = "up"
    /\ quiet
    /\ worker.at = "idle" \/ ClosesMidBlock
    /\ executor' = "closing"
    /\ UNCHANGED <<blocks, worker>>

\* shutdown(wait=True, cancel_futures=True) returns.
AcloseEnds ==
    /\ executor = "closing"
    /\ worker.at = "idle"
    /\ executor' = "down"
    /\ UNCHANGED <<blocks, worker>>

RuntimeStep == WorkerStarts \/ WorkerComputes \/ Put \/ AcloseEnds

RuntimeTypeOK ==
    /\ blocks \in Seq([queue : Seq(Items), made : 0 .. NumFrames])
    /\ Len(blocks) <= MaxBlocks
    /\ \A b \in DOMAIN blocks : Len(blocks[b].queue) <= QueueSize
    /\ worker \in [job : 0 .. Len(blocks), at : {"idle", "computing", "putting"}, item : Items]
    /\ executor \in {"up", "closing", "down"}
==============================================================================
