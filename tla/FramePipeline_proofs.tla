------------------------- MODULE FramePipeline_proofs -------------------------
(***************************************************************************)
(* The bridge from the GPU thread to the render loops, for every number of  *)
(* loops, length of a block and size of an iterator's queue.                *)
(***************************************************************************)
EXTENDS FramePipeline, TLAPS

\* The worker is done with block b.
Finished(b) == b < worker.job \/ (b = worker.job /\ worker.at = "idle")

\* What the queue of a block may hold: frames, and a sentinel at the end once the
\* worker is done with it.
BlockInv ==
    \A b \in DOMAIN blocks :
        /\ \A i \in DOMAIN blocks[b].queue :
              blocks[b].queue[i] \notin Frames =>
                  /\ i = Len(blocks[b].queue)
                  /\ Finished(b)
                  /\ blocks[b].queue[i] = Ok => blocks[b].made = NumFrames
        /\ b > worker.job => blocks[b].made = 0 /\ blocks[b].queue = << >>

\* What the worker is handing over.
WorkerInv ==
    /\ worker.at # "idle" => worker.job # 0
    /\ worker.at = "putting" =>
        /\ worker.item \in Frames => worker.item = blocks[worker.job].made
        /\ worker.item = Ok => blocks[worker.job].made = NumFrames

\* Every loop has a block of its own.
LoopInv ==
    /\ \A s \in Pipelines :
        /\ pipe[s].block <= Len(blocks)
        /\ pipe[s].at = "pulling" => pipe[s].block # 0
        /\ pipe[s].at = "new" => pipe[s].block = 0
    /\ \A s, t \in Pipelines :
        pipe[s].block = pipe[t].block /\ pipe[s].block # 0 => s = t

BridgeInv == TypeOK /\ BlockInv /\ WorkerInv /\ LoopInv /\ BridgeKeepsFrames

------------------------------------------------------------------------------
(* Items, queues and blocks.                                                *)

LEMMA ItemFacts ==
    /\ NumFrames \in Nat \ {0} /\ QueueSize \in Nat \ {0} /\ MaxBlocks \in Nat
    /\ Ok \in Items /\ Err \in Items /\ Ok \notin Frames /\ Err \notin Frames /\ Ok # Err
    /\ Frames \subseteq Items /\ Frames \subseteq Nat
    /\ \A x \in Items : x \in Frames \/ x = Ok \/ x = Err
    /\ \A x \in Frames : x \in Int /\ 1 <= x /\ x <= NumFrames
  BY RuntimeAssumption DEF Ok, Err, Items, Frames

LEMMA SeqOfSubset ==
    ASSUME NEW S, NEW T, S \subseteq T, NEW q \in Seq(S)
    PROVE  q \in Seq(T)
  OBVIOUS

LEMMA AppendToConcat ==
    ASSUME NEW S, NEW a \in Seq(S), NEW b \in Seq(S), NEW x \in S
    PROVE  a \o Append(b, x) = Append(a \o b, x)
<1> DEFINE l == a \o Append(b, x)
           r == Append(a \o b, x)
<1>1. l \in Seq(S) /\ r \in Seq(S) /\ Len(l) = Len(a) + Len(b) + 1
      /\ Len(r) = Len(a) + Len(b) + 1 /\ Len(a) \in Nat /\ Len(b) \in Nat
  OBVIOUS
<1>2. ASSUME NEW i \in 1 .. Len(a) + Len(b) + 1 PROVE l[i] = r[i]
  <2>1. CASE i <= Len(a)
    BY <1>1, <2>1
  <2>2. CASE Len(a) < i /\ i <= Len(a) + Len(b)
    BY <1>1, <2>2
  <2>3. CASE i = Len(a) + Len(b) + 1
    BY <1>1, <2>3
  <2> QED BY <1>1, <2>1, <2>2, <2>3
<1> HIDE DEF l, r
<1>3. l = r
  BY <1>1, <1>2
<1> QED BY <1>3 DEF l, r

Upto(n) == [i \in 1 .. n |-> i]

LEMMA UptoGrows ==
    ASSUME NEW n \in Nat
    PROVE  Append(Upto(n), n + 1) = Upto(n + 1) /\ Upto(0) = << >>
  BY DEF Upto

\* One more frame in the queue behind those that are shown.
LEMMA UptoContinues ==
    ASSUME NEW a \in Seq(Frames), NEW q \in Seq(Frames), NEW x \in Frames,
           a \o q = Upto(x - 1)
    PROVE  a \o Append(q, x) = Upto(x)
<1>1. x - 1 \in Nat /\ (x - 1) + 1 = x
  BY ItemFacts
<1>2. Append(Upto(x - 1), (x - 1) + 1) = Upto((x - 1) + 1)
  BY <1>1, UptoGrows
<1>3. a \o Append(q, x) = Append(a \o q, x)
  BY AppendToConcat
<1> QED BY <1>1, <1>2, <1>3

LEMMA FramesOfFrames ==
    ASSUME NEW q \in Seq(Frames)
    PROVE  /\ FramesOf(q) = q
           /\ \A x \in Frames : FramesOf(Append(q, x)) = Append(q, x)
           /\ \A x \in {Ok, Err} : FramesOf(Append(q, x)) = q
<1>1. FramesOf(q) = q
  BY DEF FramesOf, Last
<1>2. ASSUME NEW x PROVE Last(Append(q, x)) = x /\ Append(q, x) # << >>
  BY DEF Last
<1>3. ASSUME NEW x PROVE Front(Append(q, x)) = q
  BY DEF Front
<1>4. ASSUME NEW x \in Frames PROVE FramesOf(Append(q, x)) = Append(q, x)
  BY <1>2 DEF FramesOf
<1>5. ASSUME NEW x \in {Ok, Err} PROVE FramesOf(Append(q, x)) = q
  BY <1>2, <1>3, ItemFacts DEF FramesOf
<1> QED BY <1>1, <1>4, <1>5

\* A queue with nothing but a sentinel at its end behind the frames.
LEMMA FramesOfQueue ==
    ASSUME NEW q \in Seq(Items),
           \A i \in DOMAIN q : q[i] \notin Frames => i = Len(q)
    PROVE  FramesOf(q) \in Seq(Frames)
<1>1. CASE q = << >> \/ Last(q) \in Frames
  <2>1. \A i \in 1 .. Len(q) : q[i] \in Frames
    BY <1>1 DEF Last
  <2>2. q \in Seq(Frames)
    BY <2>1
  <2> QED BY <1>1, <2>2 DEF FramesOf
<1>2. CASE ~(q = << >> \/ Last(q) \in Frames)
  <2>1. /\ Len(q) \in Nat \ {0} /\ DOMAIN q = 1 .. Len(q)
        /\ Front(q) = [i \in 1 .. Len(q) - 1 |-> q[i]]
    BY <1>2 DEF Front
  <2>2. \A i \in 1 .. Len(q) - 1 : q[i] \in Frames
    BY <2>1
  <2>3. Front(q) \in Seq(Frames)
    BY <2>1, <2>2
  <2> QED BY <1>2, <2>3 DEF FramesOf
<1> QED BY <1>1, <1>2

BlockState == [queue : Seq(Items), made : 0 .. NumFrames]

LEMMA BlockTypes ==
    ASSUME TypeOK
    PROVE  /\ blocks \in Seq(BlockState) /\ Len(blocks) \in Nat
           /\ DOMAIN blocks = 1 .. Len(blocks)
           /\ \A b \in DOMAIN blocks :
                /\ blocks[b] \in BlockState
                /\ blocks[b].queue \in Seq(Items) /\ blocks[b].made \in 0 .. NumFrames
           /\ worker.job \in 0 .. Len(blocks)
           /\ worker.at \in {"idle", "computing", "putting"}
           /\ worker.item \in Items
           /\ \A s \in Pipelines :
                pipe[s] \in PipeState /\ pipe[s].block \in Nat /\ pipe[s].shown \in Seq(Frames)
<1>1. blocks \in Seq(BlockState)
  BY DEF TypeOK, RuntimeTypeOK, BlockState
<1>2. \A b \in DOMAIN blocks : blocks[b] \in BlockState
  BY <1>1
<1>3. \A b \in DOMAIN blocks : blocks[b].queue \in Seq(Items) /\ blocks[b].made \in 0 .. NumFrames
  BY <1>2 DEF BlockState
<1>4. /\ worker.job \in 0 .. Len(blocks) /\ worker.at \in {"idle", "computing", "putting"}
      /\ worker.item \in Items
  BY DEF TypeOK, RuntimeTypeOK
<1>5. ASSUME NEW s \in Pipelines
      PROVE  pipe[s] \in PipeState /\ pipe[s].block \in Nat /\ pipe[s].shown \in Seq(Frames)
  <2>1. pipe[s] \in PipeState
    BY DEF TypeOK
  <2> QED BY <2>1, ItemFacts DEF PipeState
<1> QED BY <1>1, <1>2, <1>3, <1>4, <1>5

\* A change of one block.
LEMMA BlockChanges ==
    ASSUME TypeOK, NEW j \in DOMAIN blocks, NEW r \in BlockState,
           Len(r.queue) <= QueueSize, blocks' = [blocks EXCEPT ![j] = r]
    PROVE  /\ blocks' \in Seq(BlockState) /\ Len(blocks') = Len(blocks)
           /\ DOMAIN blocks' = DOMAIN blocks
           /\ \A b \in DOMAIN blocks : blocks'[b] = IF b = j THEN r ELSE blocks[b]
           /\ \A b \in DOMAIN blocks' : Len(blocks'[b].queue) <= QueueSize
<1>1. blocks \in Seq(BlockState) /\ Len(blocks) \in Nat /\ DOMAIN blocks = 1 .. Len(blocks)
  BY BlockTypes
<1>2. \A b \in DOMAIN blocks : blocks'[b] = IF b = j THEN r ELSE blocks[b]
  BY <1>1
<1>3. \A b \in DOMAIN blocks : Len(blocks'[b].queue) <= QueueSize
  BY <1>2 DEF TypeOK, RuntimeTypeOK
<1> QED BY <1>1, <1>2, <1>3

------------------------------------------------------------------------------
(* The worker.                                                              *)

LEMMA InitBridge == Init => BridgeInv
<1> SUFFICES ASSUME Init PROVE BridgeInv
  OBVIOUS
<1>1. blocks = << >> /\ Len(blocks) = 0 /\ DOMAIN blocks = {} /\ executor = "up"
      /\ worker = [job |-> 0, at |-> "idle", item |-> Ok]
  BY DEF Init, InitRuntime
<1>2. \A s \in Pipelines :
        pipe[s] = [at |-> "new", cancel |-> "none", block |-> 0, shown |-> << >>]
  BY DEF Init
<1>3. RuntimeTypeOK
  BY <1>1, ItemFacts DEF RuntimeTypeOK
<1>4. pipe \in [Pipelines -> PipeState]
  <2>1. << >> \in Seq(Frames)
    OBVIOUS
  <2> QED BY <2>1, ItemFacts DEF Init, PipeState
<1> QED BY <1>1, <1>2, <1>3, <1>4
        DEF BridgeInv, TypeOK, BlockInv, WorkerInv, LoopInv, BridgeKeepsFrames

\* A step that leaves the loops, the queues and the frames in them alone.
LEMMA BridgeStill ==
    ASSUME BridgeInv, pipe' = pipe, DOMAIN blocks' = DOMAIN blocks,
           \A b \in DOMAIN blocks : /\ blocks'[b].queue = blocks[b].queue
                                    /\ FramesPut(b)' = FramesPut(b)
    PROVE  BridgeKeepsFrames'
<1>1. SUFFICES ASSUME NEW s \in Pipelines
               PROVE  /\ pipe[s].at = "pulling" =>
                           pipe[s].shown \o FramesOf(Queue(s)')
                               = [i \in 1 .. FramesPut(pipe[s].block)' |-> i]
                      /\ pipe[s].at = "reading" /\ pipe[s].block # 0 =>
                           pipe[s].shown = [i \in Frames |-> i]
  BY DEF BridgeKeepsFrames
<1>2. ASSUME pipe[s].at = "pulling" PROVE pipe[s].block \in DOMAIN blocks
  BY <1>2, BlockTypes DEF BridgeInv, LoopInv
<1>3. pipe[s].at = "pulling" =>
        Queue(s)' = Queue(s) /\ FramesPut(pipe[s].block)' = FramesPut(pipe[s].block)
  BY <1>2 DEF Queue
<1> QED BY <1>3 DEF BridgeInv, BridgeKeepsFrames

LEMMA StartsBridge ==
    ASSUME BridgeInv, WorkerStarts, UNCHANGED pipe
    PROVE  BridgeInv'
<1>1. /\ worker' = [worker EXCEPT !.job = worker.job + 1, !.at = "computing"]
      /\ UNCHANGED <<blocks, executor>> /\ worker.at = "idle" /\ worker.job < Len(blocks)
  BY DEF WorkerStarts
<1>2. /\ worker'.job = worker.job + 1 /\ worker'.at = "computing"
      /\ worker'.item = worker.item /\ worker.job \in Nat /\ Len(blocks) \in Nat
      /\ DOMAIN blocks = 1 .. Len(blocks)
  BY <1>1, BlockTypes DEF BridgeInv, TypeOK, RuntimeTypeOK
<1>3. TypeOK'
  <2>1. worker' \in [job : 0 .. Len(blocks), at : {"idle", "computing", "putting"}, item : Items]
    <3>1. worker.job + 1 \in 0 .. Len(blocks)
      BY <1>1, <1>2
    <3>2. worker \in [job : 0 .. Len(blocks), at : {"idle", "computing", "putting"},
                      item : Items]
      BY DEF BridgeInv, TypeOK, RuntimeTypeOK
    <3> QED BY <1>1, <3>1, <3>2
  <2> QED BY <1>1, <2>1 DEF BridgeInv, TypeOK, RuntimeTypeOK
<1>4. BlockInv'
  BY <1>1, <1>2 DEF BridgeInv, BlockInv, Finished
<1>5. WorkerInv' /\ LoopInv'
  BY <1>1, <1>2 DEF BridgeInv, WorkerInv, LoopInv
<1>6. \A b \in DOMAIN blocks : FramesPut(b)' = FramesPut(b)
  BY <1>1, <1>2 DEF FramesPut
<1> QED BY <1>1, <1>3, <1>4, <1>5, <1>6, BridgeStill DEF BridgeInv

\* The worker hands over an item: what it has put so far is what was made before.
LEMMA HandsOverBridge ==
    ASSUME BridgeInv, UNCHANGED <<pipe, executor>>, worker.at = "computing",
           NEW item \in Items, HandOver(item),
           NEW m \in 0 .. NumFrames,
           blocks' = [blocks EXCEPT ![worker.job] = [blocks[worker.job] EXCEPT !.made = m]],
           item \in Frames => item = m /\ blocks[worker.job].made = m - 1,
           item \notin Frames => blocks[worker.job].made = m,
           item = Ok => m = NumFrames
    PROVE  BridgeInv'
<1> DEFINE j == worker.job
           r == [blocks[j] EXCEPT !.made = m]
<1>1. /\ j \in DOMAIN blocks /\ DOMAIN blocks = 1 .. Len(blocks) /\ Len(blocks) \in Nat
      /\ blocks[j] \in BlockState /\ Len(blocks[j].queue) <= QueueSize /\ j \in Nat
  <2>1. j \in DOMAIN blocks /\ DOMAIN blocks = 1 .. Len(blocks) /\ Len(blocks) \in Nat /\ j \in Nat
    BY BlockTypes DEF BridgeInv, WorkerInv
  <2> QED BY <2>1, BlockTypes DEF BridgeInv, TypeOK, RuntimeTypeOK
<1>2. /\ worker'.job = j /\ worker'.at = "putting" /\ worker'.item = item
      /\ worker' \in [job : 0 .. Len(blocks), at : {"idle", "computing", "putting"}, item : Items]
  BY DEF HandOver, BridgeInv, TypeOK, RuntimeTypeOK
<1>3. r \in BlockState /\ r.queue = blocks[j].queue /\ r.made = m
  BY <1>1 DEF BlockState
<1> HIDE DEF j, r
<1>4. /\ blocks' \in Seq(BlockState) /\ Len(blocks') = Len(blocks)
      /\ DOMAIN blocks' = DOMAIN blocks
      /\ \A b \in DOMAIN blocks : blocks'[b] = IF b = j THEN r ELSE blocks[b]
      /\ \A b \in DOMAIN blocks' : Len(blocks'[b].queue) <= QueueSize
  <2>1. blocks' = [blocks EXCEPT ![j] = r] /\ Len(r.queue) <= QueueSize
    BY <1>1, <1>3 DEF j, r
  <2> QED BY <1>1, <1>3, <2>1, BlockChanges DEF BridgeInv
<1>5. TypeOK'
  BY <1>2, <1>4 DEF BridgeInv, TypeOK, RuntimeTypeOK, BlockState
<1>6. \A b \in DOMAIN blocks : blocks'[b].queue = blocks[b].queue
  BY <1>3, <1>4
<1>7. BlockInv'
  <2>1. SUFFICES ASSUME NEW b \in DOMAIN blocks
                 PROVE  /\ \A i \in DOMAIN blocks[b].queue :
                              blocks[b].queue[i] \notin Frames =>
                                  /\ i = Len(blocks[b].queue)
                                  /\ Finished(b)'
                                  /\ blocks[b].queue[i] = Ok => blocks'[b].made = NumFrames
                        /\ b > j => blocks'[b].made = 0 /\ blocks[b].queue = << >>
    BY <1>2, <1>4, <1>6 DEF BlockInv
  <2>2. /\ \A i \in DOMAIN blocks[b].queue :
              blocks[b].queue[i] \notin Frames =>
                  /\ i = Len(blocks[b].queue)
                  /\ Finished(b)
                  /\ blocks[b].queue[i] = Ok => blocks[b].made = NumFrames
        /\ b > j => blocks[b].made = 0 /\ blocks[b].queue = << >>
    BY DEF BridgeInv, BlockInv, j
  <2>3. Finished(b) => b # j /\ Finished(b)'
    BY <1>1, <1>2 DEF Finished, j
  <2>4. b # j => blocks'[b] = blocks[b]
    BY <1>4
  <2>5. b = j => ~(b > j)
    BY <1>1
  <2>6. CASE b = j
    BY <2>2, <2>3, <2>5, <2>6
  <2>7. CASE b # j
    BY <2>2, <2>3, <2>4, <2>7
  <2> QED BY <2>6, <2>7
<1>8. WorkerInv'
  <2>1. blocks'[j].made = m /\ j # 0
    BY <1>1, <1>3, <1>4
  <2> QED BY <1>2, <2>1 DEF WorkerInv
<1>9. LoopInv'
  BY <1>4 DEF BridgeInv, LoopInv
<1>10. ASSUME NEW b \in DOMAIN blocks PROVE FramesPut(b)' = FramesPut(b)
  <2>1. CASE b # j
    BY <1>2, <1>4, <2>1 DEF FramesPut, j
  <2>2. CASE b = j
    <3>1. FramesPut(b) = blocks[j].made
      BY <2>2 DEF FramesPut, j
    <3>2. FramesPut(b)' = IF item \in Frames THEN m - 1 ELSE m
      BY <1>2, <1>3, <1>4, <2>2 DEF FramesPut
    <3> QED BY <3>1, <3>2 DEF j
  <2> QED BY <2>1, <2>2
<1> QED BY <1>4, <1>5, <1>6, <1>7, <1>8, <1>9, <1>10, BridgeStill DEF BridgeInv

LEMMA ComputesBridge ==
    ASSUME BridgeInv, WorkerComputes, UNCHANGED pipe
    PROVE  BridgeInv'
<1> DEFINE j == worker.job
           made == blocks[j].made
<1>1. /\ j \in DOMAIN blocks /\ blocks[j] \in BlockState /\ made \in 0 .. NumFrames
      /\ worker.at = "computing" /\ UNCHANGED executor
  <2>1. worker.at = "computing" /\ UNCHANGED executor
    BY DEF WorkerComputes, Yields, Finishes, Fails
  <2> QED BY <2>1, BlockTypes DEF BridgeInv, WorkerInv
<1>2. CASE Yields
  <2>1. /\ made + 1 \in 0 .. NumFrames /\ made + 1 \in Frames /\ made + 1 \in Items
        /\ made = (made + 1) - 1
    BY <1>1, <1>2, ItemFacts DEF Yields, Frames, Items
  <2>2. /\ blocks' = [blocks EXCEPT ![j] = [blocks[j] EXCEPT !.made = made + 1]]
        /\ HandOver(made + 1)
    BY <1>1, <1>2 DEF Yields
  <2> QED BY <1>1, <2>1, <2>2, ItemFacts, HandsOverBridge
<1>3. CASE Finishes \/ Fails
  <2>1. PICK item \in {Ok, Err} : HandOver(item) /\ (item = Ok => made = NumFrames)
    BY <1>3, ItemFacts DEF Finishes, Fails
  <2>2. blocks' = [blocks EXCEPT ![j] = [blocks[j] EXCEPT !.made = made]]
    <3>1. blocks' = blocks
      BY <1>3 DEF Finishes, Fails
    <3>2. [blocks[j] EXCEPT !.made = made] = blocks[j]
      BY <1>1 DEF BlockState
    <3>3. [blocks EXCEPT ![j] = blocks[j]] = blocks
      BY <1>1, BlockTypes DEF BridgeInv
    <3> HIDE DEF j, made
    <3> QED BY <3>1, <3>2, <3>3
  <2> QED BY <1>1, <2>1, <2>2, ItemFacts, HandsOverBridge
<1> QED BY <1>2, <1>3 DEF WorkerComputes

\* The queue of a block that the worker has not finished holds frames only.
LEMMA OpenQueue ==
    ASSUME BridgeInv, NEW b \in DOMAIN blocks, ~Finished(b)
    PROVE  blocks[b].queue \in Seq(Frames)
<1>1. blocks[b].queue \in Seq(Items)
  BY BlockTypes DEF BridgeInv
<1>2. \A i \in DOMAIN blocks[b].queue : blocks[b].queue[i] \in Frames
  BY DEF BridgeInv, BlockInv
<1> DEFINE q == blocks[b].queue
<1> HIDE DEF q
<1>3. q \in Seq(Items) /\ \A i \in DOMAIN q : q[i] \in Frames
  BY <1>1, <1>2 DEF q
<1>4. q \in Seq(Frames)
  BY <1>3
<1> QED BY <1>4 DEF q

LEMMA PutBridge ==
    ASSUME BridgeInv, Put, UNCHANGED pipe
    PROVE  BridgeInv'
<1> DEFINE j == worker.job
           item == worker.item
           q == blocks[j].queue
           r == [blocks[j] EXCEPT !.queue = Append(q, item)]
<1>1. /\ j \in DOMAIN blocks /\ DOMAIN blocks = 1 .. Len(blocks) /\ Len(blocks) \in Nat
      /\ blocks[j] \in BlockState /\ item \in Items /\ j \in Nat
      /\ worker.at = "putting" /\ Len(q) < QueueSize /\ ~Finished(j)
  <2>1. worker.at = "putting" /\ Len(q) < QueueSize
    BY DEF Put
  <2>2. /\ j \in DOMAIN blocks /\ DOMAIN blocks = 1 .. Len(blocks) /\ Len(blocks) \in Nat
        /\ j \in Nat /\ item \in Items
    BY <2>1, BlockTypes DEF BridgeInv, WorkerInv
  <2>3. ~Finished(j)
    BY <2>1, <2>2 DEF Finished
  <2> QED BY <2>1, <2>2, <2>3, BlockTypes DEF BridgeInv
<1>2. q \in Seq(Frames)
  BY <1>1, OpenQueue
<1>3. /\ worker'.job = j /\ worker'.item = item
      /\ worker'.at = IF item \in {Ok, Err} THEN "idle" ELSE "computing"
      /\ worker' \in [job : 0 .. Len(blocks), at : {"idle", "computing", "putting"}, item : Items]
      /\ UNCHANGED executor
      /\ blocks' = [blocks EXCEPT ![j] = r]
  BY <1>1 DEF Put, BridgeInv, TypeOK, RuntimeTypeOK
<1> DEFINE p == Append(q, item)
<1>4. /\ p \in Seq(Items) /\ Len(p) = Len(q) + 1 /\ Len(p) <= QueueSize
      /\ DOMAIN p = 1 .. Len(q) + 1 /\ p[Len(q) + 1] = item
      /\ \A i \in 1 .. Len(q) : p[i] \in Frames
      /\ Len(q) \in Nat
  <2>1. q \in Seq(Items)
    <3>1. Frames \subseteq Items
      BY ItemFacts
    <3> QED BY <1>2, <3>1, SeqOfSubset, Zenon
  <2> QED BY <1>1, <1>2, <2>1, ItemFacts, SMTT(30)
<1>5. r \in BlockState /\ r.queue = p /\ r.made = blocks[j].made
  BY <1>1, <1>4 DEF BlockState
<1>6. FramesOf(p) = IF item \in Frames THEN p ELSE q
  BY <1>1, <1>2, FramesOfFrames, ItemFacts, ZenonT(60)
<1>7. FramesOf(q) = q
  BY <1>2, FramesOfFrames
<1> HIDE DEF r, p
<1>8. /\ blocks' \in Seq(BlockState) /\ Len(blocks') = Len(blocks)
      /\ DOMAIN blocks' = DOMAIN blocks
      /\ \A b \in DOMAIN blocks : blocks'[b] = IF b = j THEN r ELSE blocks[b]
      /\ \A b \in DOMAIN blocks' : Len(blocks'[b].queue) <= QueueSize
  BY <1>1, <1>3, <1>4, <1>5, BlockChanges DEF BridgeInv
<1>9. TypeOK'
  BY <1>3, <1>8 DEF BridgeInv, TypeOK, RuntimeTypeOK, BlockState
<1>10. WorkerInv'
  BY <1>1, <1>3 DEF WorkerInv
<1>11. LoopInv'
  BY <1>8 DEF BridgeInv, LoopInv
<1>12. BlockInv'
  <2>1. SUFFICES ASSUME NEW b \in DOMAIN blocks
                 PROVE  /\ \A i \in DOMAIN blocks'[b].queue :
                              blocks'[b].queue[i] \notin Frames =>
                                  /\ i = Len(blocks'[b].queue)
                                  /\ Finished(b)'
                                  /\ blocks'[b].queue[i] = Ok => blocks'[b].made = NumFrames
                        /\ b > j => blocks'[b].made = 0 /\ blocks'[b].queue = << >>
    BY <1>3, <1>8 DEF BlockInv
  <2>2. CASE b = j
    <3>1. blocks'[b].queue = p /\ blocks'[b].made = blocks[j].made /\ ~(b > j)
      BY <1>1, <1>5, <1>8, <2>2
    <3>2. ASSUME NEW i \in DOMAIN p, p[i] \notin Frames
          PROVE  /\ i = Len(p) /\ p[i] = item /\ Finished(b)'
                 /\ p[i] = Ok => blocks[j].made = NumFrames
      <4>1. i = Len(q) + 1 /\ p[i] = item
        BY <1>4, <3>2
      <4>2. item \in {Ok, Err}
        BY <1>1, <3>2, <4>1, ItemFacts
      <4>3. Finished(b)'
        BY <1>3, <2>2, <4>2 DEF Finished
      <4>4. item = Ok => blocks[j].made = NumFrames
        BY <1>1 DEF BridgeInv, WorkerInv
      <4> QED BY <1>4, <4>1, <4>3, <4>4
    <3> QED BY <3>1, <3>2
  <2>3. CASE b # j
    <3>1. blocks'[b] = blocks[b]
      BY <1>8, <2>3
    <3>2. Finished(b) => Finished(b)'
      BY <1>3, <2>3 DEF Finished
    <3> QED BY <3>1, <3>2 DEF BridgeInv, BlockInv
  <2> QED BY <2>2, <2>3
<1>13. BridgeKeepsFrames'
  <2>1. SUFFICES ASSUME NEW s \in Pipelines, pipe[s].at = "pulling"
                 PROVE  pipe[s].shown \o FramesOf(Queue(s)')
                            = [i \in 1 .. FramesPut(pipe[s].block)' |-> i]
    BY DEF BridgeInv, BridgeKeepsFrames
  <2> DEFINE b == pipe[s].block
  <2>2. /\ pipe[s].shown \o FramesOf(Queue(s)) = [i \in 1 .. FramesPut(b) |-> i]
        /\ b \in DOMAIN blocks /\ pipe[s].shown \in Seq(Frames)
    <3>1. pipe[s].shown \o FramesOf(Queue(s)) = [i \in 1 .. FramesPut(b) |-> i]
      BY <2>1 DEF BridgeInv, BridgeKeepsFrames
    <3>2. b # 0 /\ b <= Len(blocks)
      BY <2>1 DEF BridgeInv, LoopInv
    <3> QED BY <1>1, <3>1, <3>2, BlockTypes DEF BridgeInv
  <2>3. CASE b # j
    <3>1. blocks'[b] = blocks[b]
      BY <1>8, <2>2, <2>3
    <3>2. Queue(s)' = Queue(s) /\ FramesPut(b)' = FramesPut(b)
      BY <1>3, <2>3, <3>1 DEF Queue, FramesPut
    <3> QED BY <2>2, <3>2
  <2>4. CASE b = j
    <3>1. Queue(s) = q /\ Queue(s)' = p
      BY <1>1, <1>5, <1>8, <2>4 DEF Queue
    <3>2. FramesPut(b)' = blocks[j].made
      <4>1. worker'.at # "putting" /\ blocks'[b].made = blocks[j].made
        BY <1>1, <1>3, <1>5, <1>8, <2>4, SMTT(30)
      <4> QED BY <4>1 DEF FramesPut
    <3>3. CASE item \in Frames
      <4>1. FramesPut(b) = item - 1 /\ item = blocks[j].made /\ item - 1 \in Nat
            /\ (item - 1) + 1 = item
        <5>1. item = blocks[j].made
          BY <1>1, <3>3 DEF BridgeInv, WorkerInv
        <5>2. FramesPut(b) = blocks[j].made - 1
          BY <1>1, <2>4, <3>3 DEF FramesPut
        <5>3. item \in Nat /\ 1 <= item
          BY <3>3, ItemFacts
        <5> HIDE DEF item
        <5> QED BY <5>1, <5>2, <5>3
      <4>2. pipe[s].shown \o q = Upto(item - 1)
        BY <1>7, <2>2, <3>1, <4>1 DEF Upto
      <4>3. pipe[s].shown \o Append(q, item) = Upto(item)
        <5>1. pipe[s].shown \in Seq(Frames) /\ q \in Seq(Frames) /\ item \in Frames
          BY <1>2, <2>2, <3>3
        <5> HIDE DEF q, item
        <5> QED BY <4>2, <5>1, UptoContinues
      <4> QED BY <1>6, <3>1, <3>2, <3>3, <4>1, <4>3 DEF Upto, p
    <3>4. CASE item \notin Frames
      <4>1. FramesPut(b) = blocks[j].made
        BY <2>4, <3>4 DEF FramesPut
      <4> QED BY <1>6, <1>7, <2>2, <3>1, <3>2, <3>4, <4>1
    <3> QED BY <3>3, <3>4
  <2> QED BY <2>3, <2>4
<1> QED BY <1>9, <1>10, <1>11, <1>12, <1>13 DEF BridgeInv

\* aclose() changes nothing of the blocks.
LEMMA CloseBridge ==
    ASSUME BridgeInv, AcloseEnds \/ Aclose(Quiet), UNCHANGED pipe
    PROVE  BridgeInv'
<1>1. UNCHANGED <<blocks, worker, pipe>> /\ executor' \in {"up", "closing", "down"}
  BY DEF AcloseEnds, Aclose
<1>2. TypeOK'
  BY <1>1 DEF BridgeInv, TypeOK, RuntimeTypeOK
<1>3. BlockInv' /\ WorkerInv' /\ LoopInv'
  BY <1>1 DEF BridgeInv, BlockInv, WorkerInv, LoopInv, Finished
<1>4. \A b \in DOMAIN blocks : FramesPut(b)' = FramesPut(b)
  BY <1>1 DEF FramesPut
<1> QED BY <1>1, <1>2, <1>3, <1>4, BridgeStill DEF BridgeInv

------------------------------------------------------------------------------
(* The loops.                                                               *)

\* One loop changes, but for its block and what it has shown of it, and it does not
\* start to pull.
LEMMA LoopMoves ==
    ASSUME BridgeInv, NEW s \in Pipelines, NEW p \in PipeState,
           pipe' = [pipe EXCEPT ![s] = p], UNCHANGED runtimeVars,
           p.block = pipe[s].block, p.shown = pipe[s].shown,
           p.at = "pulling" => pipe[s].at = "pulling",
           p.at = "reading" => pipe[s].at \in {"new", "reading"},
           p.at # "new"
    PROVE  BridgeInv'
<1>1. \A t \in Pipelines : pipe'[t] = IF t = s THEN p ELSE pipe[t]
  BY DEF BridgeInv, TypeOK
<1>2. UNCHANGED <<blocks, worker, executor>>
  BY DEF runtimeVars
<1>3. TypeOK'
  BY <1>2 DEF BridgeInv, TypeOK, RuntimeTypeOK
<1>4. BlockInv' /\ WorkerInv'
  BY <1>2 DEF BridgeInv, BlockInv, WorkerInv, Finished
<1>5. LoopInv'
  BY <1>1, <1>2 DEF BridgeInv, LoopInv
<1>6. ASSUME NEW t \in Pipelines
      PROVE  /\ pipe'[t].at = "pulling" =>
                    pipe'[t].shown \o FramesOf(Queue(t)')
                        = [i \in 1 .. FramesPut(pipe'[t].block) |-> i]
             /\ pipe'[t].at = "reading" /\ pipe'[t].block # 0 =>
                    pipe'[t].shown = [i \in Frames |-> i]
  <2>1. pipe'[t].block = pipe[t].block /\ pipe'[t].shown = pipe[t].shown
    BY <1>1
  <2>2. Queue(t)' = Queue(t)
    BY <1>2, <2>1 DEF Queue
  <2>3. /\ pipe'[t].at = "pulling" => pipe[t].at = "pulling"
        /\ pipe'[t].at = "reading" /\ pipe'[t].block # 0 => pipe[t].at = "reading"
    BY <1>1, <2>1, SMTT(30) DEF BridgeInv, LoopInv
  <2> QED BY <2>1, <2>2, <2>3 DEF BridgeInv, BridgeKeepsFrames
<1>7. BridgeKeepsFrames'
  BY <1>2, <1>6 DEF BridgeKeepsFrames, FramesPut
<1> QED BY <1>3, <1>4, <1>5, <1>7 DEF BridgeInv

LEMMA IdleLoopBridge ==
    ASSUME BridgeInv, NEW s \in Pipelines,
           Start(s) \/ Stop(s) \/ Cancelled(s) \/ Swallowed(s) \/ ReadStops(s)
    PROVE  BridgeInv'
<1>1. pipe[s] \in PipeState /\ pipe \in [Pipelines -> PipeState] /\ UNCHANGED runtimeVars
  BY DEF BridgeInv, TypeOK, Start, Stop, Cancelled, Swallowed, ReadStops
<1>2. CASE Start(s)
  <2> DEFINE p == [pipe[s] EXCEPT !.at = "reading"]
  <2>1. /\ pipe' = [pipe EXCEPT ![s] = p] /\ p \in PipeState /\ pipe[s].at = "new"
        /\ p.block = pipe[s].block /\ p.shown = pipe[s].shown /\ p.at = "reading"
    BY <1>1, <1>2 DEF Start, PipeState
  <2> QED BY <1>1, <2>1, LoopMoves
<1>3. CASE Stop(s) \/ Swallowed(s)
  <2>1. PICK c \in {"pending", "swallowed"} : pipe' = [pipe EXCEPT ![s].cancel = c]
    BY <1>3 DEF Stop, Swallowed
  <2> DEFINE p == [pipe[s] EXCEPT !.cancel = c]
  <2>2. /\ pipe' = [pipe EXCEPT ![s] = p] /\ p \in PipeState
        /\ p.block = pipe[s].block /\ p.shown = pipe[s].shown /\ p.at = pipe[s].at
    BY <1>1, <2>1 DEF PipeState
  <2>3. pipe[s].at \in {"reading", "pulling"}
    BY <1>3 DEF Stop, Swallowed
  <2> QED BY <1>1, <2>2, <2>3, LoopMoves
<1>4. CASE Cancelled(s) \/ ReadStops(s)
  <2> DEFINE p == [pipe[s] EXCEPT !.at = "ended"]
  <2>1. /\ pipe' = [pipe EXCEPT ![s] = p] /\ p \in PipeState
        /\ p.block = pipe[s].block /\ p.shown = pipe[s].shown /\ p.at = "ended"
    BY <1>1, <1>4 DEF Cancelled, ReadStops, PipeState
  <2> QED BY <1>1, <2>1, LoopMoves
<1> QED BY <1>2, <1>3, <1>4

LEMMA InferBridge ==
    ASSUME BridgeInv, NEW s \in Pipelines, Infer(s)
    PROVE  BridgeInv'
<1> DEFINE n == Len(blocks) + 1
           new == [queue |-> << >>, made |-> 0]
           p == [pipe[s] EXCEPT !.at = "pulling", !.block = n, !.shown = << >>]
<1>1. /\ blocks' = Append(blocks, new) /\ UNCHANGED <<worker, executor>>
      /\ Len(blocks) < MaxBlocks /\ pipe' = [pipe EXCEPT ![s] = p]
  BY DEF Infer, Submit, BridgeInv, TypeOK
<1>2. /\ new \in BlockState /\ blocks \in Seq(BlockState) /\ Len(blocks) \in Nat
      /\ DOMAIN blocks = 1 .. Len(blocks) /\ worker.job \in Nat /\ worker.job <= Len(blocks)
  <2>1. << >> \in Seq(Items)
    OBVIOUS
  <2> QED BY <2>1, ItemFacts, BlockTypes DEF BridgeInv, BlockState
<1>3. /\ blocks' \in Seq(BlockState) /\ Len(blocks') = n /\ DOMAIN blocks' = 1 .. n
      /\ blocks'[n] = new /\ \A b \in DOMAIN blocks : blocks'[b] = blocks[b]
  <2> HIDE DEF new
  <2> QED BY <1>1, <1>2
<1>4. /\ p \in PipeState /\ p.at = "pulling" /\ p.block = n /\ p.shown = << >>
      /\ \A t \in Pipelines : pipe'[t] = IF t = s THEN p ELSE pipe[t]
      /\ pipe' \in [Pipelines -> PipeState]
  <2>1. n \in 0 .. MaxBlocks /\ << >> \in Seq(Frames)
    BY <1>1, <1>2, ItemFacts
  <2>2. pipe[s] \in PipeState /\ pipe \in [Pipelines -> PipeState]
    BY DEF BridgeInv, TypeOK
  <2> HIDE DEF n
  <2> QED BY <1>1, <2>1, <2>2 DEF PipeState
<1> HIDE DEF p
<1>5. TypeOK'
  <2>1. \A b \in DOMAIN blocks' : Len(blocks'[b].queue) <= QueueSize
    <3>1. \A b \in DOMAIN blocks : Len(blocks[b].queue) <= QueueSize
      BY DEF BridgeInv, TypeOK, RuntimeTypeOK
    <3>2. Len(new.queue) <= QueueSize
      BY ItemFacts
    <3> HIDE DEF new
    <3> QED BY <1>2, <1>3, <3>1, <3>2
  <2>2. worker' \in [job : 0 .. n, at : {"idle", "computing", "putting"}, item : Items]
    <3>1. worker \in [job : 0 .. Len(blocks), at : {"idle", "computing", "putting"}, item : Items]
      BY DEF BridgeInv, TypeOK, RuntimeTypeOK
    <3>2. 0 .. Len(blocks) \subseteq 0 .. n
      BY <1>2
    <3> HIDE DEF n
    <3> QED BY <1>1, <3>1, <3>2
  <2>3. n <= MaxBlocks
    BY <1>1, <1>2, ItemFacts
  <2> QED BY <1>1, <1>3, <1>4, <2>1, <2>2, <2>3 DEF BridgeInv, TypeOK, RuntimeTypeOK, BlockState
<1>6. BlockInv'
  <2>1. SUFFICES ASSUME NEW b \in 1 .. n
                 PROVE  /\ \A i \in DOMAIN blocks'[b].queue :
                              blocks'[b].queue[i] \notin Frames =>
                                  /\ i = Len(blocks'[b].queue)
                                  /\ Finished(b)
                                  /\ blocks'[b].queue[i] = Ok => blocks'[b].made = NumFrames
                        /\ b > worker.job => blocks'[b].made = 0 /\ blocks'[b].queue = << >>
    BY <1>1, <1>3 DEF BlockInv, Finished
  <2>2. CASE b = n
    BY <1>3, <2>2
  <2>3. CASE b # n
    <3>1. b \in DOMAIN blocks
      BY <1>2, <2>3
    <3> QED BY <1>3, <3>1 DEF BridgeInv, BlockInv
  <2> QED BY <2>2, <2>3
<1>7. WorkerInv'
  <2>1. worker.at # "idle" => worker.job \in DOMAIN blocks
    BY <1>2, BlockTypes DEF BridgeInv, WorkerInv
  <2> QED BY <1>1, <1>3, <2>1 DEF BridgeInv, WorkerInv
<1>8. LoopInv'
  <2>1. \A t \in Pipelines : pipe[t].block \in Nat /\ pipe[t].block <= Len(blocks)
    BY BlockTypes DEF BridgeInv, LoopInv
  <2> HIDE DEF new
  <2> QED BY <1>2, <1>3, <1>4, <2>1, SMTT(30) DEF BridgeInv, LoopInv
<1>9. BridgeKeepsFrames'
  <2>1. SUFFICES ASSUME NEW t \in Pipelines
                 PROVE  /\ pipe'[t].at = "pulling" =>
                              pipe'[t].shown \o FramesOf(Queue(t)')
                                  = [i \in 1 .. FramesPut(pipe[t].block)' |-> i]
                        /\ pipe'[t].at = "reading" /\ pipe'[t].block # 0 =>
                              pipe'[t].shown = [i \in Frames |-> i]
    BY DEF BridgeKeepsFrames
  <2>2. CASE t = s
    <3>1. Queue(t)' = << >> /\ pipe'[t] = p
      BY <1>3, <1>4, <2>2 DEF Queue
    <3>2. FramesPut(pipe[t].block)' = 0
      <4>1. worker'.job # n /\ blocks'[n].made = 0
        BY <1>1, <1>2, <1>3
      <4> QED BY <1>4, <3>1, <4>1 DEF FramesPut
    <3>3. << >> \o FramesOf(<< >>) = << >> /\ [i \in 1 .. 0 |-> i] = << >>
      BY UptoGrows DEF FramesOf, Upto
    <3> QED BY <1>4, <3>1, <3>2, <3>3
  <2>3. CASE t # s
    <3>1. pipe'[t] = pipe[t]
      BY <1>4, <2>3
    <3>2. pipe[t].at = "pulling" =>
            /\ pipe[t].block \in DOMAIN blocks
            /\ Queue(t)' = Queue(t) /\ FramesPut(pipe[t].block)' = FramesPut(pipe[t].block)
      <4>1. pipe[t].at = "pulling" => pipe[t].block \in DOMAIN blocks
        BY <1>2, BlockTypes DEF BridgeInv, LoopInv
      <4> QED BY <1>1, <1>3, <3>1, <4>1 DEF Queue, FramesPut
    <3> QED BY <3>1, <3>2 DEF BridgeInv, BridgeKeepsFrames
  <2> QED BY <2>2, <2>3
<1> QED BY <1>5, <1>6, <1>7, <1>8, <1>9 DEF BridgeInv

\* A loop takes items from its block: the first one, or all.
LEMMA TakeBridge ==
    ASSUME BridgeInv, NEW s \in Pipelines, pipe[s].at = "pulling", Queue(s) # << >>,
           NEW q \in {Tail(Queue(s)), << >>}, NEW p \in PipeState,
           blocks' = [blocks EXCEPT ![pipe[s].block].queue = q],
           pipe' = [pipe EXCEPT ![s] = p], UNCHANGED <<worker, executor>>,
           p.block = pipe[s].block, p.at # "new",
           p.at = "pulling" =>
               p.shown \o FramesOf(q) = [i \in 1 .. FramesPut(pipe[s].block) |-> i],
           p.at = "reading" => p.shown = [i \in Frames |-> i]
    PROVE  BridgeInv'
<1> DEFINE j == pipe[s].block
           old == blocks[j].queue
           r == [blocks[j] EXCEPT !.queue = q]
<1>1. /\ j \in DOMAIN blocks /\ DOMAIN blocks = 1 .. Len(blocks) /\ Len(blocks) \in Nat
      /\ blocks[j] \in BlockState /\ j # 0
  <2>1. j # 0 /\ j <= Len(blocks)
    BY DEF BridgeInv, LoopInv
  <2> QED BY <2>1, BlockTypes DEF BridgeInv
<1>2. /\ old \in Seq(Items) /\ old # << >> /\ Len(old) \in Nat \ {0}
      /\ Len(old) <= QueueSize /\ Queue(s) = old
  <2>1. old \in Seq(Items) /\ Len(old) <= QueueSize
    BY <1>1, BlockTypes DEF BridgeInv, TypeOK, RuntimeTypeOK
  <2>2. Queue(s) = old
    BY DEF Queue
  <2> HIDE DEF old
  <2> QED BY <2>1, <2>2
<1>3. /\ q \in Seq(Items) /\ Len(q) <= QueueSize
      /\ \A i \in DOMAIN q : /\ i + 1 \in DOMAIN old /\ q[i] = old[i + 1]
                             /\ i + 1 = Len(old) => i = Len(q)
  <2> HIDE DEF old
  <2>1. CASE q = Tail(old)
    BY <1>2, <2>1, ItemFacts
  <2>2. CASE q = << >>
    BY <2>2, ItemFacts
  <2> QED BY <1>2, <2>1, <2>2
<1>4. r \in BlockState /\ r.queue = q /\ r.made = blocks[j].made
  BY <1>1, <1>3 DEF BlockState
<1>5. /\ blocks' \in Seq(BlockState) /\ Len(blocks') = Len(blocks)
      /\ DOMAIN blocks' = DOMAIN blocks
      /\ \A b \in DOMAIN blocks : blocks'[b] = IF b = j THEN r ELSE blocks[b]
      /\ \A b \in DOMAIN blocks' : Len(blocks'[b].queue) <= QueueSize
  <2>1. blocks' = [blocks EXCEPT ![j] = r] /\ Len(r.queue) <= QueueSize
    BY <1>1, <1>3, <1>4
  <2> HIDE DEF r, j
  <2> QED BY <1>1, <1>4, <2>1, BlockChanges, ZenonT(60) DEF BridgeInv
<1>6. \A t \in Pipelines : pipe'[t] = IF t = s THEN p ELSE pipe[t]
  BY DEF BridgeInv, TypeOK
<1>7. TypeOK'
  <2>1. pipe' \in [Pipelines -> PipeState]
    BY DEF BridgeInv, TypeOK
  <2> QED BY <1>5, <2>1 DEF BridgeInv, TypeOK, RuntimeTypeOK, BlockState
<1> HIDE DEF r
<1>8. BlockInv'
  <2>1. SUFFICES ASSUME NEW b \in DOMAIN blocks
                 PROVE  /\ \A i \in DOMAIN blocks'[b].queue :
                              blocks'[b].queue[i] \notin Frames =>
                                  /\ i = Len(blocks'[b].queue)
                                  /\ Finished(b)
                                  /\ blocks'[b].queue[i] = Ok => blocks'[b].made = NumFrames
                        /\ b > worker.job => blocks'[b].made = 0 /\ blocks'[b].queue = << >>
    BY <1>5 DEF BlockInv, Finished
  <2>2. CASE b = j
    <3>1. blocks'[b].queue = q /\ blocks'[b].made = blocks[j].made
      BY <1>1, <1>4, <1>5, <2>2
    <3>2. ~(b > worker.job)
      BY <1>2, <2>2 DEF BridgeInv, BlockInv
    <3>3. ASSUME NEW i \in DOMAIN q, q[i] \notin Frames
          PROVE  /\ i = Len(q) /\ Finished(b)
                 /\ q[i] = Ok => blocks[j].made = NumFrames
      <4>1. i + 1 \in DOMAIN old /\ old[i + 1] = q[i] /\ (i + 1 = Len(old) => i = Len(q))
        BY <1>3
      <4>2. /\ i + 1 = Len(old) /\ Finished(j)
            /\ old[i + 1] = Ok => blocks[j].made = NumFrames
        BY <1>1, <3>3, <4>1 DEF BridgeInv, BlockInv
      <4> QED BY <2>2, <4>1, <4>2
    <3> HIDE DEF j
    <3> QED BY <3>1, <3>2, <3>3
  <2>3. CASE b # j
    BY <1>5, <2>3 DEF BridgeInv, BlockInv
  <2> QED BY <2>2, <2>3
<1>9. ASSUME NEW b \in DOMAIN blocks PROVE FramesPut(b)' = FramesPut(b)
  <2>1. blocks'[b].made = blocks[b].made
    BY <1>4, <1>5
  <2> QED BY <2>1 DEF FramesPut
<1>10. WorkerInv'
  <2>1. worker.at # "idle" => worker.job \in DOMAIN blocks
    BY <1>1, BlockTypes DEF BridgeInv, WorkerInv
  <2>2. \A b \in DOMAIN blocks : blocks'[b].made = blocks[b].made
    BY <1>4, <1>5
  <2> QED BY <2>1, <2>2 DEF BridgeInv, WorkerInv
<1>11. LoopInv'
  <2>1. \A t \in Pipelines : pipe'[t].block = pipe[t].block
    BY <1>6
  <2>2. \A t \in Pipelines : /\ pipe'[t].at = "pulling" => pipe[t].at = "pulling"
                             /\ pipe'[t].at = "new" => pipe[t].at = "new"
    BY <1>6
  <2> QED BY <1>5, <2>1, <2>2 DEF BridgeInv, LoopInv
<1>12. BridgeKeepsFrames'
  <2>1. SUFFICES ASSUME NEW t \in Pipelines
                 PROVE  /\ pipe'[t].at = "pulling" =>
                              pipe'[t].shown \o FramesOf(Queue(t)')
                                  = [i \in 1 .. FramesPut(pipe[t].block)' |-> i]
                        /\ pipe'[t].at = "reading" /\ pipe'[t].block # 0 =>
                              pipe'[t].shown = [i \in Frames |-> i]
    BY DEF BridgeKeepsFrames
  <2>2. CASE t = s
    <3>1. pipe'[t] = p /\ Queue(t)' = q /\ FramesPut(pipe[t].block)' = FramesPut(j)
      <4>1. pipe'[t] = p /\ p.block = j
        BY <1>6, <2>2
      <4>2. blocks'[j].queue = q
        BY <1>1, <1>4, <1>5
      <4>3. FramesPut(j)' = FramesPut(j)
        <5>1. blocks'[j].made = blocks[j].made
          BY <1>1, <1>4, <1>5
        <5>2. pipe'[s].block = pipe[s].block
          BY <2>2, <4>1
        <5> QED BY <5>1, <5>2 DEF FramesPut
      <4>4. pipe'[s].block = pipe[s].block
        BY <2>2, <4>1
      <4> QED BY <2>2, <4>1, <4>2, <4>3, <4>4 DEF Queue
    <3> QED BY <3>1
  <2>3. CASE t # s
    <3>1. pipe'[t] = pipe[t]
      BY <1>6, <2>3
    <3>2. pipe[t].at = "pulling" =>
            /\ Queue(t)' = Queue(t) /\ FramesPut(pipe[t].block)' = FramesPut(pipe[t].block)
      <4>1. ASSUME pipe[t].at = "pulling"
            PROVE  pipe[t].block \in DOMAIN blocks /\ pipe[t].block # j
        <5>1. pipe[t].block # 0 /\ pipe[t].block <= Len(blocks) /\ pipe[t].block \in Nat
          BY <4>1, BlockTypes DEF BridgeInv, LoopInv
        <5>2. pipe[t].block # j
          BY <2>3, <5>1 DEF BridgeInv, LoopInv
        <5> QED BY <1>1, <5>1, <5>2
      <4>2. ASSUME pipe[t].at = "pulling"
            PROVE  blocks'[pipe[t].block] = blocks[pipe[t].block]
        BY <1>5, <4>1, <4>2
      <4>3. ASSUME pipe[t].at = "pulling"
            PROVE  Queue(t)' = Queue(t)
        BY <3>1, <4>2, <4>3 DEF Queue
      <4>4. ASSUME pipe[t].at = "pulling"
            PROVE  FramesPut(pipe[t].block)' = FramesPut(pipe[t].block)
        <5> DEFINE b == pipe[t].block
        <5>1. b' = b /\ blocks'[b] = blocks[b] /\ worker' = worker
          BY <3>1, <4>2, <4>4
        <5> HIDE DEF b
        <5>2. FramesPut(b)' = FramesPut(b)
          BY <5>1 DEF FramesPut
        <5> QED BY <5>2 DEF b
      <4> QED BY <4>3, <4>4
    <3> QED BY <3>1, <3>2 DEF BridgeInv, BridgeKeepsFrames
  <2> QED BY <2>2, <2>3
<1> QED BY <1>7, <1>8, <1>10, <1>11, <1>12 DEF BridgeInv

LEMMA PullBridge ==
    ASSUME BridgeInv, NEW s \in Pipelines, Pull(s)
    PROVE  BridgeInv'
<1> DEFINE j == pipe[s].block
           q == Queue(s)
<1>1. /\ pipe[s] \in PipeState /\ pipe \in [Pipelines -> PipeState]
      /\ pipe[s].at = "pulling" /\ q # << >> /\ UNCHANGED <<worker, executor>>
      /\ pipe[s].shown \in Seq(Frames)
  BY BlockTypes DEF BridgeInv, TypeOK, Pull
<1>2. CASE _cancelled(s) /\ blocks' = [blocks EXCEPT ![j].queue = Tail(@)]
           /\ pipe' = [pipe EXCEPT ![s].at = IF Head(q) = Err THEN "failed" ELSE "ended"]
  <2> DEFINE place == IF Head(q) = Err THEN "failed" ELSE "ended"
             p == [pipe[s] EXCEPT !.at = place]
  <2>1. place \in {"failed", "ended"}
    OBVIOUS
  <2>2. pipe' = [pipe EXCEPT ![s].at = place]
    BY <1>2
  <2> HIDE DEF place
  <2>3. pipe' = [pipe EXCEPT ![s] = p] /\ p \in PipeState /\ p.block = j /\ p.at = place
    BY <1>1, <2>1, <2>2 DEF PipeState
  <2>4. blocks' = [blocks EXCEPT ![pipe[s].block].queue = Tail(Queue(s))]
    BY <1>2 DEF Queue
  <2> HIDE DEF p
  <2> QED BY <1>1, <2>1, <2>3, <2>4, TakeBridge
<1>3. CASE /\ ~_cancelled(s) /\ blocks' = [blocks EXCEPT ![j].queue = << >>]
           /\ pipe' = [pipe EXCEPT
                         ![s].shown = @ \o FramesOf(q),
                         ![s].at = CASE Last(q) = Err -> "failed"
                                     [] Last(q) = Ok  -> "reading"
                                     [] OTHER         -> "pulling"]
  <2> DEFINE place == CASE Last(q) = Err -> "failed"
                        [] Last(q) = Ok  -> "reading"
                        [] OTHER         -> "pulling"
             shown == pipe[s].shown \o FramesOf(q)
             p == [pipe[s] EXCEPT !.at = place, !.shown = shown]
  <2>1. place \in {"failed", "reading", "pulling"} /\ (place = "reading" => Last(q) = Ok)
    BY ItemFacts
  <2>2. j \in DOMAIN blocks /\ q = blocks[j].queue /\ q \in Seq(Items)
        /\ \A i \in DOMAIN q : q[i] \notin Frames =>
                                    /\ i = Len(q) /\ Finished(j)
                                    /\ q[i] = Ok => blocks[j].made = NumFrames
    <3>1. j # 0 /\ j <= Len(blocks) /\ j \in Nat
      BY <1>1, BlockTypes DEF BridgeInv, LoopInv
    <3>2. j \in DOMAIN blocks /\ q = blocks[j].queue
      BY <3>1, BlockTypes DEF BridgeInv, Queue
    <3>3. blocks[j].queue \in Seq(Items)
      BY <3>2, BlockTypes DEF BridgeInv
    <3>4. \A i \in DOMAIN blocks[j].queue : blocks[j].queue[i] \notin Frames =>
                                    /\ i = Len(blocks[j].queue) /\ Finished(j)
                                    /\ blocks[j].queue[i] = Ok => blocks[j].made = NumFrames
      BY <3>2 DEF BridgeInv, BlockInv
    <3> HIDE DEF q, j
    <3> QED BY <3>2, <3>3, <3>4
  <2>3. FramesOf(q) \in Seq(Frames)
    <3> HIDE DEF q
    <3> QED BY <2>2, FramesOfQueue
  <2>4. shown \in Seq(Frames)
    <3> HIDE DEF q
    <3> QED BY <1>1, <2>3
  <2>5. shown = [i \in 1 .. FramesPut(j) |-> i]
    BY <1>1 DEF BridgeInv, BridgeKeepsFrames
  <2>6. Last(q) = Ok => shown = [i \in Frames |-> i]
    <3>1. SUFFICES ASSUME Last(q) = Ok PROVE FramesPut(j) = NumFrames
      BY <2>5 DEF Frames
    <3>2. Len(q) \in DOMAIN q /\ q[Len(q)] = Ok
      <4> HIDE DEF q
      <4> QED BY <1>1, <2>2, <3>1 DEF Last
    <3>3. Finished(j) /\ blocks[j].made = NumFrames
      BY <2>2, <3>2, ItemFacts
    <3>4. ~(worker.job = j /\ worker.at = "putting")
      <4>1. worker.job \in Nat /\ j \in Nat
        BY BlockTypes DEF BridgeInv
      <4> QED BY <3>3, <4>1 DEF Finished
    <3> QED BY <3>3, <3>4 DEF FramesPut
  <2>7. pipe' = [pipe EXCEPT ![s].shown = shown, ![s].at = place]
    BY <1>3
  <2> HIDE DEF place, shown
  <2>8. /\ pipe' = [pipe EXCEPT ![s] = p] /\ p \in PipeState /\ p.block = j /\ p.at = place
        /\ p.shown = shown
    BY <1>1, <2>1, <2>4, <2>7 DEF PipeState
  <2>9. shown \o FramesOf(<< >>) = shown
    BY <2>4 DEF FramesOf
  <2>10. blocks' = [blocks EXCEPT ![pipe[s].block].queue = << >>]
    BY <1>3
  <2> HIDE DEF p
  <2> QED BY <1>1, <2>1, <2>5, <2>6, <2>8, <2>9, <2>10, TakeBridge
<1> QED BY <1>2, <1>3 DEF Pull

------------------------------------------------------------------------------
LEMMA BridgeStep ==
    ASSUME BridgeInv, [Next]_vars
    PROVE  BridgeInv'
<1>1. CASE (RuntimeStep \/ Aclose(Quiet)) /\ UNCHANGED pipe
  BY <1>1, StartsBridge, ComputesBridge, PutBridge, CloseBridge DEF RuntimeStep
<1>2. CASE \E s \in Pipelines : Start(s) \/ Stop(s) \/ LoopStep(s)
  BY <1>2, IdleLoopBridge, InferBridge, PullBridge DEF LoopStep
<1>3. CASE UNCHANGED vars
  <2>1. UNCHANGED <<blocks, worker, executor, pipe>>
    BY <1>3 DEF vars, runtimeVars
  <2>2. TypeOK'
    BY <2>1 DEF BridgeInv, TypeOK, RuntimeTypeOK
  <2>3. BlockInv' /\ WorkerInv' /\ LoopInv'
    BY <2>1 DEF BridgeInv, BlockInv, WorkerInv, LoopInv, Finished
  <2>4. \A b \in DOMAIN blocks : FramesPut(b)' = FramesPut(b)
    BY <2>1 DEF FramesPut
  <2> QED BY <2>1, <2>2, <2>3, <2>4, BridgeStill DEF BridgeInv
<1> QED BY <1>1, <1>2, <1>3 DEF Next

\* The invariant of the bridge: what a queue may hold, what the worker is handing
\* over, and that every loop has a block of its own.
THEOREM BridgeInvariant == Spec => []BridgeInv
<1>1. BridgeInv /\ [Next]_vars => BridgeInv'
  BY BridgeStep
<1> QED BY <1>1, InitBridge, PTL DEF Spec

\* The types of the pipeline, with every queue within its bound.
THEOREM TypeCorrect == Spec => []TypeOK
<1>1. BridgeInv => TypeOK
  BY DEF BridgeInv
<1> QED BY <1>1, BridgeInvariant, PTL

\* _BlockIterator and FramePipeline._run: for any number of loops on the one thread,
\* every loop shows the frames of its own block, all of them, once and in order.
THEOREM FramesAreKept == Spec => []BridgeKeepsFrames
<1>1. BridgeInv => BridgeKeepsFrames
  BY DEF BridgeInv
<1> QED BY <1>1, BridgeInvariant, PTL

\* FramePipeline.stop: nothing is pushed to the track after it, also when asyncio has
\* swallowed the cancellation and one more block is submitted.
THEOREM NothingAfterStop == Spec => NoFrameAfterStop
<1>1. TypeOK /\ [Next]_vars =>
        [\A s \in Pipelines :
            _cancelled(s) => pipe'[s].shown \in {pipe[s].shown, << >>}]_vars
  <2>1. SUFFICES ASSUME TypeOK, Next, NEW s \in Pipelines, _cancelled(s)
                 PROVE  pipe'[s].shown \in {pipe[s].shown, << >>}
    OBVIOUS
  <2>2. pipe \in [Pipelines -> PipeState] /\ pipe[s] \in PipeState
    BY <2>1 DEF TypeOK
  <2>3. CASE UNCHANGED pipe
    BY <2>3
  <2>4. CASE \E t \in Pipelines : Start(t) \/ Stop(t) \/ Cancelled(t) \/ Swallowed(t)
                                  \/ ReadStops(t) \/ Infer(t)
    <3>1. PICK t \in Pipelines : Start(t) \/ Stop(t) \/ Cancelled(t) \/ Swallowed(t)
                                 \/ ReadStops(t) \/ Infer(t)
      BY <2>4
    <3>2. CASE Infer(t)
      BY <2>2, <3>1, <3>2 DEF Infer, PipeState
    <3>3. CASE Start(t) \/ Stop(t) \/ Cancelled(t) \/ Swallowed(t) \/ ReadStops(t)
      <4>1. pipe'[s].shown = pipe[s].shown
        BY <2>2, <3>3 DEF Start, Stop, Cancelled, Swallowed, ReadStops, PipeState
      <4> QED BY <4>1
    <3> QED BY <3>1, <3>2, <3>3
  <2>5. CASE \E t \in Pipelines : Pull(t)
    <3>1. PICK t \in Pipelines : Pull(t)
      BY <2>5
    <3>2. CASE t = s
      BY <2>1, <2>2, <3>1, <3>2 DEF Pull, PipeState
    <3>3. CASE t # s
      BY <2>2, <3>1, <3>3 DEF Pull
    <3> QED BY <3>2, <3>3
  <2> QED BY <2>1, <2>3, <2>4, <2>5 DEF Next, LoopStep
<1> QED BY <1>1, TypeCorrect, PTL DEF Spec, NoFrameAfterStop
==============================================================================
