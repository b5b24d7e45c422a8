--------------------------- MODULE ParallelMemcpy ---------------------------
(***************************************************************************)
(* doost::ParallelMemcpyPool (src/parallel_memcpy.cpp): a pool of worker   *)
(* threads that copies a block of memory in chunks.  The caller fills one  *)
(* slot per worker, publishes the next value of start_generation, and      *)
(* waits until every worker's completed_generation has that value.         *)
(*                                                                         *)
(* A step is one access to a shared atomic or one block of plain accesses. *)
(* atomic::wait(old) is a comparison that either falls through or blocks,  *)
(* in one step; a notification sends the blocked thread back to that       *)
(* comparison.  One thread ("the caller") constructs the pool, calls copy, *)
(* and destroys it: copy is not synchronized against another copy.         *)
(***************************************************************************)
EXTENDS Integers

CONSTANTS
  ThreadCounts,       \* arguments of the explicit constructor
  HardwareThreads,    \* what hardware_concurrency() may return
  MaxDefaultThreads,  \* kMaxDefaultThreadCount
  MaxWorkers,         \* bound on the number of workers
  MaxSize,            \* bound on the size of a copy
  GenMod              \* number of values of a generation counter (2^64)

DefaultThreadCount(hardware) ==
  IF hardware <= 1 THEN 0
  ELSE IF hardware - 1 < MaxDefaultThreads THEN hardware - 1 ELSE MaxDefaultThreads

PoolSizes == ThreadCounts \cup {DefaultThreadCount(h) : h \in HardwareThreads}

ASSUME PoolAssumption ==
  /\ MaxWorkers \in Nat /\ PoolSizes \subseteq 0..MaxWorkers
  /\ MaxSize \in Nat
  /\ GenMod \in Nat /\ GenMod >= 2

VARIABLES
  mpc,                 \* where the caller is
  workerCount,         \* Impl::worker_count
  spawned,             \* how many elements Impl::workers has
  index,               \* the caller's loop variable
  request,             \* size of the last copy
  seen,                \* the caller's local "completed"
  startGeneration,     \* Impl::start_generation
  stopping,            \* Impl::stopping
  slots,               \* dst, src and size of each WorkerState, as a chunk
  completed,           \* completed_generation of each WorkerState
  wpc,                 \* where each worker is
  observed,            \* each worker's observed_generation
  copied               \* destination offsets written since copy was called

callerVars == <<mpc, workerCount, spawned, index, request, seen>>
sharedVars == <<startGeneration, stopping, slots, completed>>
workerVars == <<wpc, observed>>
vars == <<callerVars, sharedVars, workerVars, copied>>

WorkerIds == {i \in 0..MaxWorkers : i < MaxWorkers}
Bytes(n) == {b \in 0..MaxSize : b < n}

Following(generation) == (generation + 1) % GenMod

\* Mistake: the remainder is nobody's.
ChunkNoRemainder(i, count, n) ==
  [offset |-> i * (n \div count), size |-> n \div count]

\* Mistake: the share is rounded up.
ChunkRoundedUp(i, count, n) ==
  LET share == (n + count - 1) \div count
  IN  [offset |-> i * share,
       size   |-> IF i = count - 1 THEN n - i * share ELSE share]

\* The piece of a copy of n bytes that worker i of count workers gets: equal
\* pieces, the last worker takes what is left.
Chunk(i, count, n) ==
  LET share == n \div count
  IN  [offset |-> i * share,
       size   |-> IF i = count - 1 THEN n - i * share ELSE share]

\* Mistake: one byte too many.
BytesOfAndOne(chunk) ==
  {b \in 0..MaxSize : chunk.offset <= b /\ b <= chunk.offset + chunk.size}

BytesOf(chunk) ==
  {b \in 0..MaxSize : chunk.offset <= b /\ b < chunk.offset + chunk.size}

Init ==
  /\ mpc = "spawn"
  /\ workerCount \in PoolSizes
  /\ spawned = 0
  /\ index = 0
  /\ request = 0
  /\ seen = 0
  /\ startGeneration = 0
  /\ stopping = FALSE
  /\ slots = [i \in WorkerIds |-> [offset |-> 0, size |-> 0]]
  /\ completed = [i \in WorkerIds |-> 0]
  /\ wpc = [i \in WorkerIds |-> "unborn"]
  /\ observed = [i \in WorkerIds |-> 0]
  /\ copied = {}

-----------------------------------------------------------------------------
(* The caller: constructor.                                                *)

\* One std::thread started.
SpawnWorker ==
  /\ mpc = "spawn" /\ spawned < workerCount
  /\ spawned' = spawned + 1
  /\ wpc' = [wpc EXCEPT ![spawned] = "load"]
  /\ UNCHANGED <<mpc, workerCount, index, request, seen, sharedVars, observed, copied>>

\* make_unique or std::thread throws: the constructor stops what it started.
SpawnFails ==
  /\ mpc = "spawn" /\ spawned < workerCount
  /\ mpc' = "stop_flag"
  /\ UNCHANGED <<workerCount, spawned, index, request, seen, sharedVars, workerVars, copied>>

Constructed ==
  /\ mpc = "spawn" /\ spawned = workerCount
  /\ mpc' = "idle"
  /\ UNCHANGED <<workerCount, spawned, index, request, seen, sharedVars, workerVars, copied>>

(* The caller: copy.  A copy of 0 bytes returns at once and changes nothing. *)
(* A loop variable is back at 0 when its loop ends.                         *)

BeginCopy ==
  /\ mpc = "idle"
  /\ request' \in 1..MaxSize
  /\ copied' = {}
  /\ mpc' = IF workerCount = 0 THEN "inline" ELSE "assign"
  /\ UNCHANGED <<workerCount, spawned, index, seen, sharedVars, workerVars>>

CopyInline ==
  /\ mpc = "inline"
  /\ copied' = Bytes(request)
  /\ mpc' = "idle"
  /\ UNCHANGED <<workerCount, spawned, index, request, seen, sharedVars, workerVars>>

Looped(next, after) ==
  /\ index' = IF index + 1 = spawned THEN 0 ELSE index + 1
  /\ mpc' = IF index + 1 = spawned THEN after ELSE next

AssignSlot ==
  /\ mpc = "assign"
  /\ slots' = [slots EXCEPT ![index] = Chunk(index, workerCount, request)]
  /\ Looped("assign", "publish")
  /\ UNCHANGED <<workerCount, spawned, request, seen, startGeneration, stopping, completed, workerVars, copied>>

\* The caller is the only writer of start_generation, so its load and its
\* store are one step.
PublishGeneration ==
  /\ mpc = "publish"
  /\ startGeneration' = Following(startGeneration)
  /\ mpc' = "notify"
  /\ UNCHANGED <<workerCount, spawned, index, request, seen, stopping, slots, completed, workerVars, copied>>

\* notify_all on start_generation.
WakeWorkers ==
  wpc' = [i \in WorkerIds |-> IF wpc[i] = "blocked" THEN "wait" ELSE wpc[i]]

NotifyWorkers ==
  /\ mpc = "notify"
  /\ WakeWorkers
  /\ mpc' = "await"
  /\ UNCHANGED <<workerCount, spawned, index, request, seen, sharedVars, observed, copied>>

\* Mistake: copy does not compare completed_generation.
WorkerIsAssumedDone ==
  /\ mpc = "await"
  /\ Looped("await", "idle")
  /\ UNCHANGED <<workerCount, spawned, request, seen, sharedVars, workerVars, copied>>

WorkerIsDone ==
  /\ mpc = "await" /\ completed[index] = startGeneration
  /\ Looped("await", "idle")
  /\ UNCHANGED <<workerCount, spawned, request, seen, sharedVars, workerVars, copied>>

WorkerIsNotDone ==
  /\ mpc = "await" /\ completed[index] # startGeneration
  /\ seen' = completed[index]
  /\ mpc' = "wait"
  /\ UNCHANGED <<workerCount, spawned, index, request, sharedVars, workerVars, copied>>

WaitForWorker ==
  /\ mpc = "wait"
  /\ mpc' = IF completed[index] = seen THEN "blocked" ELSE "await"
  /\ UNCHANGED <<workerCount, spawned, index, request, seen, sharedVars, workerVars, copied>>

(* The caller: destructor (stop_workers), also run by a failed constructor. *)

BeginDestroy ==
  /\ mpc = "idle"
  /\ mpc' = "stop_flag"
  /\ UNCHANGED <<workerCount, spawned, index, request, seen, sharedVars, workerVars, copied>>

SetStopping ==
  /\ mpc = "stop_flag"
  /\ stopping' = TRUE
  /\ mpc' = "stop_bump"
  /\ UNCHANGED <<workerCount, spawned, index, request, seen, startGeneration, slots, completed, workerVars, copied>>

BumpGeneration ==
  /\ mpc = "stop_bump"
  /\ startGeneration' = Following(startGeneration)
  /\ mpc' = "stop_notify"
  /\ UNCHANGED <<workerCount, spawned, index, request, seen, stopping, slots, completed, workerVars, copied>>

NotifyStopping ==
  /\ mpc = "stop_notify"
  /\ WakeWorkers
  /\ mpc' = IF spawned = 0 THEN "free" ELSE "join"
  /\ UNCHANGED <<workerCount, spawned, index, request, seen, sharedVars, observed, copied>>

\* Mistake: the workers are not joined.
JoinNobody ==
  /\ mpc = "join"
  /\ mpc' = "free"
  /\ UNCHANGED <<workerCount, spawned, index, request, seen, sharedVars, workerVars, copied>>

\* Mistake: the loop over the workers never ends.
JoinForever ==
  /\ mpc = "join" /\ wpc[index] = "exited"
  /\ Looped("join", "join")
  /\ UNCHANGED <<workerCount, spawned, request, seen, sharedVars, workerVars, copied>>

JoinWorker ==
  /\ mpc = "join" /\ wpc[index] = "exited"
  /\ Looped("join", "free")
  /\ UNCHANGED <<workerCount, spawned, request, seen, sharedVars, workerVars, copied>>

\* workers and worker_states are released, and then Impl itself.
FreeWorkers ==
  /\ mpc = "free"
  /\ spawned' = 0
  /\ workerCount' = 0
  /\ stopping' = FALSE
  /\ mpc' = "gone"
  /\ UNCHANGED <<index, request, seen, startGeneration, slots, completed, workerVars, copied>>

Gone == mpc = "gone" /\ UNCHANGED vars

-----------------------------------------------------------------------------
(* Worker i: worker_loop.                                                  *)

Go(i, from, to) ==
  /\ wpc[i] = from
  /\ wpc' = [wpc EXCEPT ![i] = to]

\* Mistake: a stale start_generation is taken for the current one.
LoadStale(i) ==
  /\ Go(i, "load", "poll")
  /\ UNCHANGED <<callerVars, sharedVars, observed, copied>>

LoadUnchanged(i) ==
  /\ startGeneration = observed[i]
  /\ Go(i, "load", "poll")
  /\ UNCHANGED <<callerVars, sharedVars, observed, copied>>

LoadNew(i) ==
  /\ startGeneration # observed[i]
  /\ Go(i, "load", "check")
  /\ observed' = [observed EXCEPT ![i] = startGeneration]
  /\ UNCHANGED <<callerVars, sharedVars, copied>>

PollStopping(i) ==
  /\ Go(i, "poll", IF stopping THEN "exited" ELSE "wait")
  /\ UNCHANGED <<callerVars, sharedVars, observed, copied>>

WaitForGeneration(i) ==
  /\ Go(i, "wait", IF startGeneration = observed[i] THEN "blocked" ELSE "load")
  /\ UNCHANGED <<callerVars, sharedVars, observed, copied>>

CheckStopping(i) ==
  /\ Go(i, "check", IF stopping THEN "exited" ELSE "copy")
  /\ UNCHANGED <<callerVars, sharedVars, observed, copied>>

\* wpc[i] = "copy" is the time the worker spends reading its slot and inside
\* memcpy; the step ends it.
CopyChunk(i) ==
  /\ Go(i, "copy", "store")
  /\ copied' = copied \cup BytesOf(slots[i])
  /\ UNCHANGED <<callerVars, sharedVars, observed>>

StoreCompleted(i) ==
  /\ Go(i, "store", "notify")
  /\ completed' = [completed EXCEPT ![i] = observed[i]]
  /\ UNCHANGED <<callerVars, startGeneration, stopping, slots, observed, copied>>

NotifyCaller(i) ==
  /\ Go(i, "notify", "load")
  /\ mpc' = IF mpc = "blocked" /\ index = i THEN "wait" ELSE mpc
  /\ UNCHANGED <<workerCount, spawned, index, request, seen, sharedVars, observed, copied>>

-----------------------------------------------------------------------------

\* What the caller's code does without being asked: all but the calls.
CallerStep ==
  \/ SpawnWorker \/ SpawnFails \/ Constructed
  \/ CopyInline \/ AssignSlot \/ PublishGeneration \/ NotifyWorkers
  \/ WorkerIsDone \/ WorkerIsNotDone \/ WaitForWorker
  \/ SetStopping \/ BumpGeneration \/ NotifyStopping \/ JoinWorker \/ FreeWorkers

WorkerStep(i) ==
  \/ LoadUnchanged(i) \/ LoadNew(i) \/ PollStopping(i) \/ WaitForGeneration(i)
  \/ CheckStopping(i) \/ CopyChunk(i) \/ StoreCompleted(i) \/ NotifyCaller(i)

Next ==
  \/ BeginCopy \/ BeginDestroy \/ CallerStep \/ Gone
  \/ \E i \in WorkerIds : WorkerStep(i)

\* A thread that can take a step eventually takes one (the operating system
\* schedules every runnable thread); the program need not call anything.
Spec ==
  /\ Init /\ [][Next]_vars
  /\ WF_vars(CallerStep)
  /\ \A i \in WorkerIds : WF_vars(WorkerStep(i))

-----------------------------------------------------------------------------
(* Properties.                                                             *)

InCall == {"inline", "assign", "publish", "notify", "await", "wait", "blocked"}
Stopping == {"stop_flag", "stop_bump", "stop_notify", "join", "free"}

TypeOK ==
  /\ mpc \in {"spawn", "idle", "gone"} \cup InCall \cup Stopping
  /\ workerCount \in 0..MaxWorkers
  /\ spawned \in 0..MaxWorkers
  /\ index \in 0..MaxWorkers
  /\ request \in 0..MaxSize
  /\ seen \in 0..(GenMod - 1)
  /\ startGeneration \in 0..(GenMod - 1)
  /\ stopping \in BOOLEAN
  /\ slots \in [WorkerIds -> [offset : 0..MaxSize, size : 0..MaxSize]]
  /\ completed \in [WorkerIds -> 0..(GenMod - 1)]
  /\ wpc \in [WorkerIds -> {"unborn", "load", "poll", "wait", "blocked", "check",
                            "copy", "store", "notify", "exited"}]
  /\ observed \in [WorkerIds -> 0..(GenMod - 1)]
  /\ copied \in SUBSET Bytes(MaxSize)

\* A worker reads its slot and writes the destination only while copy waits
\* for it: never while the caller is filling the slots of the next call, and
\* never after copy returned and the destination is the program's again.
WorkersTouchMemoryOnlyDuringCall ==
  \A i \in WorkerIds :
    wpc[i] = "copy" => mpc \in {"notify", "await", "wait", "blocked"}

\* When no call is active every byte of the last request was copied, and no
\* byte outside it, for every size, remainder and number of workers.
ReturnedCopyIsComplete ==
  mpc \notin InCall => copied = Bytes(request)

\* Impl and the worker states are freed only when no worker can touch them
\* again, a late notify_one on completed_generation included.
FreedAfterLastWorker ==
  mpc \in {"free", "gone"} => \A i \in WorkerIds : wpc[i] \in {"unborn", "exited"}

\* The pool is a copy service: see CopyService.
Service ==
  INSTANCE CopyService
    WITH phase <- IF mpc \in InCall THEN "copying"
                  ELSE IF mpc \in {"spawn", "idle"} THEN "idle" ELSE "gone"

ImplementsCopyService == Service!Spec

\* No wakeup is lost: every copy returns.
CopyReturns == mpc \in InCall ~> mpc = "idle"

\* Every worker sees the stop request, so the destructor and a constructor
\* that fails half-way both end.
StopEnds == mpc \in Stopping ~> mpc = "gone"
=============================================================================
