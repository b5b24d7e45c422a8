------------------------- MODULE ParallelMemcpyProofs -------------------------
(***************************************************************************)
(* The handshake of ParallelMemcpyPool is safe for any number of workers,  *)
(* any sizes and any number of generation values above one.  The argument: *)
(* between two calls every worker has observed and completed the current   *)
(* generation; publishing makes the counters differ, and a worker is in    *)
(* its slot only between observing the new value and completing it, which  *)
(* the caller waits for, worker by worker.  So the generations never have  *)
(* to be ordered, only compared, and may wrap around.                      *)
(***************************************************************************)
EXTENDS ParallelMemcpy, TLAPS

Resting == {"load", "poll", "wait", "blocked", "notify"}
Working == {"check", "copy", "store"}

\* Where the caller is while no generation is outstanding, and while one is.
Filling == {"spawn", "idle", "inline", "assign", "publish", "stop_flag"}
Waiting == {"notify", "await", "wait", "blocked"}
Looping == {"assign", "await", "wait", "blocked", "join"}

\* The caller's own variables.
Counts ==
  /\ spawned <= workerCount
  /\ mpc \in {"idle"} \cup InCall => spawned = workerCount
  /\ mpc \in {"publish", "notify"} => spawned > 0
  /\ IF mpc \in Looping THEN index < spawned ELSE index = 0
  /\ mpc = "inline" => workerCount = 0
  /\ stopping = (mpc \in {"stop_bump", "stop_notify", "join", "free"})

\* Which workers run.
Births ==
  /\ mpc # "gone" => \A i \in WorkerIds : wpc[i] = "unborn" <=> spawned <= i
  /\ mpc = "gone" => \A i \in WorkerIds : wpc[i] \in {"unborn", "exited"}
  /\ mpc = "free" => \A i \in WorkerIds : i < spawned => wpc[i] = "exited"
  /\ mpc = "join" => \A i \in WorkerIds : i < index => wpc[i] = "exited"

\* The generations, seen from the caller's position: equal while the slots
\* are being filled; while it waits, a worker that has not observed the new
\* one or has completed it is out of its slot; and so are all when stopping.
Handshake ==
  /\ mpc = "spawn" => \A i \in WorkerIds :
       observed[i] = startGeneration /\ completed[i] = startGeneration
  /\ mpc \in Filling => \A i \in WorkerIds : i < spawned =>
       /\ wpc[i] \in Resting
       /\ observed[i] = startGeneration /\ completed[i] = startGeneration
  /\ mpc \in Waiting => \A i \in WorkerIds : i < spawned =>
       \/ wpc[i] \in Resting /\ observed[i] = completed[i]
       \/ /\ wpc[i] \in Working
          /\ observed[i] = startGeneration /\ completed[i] # startGeneration
  /\ mpc \in {"await", "wait", "blocked"} => \A i \in WorkerIds : i < index =>
       completed[i] = startGeneration
  /\ mpc \in Stopping \ {"stop_flag"} => \A i \in WorkerIds : i < spawned =>
       wpc[i] \in Resting \cup {"check", "exited"}

\* The slots hold the chunks of the request from publication to return.
Filled ==
  /\ mpc = "assign" => \A i \in WorkerIds : i < index =>
       slots[i] = Chunk(i, workerCount, request)
  /\ mpc \in {"publish"} \cup Waiting => \A i \in WorkerIds : i < spawned =>
       slots[i] = Chunk(i, workerCount, request)

\* The workers whose chunk has been copied since copy was called.
Copiers ==
  {i \in WorkerIds : i < spawned /\ (wpc[i] = "store" \/ completed[i] = startGeneration)}

Progress ==
  /\ mpc \notin InCall => copied = Bytes(request)
  /\ mpc \in {"inline", "assign", "publish"} => copied = {}
  /\ mpc \in Waiting => copied = UNION {BytesOf(slots[i]) : i \in Copiers}

Inv == TypeOK /\ Counts /\ Births /\ Handshake /\ Filled /\ Progress

-----------------------------------------------------------------------------
(* Generations and chunks.                                                 *)

\* The next generation is another value, however few there are.
LEMMA FollowingFacts ==
  ASSUME NEW g \in 0..(GenMod - 1)
  PROVE  Following(g) \in 0..(GenMod - 1) /\ Following(g) # g
<1>1. CASE g + 1 < GenMod
  <2>1. (g + 1) % GenMod = g + 1
    BY <1>1, PoolAssumption, SMT
  <2> QED
    BY <1>1, <2>1, PoolAssumption DEF Following
<1>2. CASE g + 1 = GenMod
  <2>1. GenMod % GenMod = 0
    BY PoolAssumption, SMT
  <2> QED
    BY <1>2, <2>1, PoolAssumption DEF Following
<1> QED
  BY <1>1, <1>2, PoolAssumption

\* Division with remainder.
LEMMA DivMod ==
  ASSUME NEW x \in Int, NEW a \in Nat \ {0}
  PROVE  x \div a \in Int /\ x = (a * (x \div a)) + (x % a) /\ x % a \in 0..(a - 1)
  BY SMT

\* Equal shares, and what is left for the last: the shares of all workers
\* together are at most the whole.
LEMMA ShareFacts ==
  ASSUME NEW c \in Nat \ {0}, NEW n \in Nat
  PROVE  n \div c \in Nat /\ c * (n \div c) <= n
<1>1. n \div c \in Int /\ n = (c * (n \div c)) + (n % c) /\ n % c \in 0..(c - 1)
  BY DivMod
<1>2. n \div c \in Nat
  BY SMT
<1> QED
  BY <1>1, <1>2

\* A worker's share ends where the next one's begins, at the latest at n.
LEMMA ShareInside ==
  ASSUME NEW c \in Nat \ {0}, NEW n \in Nat, NEW i \in 0..(c - 1)
  PROVE  i * (n \div c) \in Nat /\ i * (n \div c) + (n \div c) <= n
<1> DEFINE share == n \div c
<1>1. share \in Nat /\ c * share <= n
  BY ShareFacts
<1> HIDE DEF share
<1>2. (i + 1) * share <= c * share
  BY <1>1
<1>3. i * share \in Nat /\ (i + 1) * share = i * share + share /\ c * share \in Nat
  BY <1>1
<1>4. i * share \in Nat /\ i * share + share <= n
  BY <1>1, <1>2, <1>3
<1> QED
  BY <1>4 DEF share

\* A chunk lies within the request.
LEMMA ChunkInside ==
  ASSUME NEW c \in Nat \ {0}, NEW n \in Nat, NEW i \in 0..(c - 1)
  PROVE  /\ Chunk(i, c, n) \in [offset : 0..n, size : 0..n]
         /\ Chunk(i, c, n).offset + Chunk(i, c, n).size <= n
<1> DEFINE share == n \div c
           offset == i * share
<1>1. share \in Nat /\ offset \in Nat /\ offset + share <= n
  BY ShareFacts, ShareInside
<1>2. Chunk(i, c, n) = [offset |-> offset, size |-> IF i = c - 1 THEN n - offset ELSE share]
  BY DEF Chunk
<1> HIDE DEF share, offset
<1> QED
  BY <1>1, <1>2

\* So do its bytes.
LEMMA BytesInside ==
  ASSUME NEW c \in Nat \ {0}, NEW n \in 0..MaxSize, NEW i \in 0..(c - 1)
  PROVE  BytesOf(Chunk(i, c, n)) \subseteq Bytes(n)
<1> DEFINE chunk == Chunk(i, c, n)
<1>1. n \in Nat /\ chunk \in [offset : 0..n, size : 0..n] /\ chunk.offset + chunk.size <= n
  BY ChunkInside, PoolAssumption
<1> HIDE DEF chunk
<1>2. BytesOf(chunk) \subseteq Bytes(n)
  BY <1>1, PoolAssumption DEF BytesOf, Bytes
<1> QED
  BY <1>2 DEF chunk

\* Every byte of the request is in the chunk of some worker.
LEMMA ChunksCover ==
  ASSUME NEW c \in Nat \ {0}, NEW n \in Nat, NEW b \in Nat, b < n
  PROVE  \E i \in 0..(c - 1) :
           /\ Chunk(i, c, n).offset <= b
           /\ b < Chunk(i, c, n).offset + Chunk(i, c, n).size
<1> DEFINE share == n \div c
           q == b \div share
<1>1. share \in Nat
  BY ShareFacts
<1>2. CASE (c - 1) * share <= b
  <2>1. Chunk(c - 1, c, n) = [offset |-> (c - 1) * share, size |-> n - (c - 1) * share]
    BY DEF Chunk
  <2>2. (c - 1) * share \in Nat
    BY <1>1
  <2> DEFINE offset == (c - 1) * share
  <2> HIDE DEF offset, share
  <2>3. Chunk(c - 1, c, n).offset <= b
        /\ b < Chunk(c - 1, c, n).offset + Chunk(c - 1, c, n).size
    BY <1>2, <2>1, <2>2 DEF offset
  <2> QED
    BY <2>3
<1>3. CASE b < (c - 1) * share
  <2>1. share > 0 /\ share \in Nat \ {0} /\ b \in Int
    BY <1>1, <1>3
  <2> HIDE DEF share
  <2>2. /\ q \in Int /\ b = (share * q) + (b % share) /\ b % share \in 0..(share - 1)
    BY <1>1, <2>1, DivMod
  <2>3. q >= 0
    BY <1>1, <2>1
  <2> USE DEF share
  <2> HIDE DEF q
  <2>4. q < c - 1
    <3> SUFFICES ASSUME c - 1 <= q PROVE FALSE
      BY <2>2
    <3>1. (c - 1) * share <= share * q
      BY <1>1, <2>2
    <3> QED
      BY <1>1, <1>3, <2>2, <3>1
  <2>5. Chunk(q, c, n) = [offset |-> q * share, size |-> share]
    BY <2>2, <2>4 DEF Chunk
  <2>6. q * share = share * q /\ q * share \in Int
    BY <1>1, <2>2
  <2> DEFINE offset == q * share
  <2> HIDE DEF offset, share
  <2>7. Chunk(q, c, n).offset <= b /\ b < Chunk(q, c, n).offset + Chunk(q, c, n).size
    BY <1>1, <2>2, <2>5, <2>6 DEF offset
  <2> QED
    BY <2>2, <2>3, <2>4, <2>7
<1> QED
  BY <1>1, <1>2, <1>3

\* The chunks of all workers make up the request, and nothing else.
LEMMA ChunksMakeWhole ==
  ASSUME NEW c \in 1..MaxWorkers, NEW n \in 0..MaxSize
  PROVE  UNION {BytesOf(Chunk(i, c, n)) : i \in {j \in WorkerIds : j < c}} = Bytes(n)
<1> DEFINE Ids == {j \in WorkerIds : j < c}
<1>1. c \in Nat \ {0} /\ n \in Nat /\ Ids = 0..(c - 1)
  BY PoolAssumption DEF WorkerIds
<1>2. ASSUME NEW i \in Ids
      PROVE  BytesOf(Chunk(i, c, n)) \subseteq Bytes(n)
  BY <1>1, BytesInside
<1>3. ASSUME NEW b \in Bytes(n)
      PROVE  \E i \in Ids : b \in BytesOf(Chunk(i, c, n))
  <2>1. b \in 0..MaxSize /\ b \in Nat /\ b < n
    BY PoolAssumption DEF Bytes
  <2> QED
    BY <1>1, <2>1, ChunksCover DEF BytesOf
<1> QED
  BY <1>2, <1>3

-----------------------------------------------------------------------------
(* The invariant.                                                          *)

\* A pool under construction satisfies it.
LEMMA InitInv == Init => Inv
<1> SUFFICES ASSUME Init PROVE Inv
  OBVIOUS
<1>1. TypeOK
  <2>1. workerCount \in 0..MaxWorkers /\ 0 \in 0..(GenMod - 1)
    BY PoolAssumption DEF Init
  <2>2. slots \in [WorkerIds -> [offset : 0..MaxSize, size : 0..MaxSize]]
    BY PoolAssumption DEF Init
  <2>3. copied \in SUBSET Bytes(MaxSize)
    BY DEF Init
  <2>4. /\ completed \in [WorkerIds -> 0..(GenMod - 1)]
        /\ observed \in [WorkerIds -> 0..(GenMod - 1)]
    BY <2>1 DEF Init
  <2>5. /\ spawned \in 0..MaxWorkers /\ index \in 0..MaxWorkers /\ request \in 0..MaxSize
        /\ seen \in 0..(GenMod - 1) /\ startGeneration \in 0..(GenMod - 1)
    BY <2>1, PoolAssumption DEF Init
  <2> QED
    BY <2>1, <2>2, <2>3, <2>4, <2>5 DEF Init, TypeOK
<1>2. Counts /\ Births /\ Handshake /\ Filled
  BY <1>1, PoolAssumption DEF Init, TypeOK, Counts, Births, Handshake, Filled,
     WorkerIds, InCall, Stopping, Filling, Waiting, Looping
<1>3. Progress
  BY <1>1 DEF Init, TypeOK, Progress, Bytes, InCall, Waiting
<1> QED
  BY <1>1, <1>2, <1>3 DEF Inv

\* A worker inside its slot is one that the caller waits for.
LEMMA CopyingNow ==
  ASSUME Inv, NEW k \in WorkerIds, wpc[k] = "copy"
  PROVE  mpc \in Waiting /\ k < spawned
<1> USE PoolAssumption DEF WorkerIds
<1>1. mpc # "gone"
  BY DEF Inv, Births
<1>2. k < spawned
  BY <1>1 DEF Inv, TypeOK, Births
<1>3. wpc[k] \notin Resting \cup {"check", "exited"}
  BY DEF Resting
<1>4. mpc \notin Filling /\ mpc \notin Stopping \ {"stop_flag"}
  BY <1>2, <1>3 DEF Inv, Handshake
<1> QED
  BY <1>1, <1>2, <1>4 DEF Inv, TypeOK, InCall, Stopping, Filling, Waiting

\* The loop at the end of copy has passed only workers that completed.
LEMMA DoneSoFar ==
  ASSUME Inv, WorkerIsDone
  PROVE  \A i \in WorkerIds : i < index + 1 => completed[i] = startGeneration
<1>1. mpc = "await" /\ completed[index] = startGeneration /\ index \in Nat
  BY DEF WorkerIsDone, Inv, TypeOK
<1>2. \A i \in WorkerIds : i < index => completed[i] = startGeneration
  BY <1>1 DEF Inv, Handshake
<1> QED
  BY <1>1, <1>2, PoolAssumption DEF WorkerIds

\* The loop in stop_workers has passed only workers that exited.
LEMMA JoinedSoFar ==
  ASSUME Inv, JoinWorker
  PROVE  \A i \in WorkerIds : i < index + 1 => wpc[i] = "exited"
<1>1. mpc = "join" /\ wpc[index] = "exited" /\ index \in Nat
  BY DEF JoinWorker, Inv, TypeOK
<1>2. \A i \in WorkerIds : i < index => wpc[i] = "exited"
  BY <1>1 DEF Inv, Births
<1> QED
  BY <1>1, <1>2, PoolAssumption DEF WorkerIds

\* A new worker has observed and completed generation 0, the current one.
LEMMA ConstructorInv ==
  ASSUME Inv, SpawnWorker \/ SpawnFails \/ Constructed
  PROVE  Inv'
<1> USE PoolAssumption DEF Inv, TypeOK, WorkerIds, callerVars, sharedVars, workerVars,
           InCall, Stopping, Resting, Working, Filling, Waiting, Looping
<1>1. CASE SpawnWorker
  <2>1. TypeOK'
    BY <1>1 DEF SpawnWorker, Counts
  <2>2. Counts'
    BY <1>1, <2>1 DEF SpawnWorker, Counts, Births
  <2>3. Births'
    BY <1>1, <2>1 DEF SpawnWorker, Births, Counts
  <2>4. Handshake'
    BY <1>1, <2>1 DEF SpawnWorker, Handshake, Counts, Births
  <2>5. Filled'
    BY <1>1, <2>1 DEF SpawnWorker, Filled, Counts
  <2>6. Progress'
    BY <1>1, <2>1 DEF SpawnWorker, Progress, Counts, Births, Handshake, Copiers, Bytes
  <2> QED
    BY <2>1, <2>2, <2>3, <2>4, <2>5, <2>6
<1>2. CASE SpawnFails
  BY <1>2 DEF SpawnFails, Counts, Births, Handshake, Filled, Progress, Copiers, Bytes
<1>3. CASE Constructed
  BY <1>3 DEF Constructed, Counts, Births, Handshake, Filled, Progress, Copiers, Bytes
<1> QED
  BY <1>1, <1>2, <1>3

\* copy fills the slots of resting workers, publishes, and has all bytes when
\* it has seen the last worker complete.
LEMMA CopyInv ==
  ASSUME Inv, BeginCopy \/ CopyInline \/ AssignSlot
         \/ PublishGeneration \/ NotifyWorkers \/ WorkerIsDone
         \/ WorkerIsNotDone \/ WaitForWorker
  PROVE  Inv'
<1> USE PoolAssumption DEF Inv, TypeOK, WorkerIds, callerVars, sharedVars, workerVars,
           InCall, Stopping, Resting, Working, Filling, Waiting, Looping
<1>1. CASE BeginCopy
  <2>1. TypeOK'
    BY <1>1 DEF BeginCopy, Counts
  <2>2. Counts'
    BY <1>1, <2>1 DEF BeginCopy, Counts, Births
  <2>3. Births'
    BY <1>1, <2>1 DEF BeginCopy, Births, Counts
  <2>4. Handshake'
    BY <1>1, <2>1 DEF BeginCopy, Handshake, Counts, Births
  <2>5. Filled'
    BY <1>1, <2>1 DEF BeginCopy, Filled, Counts
  <2>6. Progress'
    BY <1>1, <2>1 DEF BeginCopy, Progress, Counts, Births, Handshake, Copiers, Bytes
  <2> QED
    BY <2>1, <2>2, <2>3, <2>4, <2>5, <2>6
<1>2. CASE CopyInline
  <2>1. TypeOK'
    <3>1. Bytes(request) \subseteq Bytes(MaxSize)
      BY DEF Bytes
    <3> QED
      BY <1>2, <3>1 DEF CopyInline
  <2>2. Counts'
    BY <1>2, <2>1 DEF CopyInline, Counts, Births
  <2>3. Births'
    BY <1>2, <2>1 DEF CopyInline, Births, Counts
  <2>4. Handshake'
    BY <1>2, <2>1 DEF CopyInline, Handshake, Counts, Births
  <2>5. Filled'
    BY <1>2, <2>1 DEF CopyInline, Filled, Counts
  <2>6. Progress'
    BY <1>2, <2>1 DEF CopyInline, Progress, Counts, Births, Handshake, Copiers, Bytes
  <2> QED
    BY <2>1, <2>2, <2>3, <2>4, <2>5, <2>6
<1>3. CASE AssignSlot
  <2>1. TypeOK'
    <3> DEFINE chunk == Chunk(index, workerCount, request)
    <3>1. workerCount \in Nat \ {0} /\ request \in Nat /\ index \in 0..(workerCount - 1)
      BY <1>3 DEF AssignSlot, Counts
    <3>2. chunk \in [offset : 0..request, size : 0..request]
      BY <3>1, ChunkInside
    <3> HIDE DEF chunk
    <3>3. chunk \in [offset : 0..MaxSize, size : 0..MaxSize]
      BY <3>2
    <3>4. slots' = [slots EXCEPT ![index] = chunk]
      BY <1>3 DEF AssignSlot, chunk
    <3> QED
      BY <1>3, <3>3, <3>4 DEF AssignSlot, Looped, Counts
  <2>2. Counts'
    BY <1>3, <2>1 DEF AssignSlot, Looped, Counts, Births
  <2>3. Births'
    BY <1>3, <2>1 DEF AssignSlot, Looped, Births, Counts
  <2>4. Handshake'
    BY <1>3, <2>1 DEF AssignSlot, Looped, Handshake, Counts, Births
  <2>5. Filled'
    BY <1>3, <2>1 DEF AssignSlot, Looped, Filled, Counts
  <2>6. Progress'
    BY <1>3, <2>1 DEF AssignSlot, Looped, Progress, Counts, Births, Handshake, Copiers,
       Bytes
  <2> QED
    BY <2>1, <2>2, <2>3, <2>4, <2>5, <2>6
<1>4. CASE PublishGeneration
  <2>1. TypeOK'
    BY <1>4, FollowingFacts DEF PublishGeneration, Counts
  <2>2. Counts'
    BY <1>4, <2>1 DEF PublishGeneration, Counts, Births
  <2>3. Births'
    BY <1>4, <2>1 DEF PublishGeneration, Births, Counts
  <2>4. Handshake'
    BY <1>4, FollowingFacts, <2>1 DEF PublishGeneration, Handshake, Counts, Births
  <2>5. Filled'
    BY <1>4, <2>1 DEF PublishGeneration, Filled, Counts
  <2>6. Progress'
    <3>1. Copiers' = {}
      BY <1>4, FollowingFacts DEF PublishGeneration, Copiers, Handshake
    <3> QED
      BY <1>4, <3>1 DEF PublishGeneration, Progress
  <2> QED
    BY <2>1, <2>2, <2>3, <2>4, <2>5, <2>6
<1>5. CASE NotifyWorkers
  <2>1. TypeOK'
    BY <1>5 DEF NotifyWorkers, WakeWorkers, Counts
  <2>2. Counts'
    BY <1>5, <2>1 DEF NotifyWorkers, WakeWorkers, Counts, Births
  <2>3. Births'
    BY <1>5, <2>1 DEF NotifyWorkers, WakeWorkers, Births, Counts
  <2>4. Handshake'
    BY <1>5, <2>1 DEF NotifyWorkers, WakeWorkers, Handshake, Counts, Births
  <2>5. Filled'
    BY <1>5, <2>1 DEF NotifyWorkers, WakeWorkers, Filled, Counts
  <2>6. Progress'
    BY <1>5, <2>1 DEF NotifyWorkers, WakeWorkers, Progress, Counts, Births, Handshake,
       Copiers, Bytes
  <2> QED
    BY <2>1, <2>2, <2>3, <2>4, <2>5, <2>6
<1>6. CASE WorkerIsDone
  <2>1. TypeOK'
    BY <1>6 DEF WorkerIsDone, Looped, Counts
  <2>2. Counts'
    BY <1>6, <2>1 DEF WorkerIsDone, Looped, Counts, Births
  <2>3. Births'
    BY <1>6, <2>1 DEF WorkerIsDone, Looped, Births, Counts
  <2>4. Handshake'
    BY <1>6, <2>1, DoneSoFar DEF WorkerIsDone, Looped, Handshake, Counts
  <2>5. Filled'
    BY <1>6, <2>1 DEF WorkerIsDone, Looped, Filled, Counts
  <2>6. Progress'
    <3>1. CASE index + 1 = spawned
      <4>1. Copiers = {i \in WorkerIds : i < spawned}
        BY <1>6, <3>1, DoneSoFar DEF Copiers, Counts
      <4>2. /\ copied = UNION {BytesOf(slots[i]) : i \in {j \in WorkerIds : j < spawned}}
            /\ \A i \in {j \in WorkerIds : j < spawned} :
                 slots[i] = Chunk(i, workerCount, request)
            /\ spawned = workerCount /\ workerCount \in 1..MaxWorkers
        BY <1>6, <4>1 DEF WorkerIsDone, Progress, Filled, Counts
      <4>3. copied = UNION {BytesOf(Chunk(i, workerCount, request)) :
                              i \in {j \in WorkerIds : j < workerCount}}
        BY <4>2
      <4>4. copied = Bytes(request)
        BY <4>2, <4>3, ChunksMakeWhole
      <4> QED
        BY <1>6, <3>1, <4>4 DEF WorkerIsDone, Looped, Progress, Bytes
    <3>2. CASE index + 1 # spawned
      BY <1>6, <3>2 DEF WorkerIsDone, Looped, Progress, Copiers
    <3> QED
      BY <3>1, <3>2
  <2> QED
    BY <2>1, <2>2, <2>3, <2>4, <2>5, <2>6
<1>7. CASE WorkerIsNotDone
  <2>1. TypeOK'
    BY <1>7 DEF WorkerIsNotDone, Counts
  <2>2. Counts'
    BY <1>7, <2>1 DEF WorkerIsNotDone, Counts, Births
  <2>3. Births'
    BY <1>7, <2>1 DEF WorkerIsNotDone, Births, Counts
  <2>4. Handshake'
    BY <1>7, <2>1 DEF WorkerIsNotDone, Handshake, Counts, Births
  <2>5. Filled'
    BY <1>7, <2>1 DEF WorkerIsNotDone, Filled, Counts
  <2>6. Progress'
    BY <1>7, <2>1 DEF WorkerIsNotDone, Progress, Counts, Births, Handshake, Copiers, Bytes
  <2> QED
    BY <2>1, <2>2, <2>3, <2>4, <2>5, <2>6
<1>8. CASE WaitForWorker
  <2>1. TypeOK'
    BY <1>8 DEF WaitForWorker, Counts
  <2>2. Counts'
    BY <1>8, <2>1 DEF WaitForWorker, Counts, Births
  <2>3. Births'
    BY <1>8, <2>1 DEF WaitForWorker, Births, Counts
  <2>4. Handshake'
    BY <1>8, <2>1 DEF WaitForWorker, Handshake, Counts, Births
  <2>5. Filled'
    BY <1>8, <2>1 DEF WaitForWorker, Filled, Counts
  <2>6. Progress'
    BY <1>8, <2>1 DEF WaitForWorker, Progress, Counts, Births, Handshake, Copiers, Bytes
  <2> QED
    BY <2>1, <2>2, <2>3, <2>4, <2>5, <2>6
<1> QED
  BY <1>1, <1>2, <1>3, <1>4, <1>5, <1>6, <1>7, <1>8

\* Stopping finds every worker at rest and joins them one by one.
LEMMA StopInv ==
  ASSUME Inv, BeginDestroy \/ SetStopping \/ BumpGeneration
         \/ NotifyStopping \/ JoinWorker \/ FreeWorkers
  PROVE  Inv'
<1> USE PoolAssumption DEF Inv, TypeOK, WorkerIds, callerVars, sharedVars, workerVars,
           InCall, Stopping, Resting, Working, Filling, Waiting, Looping
<1>1. CASE BeginDestroy
  BY <1>1 DEF BeginDestroy, Counts, Births, Handshake, Filled, Progress, Copiers, Bytes
<1>2. CASE SetStopping
  <2>1. TypeOK'
    BY <1>2 DEF SetStopping, Counts
  <2>2. Counts'
    BY <1>2, <2>1 DEF SetStopping, Counts, Births
  <2>3. Births'
    BY <1>2, <2>1 DEF SetStopping, Births, Counts
  <2>4. Handshake'
    BY <1>2, <2>1 DEF SetStopping, Handshake, Counts, Births
  <2>5. Filled'
    BY <1>2, <2>1 DEF SetStopping, Filled, Counts
  <2>6. Progress'
    BY <1>2, <2>1 DEF SetStopping, Progress, Counts, Births, Handshake, Copiers, Bytes
  <2> QED
    BY <2>1, <2>2, <2>3, <2>4, <2>5, <2>6
<1>3. CASE BumpGeneration
  <2>1. TypeOK'
    BY <1>3, FollowingFacts DEF BumpGeneration, Counts
  <2>2. Counts'
    BY <1>3, <2>1 DEF BumpGeneration, Counts, Births
  <2>3. Births'
    BY <1>3, <2>1 DEF BumpGeneration, Births, Counts
  <2>4. Handshake'
    BY <1>3, FollowingFacts, <2>1 DEF BumpGeneration, Handshake, Counts, Births
  <2>5. Filled'
    BY <1>3, <2>1 DEF BumpGeneration, Filled, Counts
  <2>6. Progress'
    BY <1>3, FollowingFacts, <2>1 DEF BumpGeneration, Progress, Counts, Births,
       Handshake, Copiers, Bytes
  <2> QED
    BY <2>1, <2>2, <2>3, <2>4, <2>5, <2>6
<1>4. CASE NotifyStopping
  <2>1. TypeOK'
    BY <1>4 DEF NotifyStopping, WakeWorkers, Counts
  <2>2. Counts'
    BY <1>4, <2>1 DEF NotifyStopping, WakeWorkers, Counts, Births
  <2>3. Births'
    BY <1>4, <2>1 DEF NotifyStopping, WakeWorkers, Births, Counts
  <2>4. Handshake'
    BY <1>4, <2>1 DEF NotifyStopping, WakeWorkers, Handshake, Counts, Births
  <2>5. Filled'
    BY <1>4, <2>1 DEF NotifyStopping, WakeWorkers, Filled, Counts
  <2>6. Progress'
    BY <1>4, <2>1 DEF NotifyStopping, WakeWorkers, Progress, Counts, Births, Handshake,
       Copiers, Bytes
  <2> QED
    BY <2>1, <2>2, <2>3, <2>4, <2>5, <2>6
<1>5. CASE JoinWorker
  <2>1. TypeOK'
    BY <1>5 DEF JoinWorker, Looped, Counts
  <2>2. Counts'
    BY <1>5, <2>1 DEF JoinWorker, Looped, Counts, Births
  <2>3. Births'
    BY <1>5, <2>1, JoinedSoFar DEF JoinWorker, Looped, Births, Counts
  <2>4. Handshake'
    BY <1>5, <2>1 DEF JoinWorker, Looped, Handshake, Counts, Births
  <2>5. Filled'
    BY <1>5, <2>1 DEF JoinWorker, Looped, Filled, Counts
  <2>6. Progress'
    BY <1>5, <2>1 DEF JoinWorker, Looped, Progress, Counts, Births, Handshake, Copiers,
       Bytes
  <2> QED
    BY <2>1, <2>2, <2>3, <2>4, <2>5, <2>6
<1>6. CASE FreeWorkers
  <2>1. TypeOK'
    BY <1>6 DEF FreeWorkers, Counts
  <2>2. Counts'
    BY <1>6, <2>1 DEF FreeWorkers, Counts, Births
  <2>3. Births'
    BY <1>6, <2>1 DEF FreeWorkers, Births, Counts
  <2>4. Handshake'
    BY <1>6, <2>1 DEF FreeWorkers, Handshake, Counts, Births
  <2>5. Filled'
    BY <1>6, <2>1 DEF FreeWorkers, Filled, Counts
  <2>6. Progress'
    BY <1>6, <2>1 DEF FreeWorkers, Progress, Counts, Births, Handshake, Copiers, Bytes
  <2> QED
    BY <2>1, <2>2, <2>3, <2>4, <2>5, <2>6
<1> QED
  BY <1>1, <1>2, <1>3, <1>4, <1>5, <1>6

\* A worker enters its slot only after a new generation, and the caller does
\* not pass it before it has completed that one.
LEMMA WorkerInv ==
  ASSUME Inv, NEW k \in WorkerIds, WorkerStep(k)
  PROVE  Inv'
<1> USE PoolAssumption DEF Inv, TypeOK, WorkerIds, callerVars, sharedVars, workerVars,
           InCall, Stopping, Resting, Working, Filling, Waiting, Looping, Go
<1>1. CASE LoadUnchanged(k)
  <2>1. TypeOK'
    BY <1>1 DEF LoadUnchanged, Counts
  <2>2. Counts'
    BY <1>1, <2>1 DEF LoadUnchanged, Counts, Births
  <2>3. Births'
    BY <1>1, <2>1 DEF LoadUnchanged, Births, Counts
  <2>4. Handshake'
    BY <1>1, <2>1 DEF LoadUnchanged, Handshake, Counts, Births
  <2>5. Filled'
    BY <1>1, <2>1 DEF LoadUnchanged, Filled, Counts
  <2>6. Progress'
    BY <1>1, <2>1 DEF LoadUnchanged, Progress, Counts, Births, Handshake, Copiers, Bytes
  <2> QED
    BY <2>1, <2>2, <2>3, <2>4, <2>5, <2>6
<1>2. CASE LoadNew(k)
  <2>1. TypeOK'
    BY <1>2 DEF LoadNew, Counts
  <2>2. Counts'
    BY <1>2, <2>1 DEF LoadNew, Counts, Births
  <2>3. Births'
    BY <1>2, <2>1 DEF LoadNew, Births, Counts
  <2>4. Handshake'
    BY <1>2, <2>1 DEF LoadNew, Handshake, Counts, Births
  <2>5. Filled'
    BY <1>2, <2>1 DEF LoadNew, Filled, Counts
  <2>6. Progress'
    BY <1>2, <2>1 DEF LoadNew, Progress, Counts, Births, Handshake, Copiers, Bytes
  <2> QED
    BY <2>1, <2>2, <2>3, <2>4, <2>5, <2>6
<1>3. CASE PollStopping(k)
  <2>1. TypeOK'
    BY <1>3 DEF PollStopping, Counts
  <2>2. Counts'
    BY <1>3, <2>1 DEF PollStopping, Counts, Births
  <2>3. Births'
    BY <1>3, <2>1 DEF PollStopping, Births, Counts
  <2>4. Handshake'
    BY <1>3, <2>1 DEF PollStopping, Handshake, Counts, Births
  <2>5. Filled'
    BY <1>3, <2>1 DEF PollStopping, Filled, Counts
  <2>6. Progress'
    BY <1>3, <2>1 DEF PollStopping, Progress, Counts, Births, Handshake, Copiers, Bytes
  <2> QED
    BY <2>1, <2>2, <2>3, <2>4, <2>5, <2>6
<1>4. CASE WaitForGeneration(k)
  <2>1. TypeOK'
    BY <1>4 DEF WaitForGeneration, Counts
  <2>2. Counts'
    BY <1>4, <2>1 DEF WaitForGeneration, Counts, Births
  <2>3. Births'
    BY <1>4, <2>1 DEF WaitForGeneration, Births, Counts
  <2>4. Handshake'
    BY <1>4, <2>1 DEF WaitForGeneration, Handshake, Counts, Births
  <2>5. Filled'
    BY <1>4, <2>1 DEF WaitForGeneration, Filled, Counts
  <2>6. Progress'
    BY <1>4, <2>1 DEF WaitForGeneration, Progress, Counts, Births, Handshake, Copiers,
       Bytes
  <2> QED
    BY <2>1, <2>2, <2>3, <2>4, <2>5, <2>6
<1>5. CASE CheckStopping(k)
  <2>1. TypeOK'
    BY <1>5 DEF CheckStopping, Counts
  <2>2. Counts'
    BY <1>5, <2>1 DEF CheckStopping, Counts, Births
  <2>3. Births'
    BY <1>5, <2>1 DEF CheckStopping, Births, Counts
  <2>4. Handshake'
    BY <1>5, <2>1 DEF CheckStopping, Handshake, Counts, Births
  <2>5. Filled'
    BY <1>5, <2>1 DEF CheckStopping, Filled, Counts
  <2>6. Progress'
    BY <1>5, <2>1 DEF CheckStopping, Progress, Counts, Births, Handshake, Copiers, Bytes
  <2> QED
    BY <2>1, <2>2, <2>3, <2>4, <2>5, <2>6
<1>6. CASE CopyChunk(k)
  <2>1. TypeOK'
    <3>1. mpc \in Waiting /\ k < spawned
      BY <1>6, CopyingNow DEF CopyChunk, Go
    <3>2. slots[k] = Chunk(k, workerCount, request) /\ workerCount \in Nat \ {0}
          /\ k \in 0..(workerCount - 1)
      BY <3>1 DEF Filled, Counts
    <3>3. BytesOf(slots[k]) \subseteq Bytes(MaxSize)
      BY <3>2, BytesInside DEF Bytes
    <3> QED
      BY <1>6, <3>3 DEF CopyChunk
  <2>2. Counts'
    BY <1>6, <2>1 DEF CopyChunk, Counts, Births
  <2>3. Births'
    BY <1>6, <2>1 DEF CopyChunk, Births, Counts
  <2>4. Handshake'
    BY <1>6, <2>1 DEF CopyChunk, Handshake, Counts, Births
  <2>5. Filled'
    BY <1>6, <2>1 DEF CopyChunk, Filled, Counts
  <2>6. Progress'
    <3>1. mpc \in Waiting /\ k < spawned
      BY <1>6, CopyingNow DEF CopyChunk, Go
    <3>2. Copiers' = Copiers \cup {k}
      BY <1>6, <3>1 DEF CopyChunk, Go, Copiers
    <3>3. copied' = UNION {BytesOf(slots[i]) : i \in Copiers'} /\ slots' = slots
      BY <1>6, <3>1, <3>2 DEF CopyChunk, Progress
    <3> QED
      BY <1>6, <3>1, <3>3 DEF CopyChunk, Progress
  <2> QED
    BY <2>1, <2>2, <2>3, <2>4, <2>5, <2>6
<1>7. CASE StoreCompleted(k)
  <2>1. TypeOK'
    BY <1>7 DEF StoreCompleted, Counts
  <2>2. Counts'
    BY <1>7, <2>1 DEF StoreCompleted, Counts, Births
  <2>3. Births'
    BY <1>7, <2>1 DEF StoreCompleted, Births, Counts
  <2>4. Handshake'
    BY <1>7, <2>1 DEF StoreCompleted, Handshake, Counts, Births
  <2>5. Filled'
    BY <1>7, <2>1 DEF StoreCompleted, Filled, Counts
  <2>6. Progress'
    BY <1>7, <2>1 DEF StoreCompleted, Progress, Counts, Births, Handshake, Copiers, Bytes
  <2> QED
    BY <2>1, <2>2, <2>3, <2>4, <2>5, <2>6
<1>8. CASE NotifyCaller(k)
  <2>1. TypeOK'
    BY <1>8 DEF NotifyCaller, Counts
  <2>2. Counts'
    BY <1>8, <2>1 DEF NotifyCaller, Counts, Births
  <2>3. Births'
    BY <1>8, <2>1 DEF NotifyCaller, Births, Counts
  <2>4. Handshake'
    BY <1>8, <2>1 DEF NotifyCaller, Handshake, Counts, Births
  <2>5. Filled'
    BY <1>8, <2>1 DEF NotifyCaller, Filled, Counts
  <2>6. Progress'
    BY <1>8, <2>1 DEF NotifyCaller, Progress, Counts, Births, Handshake, Copiers, Bytes
  <2> QED
    BY <2>1, <2>2, <2>3, <2>4, <2>5, <2>6
<1> QED
  BY <1>1, <1>2, <1>3, <1>4, <1>5, <1>6, <1>7, <1>8 DEF WorkerStep

\* Every step keeps the invariant.
LEMMA NextInv == Inv /\ [Next]_vars => Inv'
<1> SUFFICES ASSUME Inv, [Next]_vars PROVE Inv'
  OBVIOUS
<1>1. CASE UNCHANGED vars
  BY <1>1 DEF vars, callerVars, sharedVars, workerVars, Inv, TypeOK, Counts, Births,
     Handshake, Filled, Progress, Copiers
<1>2. CASE Gone
  BY <1>1, <1>2 DEF Gone
<1> QED
  BY <1>1, <1>2, ConstructorInv, CopyInv, StopInv, WorkerInv DEF Next, CallerStep

\* The strengthened invariant holds in every reachable state.
THEOREM Invariance == Spec => []Inv
<1> QED
  BY InitInv, NextInv, PTL DEF Spec

-----------------------------------------------------------------------------
(* What follows from it.                                                   *)

\* No variable leaves its range; in particular no chunk reaches beyond the
\* request.
THEOREM TypeCorrect == Spec => []TypeOK
<1>1. Inv => TypeOK
  BY DEF Inv
<1> QED
  BY <1>1, Invariance, PTL

\* No worker is in its slot or in the destination outside the waiting part of
\* a call, however the generations wrap.
THEOREM NoStrayAccess == Spec => []WorkersTouchMemoryOnlyDuringCall
<1>1. Inv => WorkersTouchMemoryOnlyDuringCall
  BY PoolAssumption DEF Inv, TypeOK, Births, Handshake, WorkersTouchMemoryOnlyDuringCall,
     WorkerIds, InCall, Stopping, Resting, Working, Filling, Waiting
<1> QED
  BY <1>1, Invariance, PTL

\* A copy that has returned has copied the request and nothing else, for any
\* size and number of workers.
THEOREM CopyComplete == Spec => []ReturnedCopyIsComplete
<1>1. Inv => ReturnedCopyIsComplete
  BY DEF Inv, Progress, ReturnedCopyIsComplete
<1> QED
  BY <1>1, Invariance, PTL

\* Nothing is freed before every worker has exited.
THEOREM NoUseAfterFree == Spec => []FreedAfterLastWorker
<1>1. Inv => FreedAfterLastWorker
  BY PoolAssumption DEF Inv, TypeOK, Births, FreedAfterLastWorker, WorkerIds
<1> QED
  BY <1>1, Invariance, PTL

-----------------------------------------------------------------------------
(* The pool implements CopyService.                                        *)

\* A pool under construction is an idle service.
LEMMA InitService == Init => Service!Init
  BY DEF Init, Service!Init, InCall

\* A worker's copy writes within the request of the active call.
LEMMA CopyChunkService ==
  ASSUME Inv, NEW k \in WorkerIds, CopyChunk(k)
  PROVE  Service!Write
<1>1. mpc \in Waiting /\ k < spawned
  BY CopyingNow DEF CopyChunk, Go
<1>2. /\ slots[k] = Chunk(k, workerCount, request)
      /\ workerCount \in Nat \ {0} /\ k \in 0..(workerCount - 1) /\ request \in 0..MaxSize
  BY <1>1, PoolAssumption DEF Inv, TypeOK, Filled, Counts, Waiting, WorkerIds
<1>3. BytesOf(slots[k]) \subseteq Bytes(request)
  BY <1>2, BytesInside
<1>4. UNION {BytesOf(slots[i]) : i \in Copiers} \subseteq Bytes(request)
  <2> SUFFICES ASSUME NEW i \in Copiers PROVE BytesOf(slots[i]) \subseteq Bytes(request)
    OBVIOUS
  <2>1. slots[i] = Chunk(i, workerCount, request) /\ i \in 0..(workerCount - 1)
    BY <1>1, PoolAssumption DEF Inv, TypeOK, Filled, Counts, Copiers, Waiting, WorkerIds
  <2> QED
    BY <1>2, <2>1, BytesInside
<1>5. copied \subseteq Bytes(request) /\ Bytes(request) = Service!Bytes(request)
  BY <1>1, <1>4 DEF Inv, Progress, Bytes, Service!Bytes
<1> QED
  BY <1>1, <1>3, <1>5 DEF Service!Write, CopyChunk, callerVars, InCall, Waiting

\* Every step is a step of the service or a stutter.
LEMMA NextService ==
  Inv /\ Inv' /\ [Next]_vars => [Service!Next]_(Service!vars)
<1> SUFFICES ASSUME Inv, Inv', [Next]_vars PROVE [Service!Next]_(Service!vars)
  OBVIOUS
<1> USE DEF Service!vars, InCall, Stopping, callerVars, sharedVars, workerVars
<1>1. CASE SpawnFails
  BY <1>1 DEF SpawnFails, Service!Next, Service!Close
<1>2. CASE BeginDestroy
  BY <1>2 DEF BeginDestroy, Service!Next, Service!Close
<1>3. CASE BeginCopy
  BY <1>3 DEF BeginCopy, Service!Next, Service!Begin
<1>4. CASE CopyInline
  BY <1>4 DEF CopyInline, Bytes, Service!Bytes, Service!Next, Service!Return
<1>5. CASE WorkerIsDone
  <2>1. CASE mpc' = "idle"
    BY <1>5, <2>1 DEF WorkerIsDone, Inv, Progress, Bytes, Service!Bytes, Service!Next,
       Service!Return
  <2>2. CASE mpc' = "await"
    BY <1>5, <2>2 DEF WorkerIsDone
  <2> QED
    BY <1>5, <2>1, <2>2 DEF WorkerIsDone, Looped
<1>6. ASSUME NEW k \in WorkerIds, CopyChunk(k)
      PROVE  [Service!Next]_(Service!vars)
  BY <1>6, CopyChunkService DEF Service!Next
<1>7. CASE SpawnWorker \/ Constructed \/ AssignSlot \/ PublishGeneration \/ NotifyWorkers
           \/ WorkerIsNotDone \/ WaitForWorker
  BY <1>7 DEF SpawnWorker, Constructed, AssignSlot, PublishGeneration, NotifyWorkers,
     WorkerIsNotDone, WaitForWorker, Looped
<1>8. CASE SetStopping \/ BumpGeneration \/ NotifyStopping \/ JoinWorker \/ FreeWorkers
  BY <1>8 DEF SetStopping, BumpGeneration, NotifyStopping, JoinWorker, FreeWorkers, Looped
<1>9. ASSUME NEW k \in WorkerIds, WorkerStep(k), ~CopyChunk(k)
      PROVE  UNCHANGED Service!vars
  BY <1>9 DEF WorkerStep, LoadUnchanged, LoadNew, PollStopping, WaitForGeneration,
     CheckStopping, StoreCompleted, NotifyCaller
<1>10. CASE UNCHANGED vars \/ Gone
  BY <1>10 DEF vars, Gone
<1> QED
  BY <1>1, <1>2, <1>3, <1>4, <1>5, <1>6, <1>7, <1>8, <1>9, <1>10 DEF Next, CallerStep

\* The pool, with its workers and generations, is a copy service.
THEOREM Refinement == Spec => ImplementsCopyService
<1> QED
  BY InitService, NextService, Invariance, PTL DEF Spec, ImplementsCopyService,
     Service!Spec
=============================================================================
