--------------------------- MODULE SignalHandlers ---------------------------
(***************************************************************************)
(* Who answers a fault: safe_read_uint8 (safe_memory.cpp), which puts its  *)
(* own handlers of SIGSEGV and SIGBUS around one read, and                 *)
(* install_pool_overflow_signal_handler with pool_signal_handler           *)
(* (detail/downward_pool_storage.cpp), which share the dispositions of the *)
(* process.  A step is one sigaction, or what lies between two.            *)
(***************************************************************************)
CONSTANTS
  Readers,     \* threads that call safe_read_uint8
  Installers,  \* threads that call install_pool_overflow_signal_handler
  Users,       \* threads that touch memory on their own
  NoThread,
  Originals,   \* handlers the program may have when it starts
  MayOverlap   \* the program installs the pools' handler while a thread reads

Threads == Readers \cup Installers \cup Users
Signals == {"SEGV", "BUS"}
Handlers == {"default", "ignore", "program", "read", "pool"}
Places == {"readable", "guard", "wild"}  \* a byte to read, a pool's guard, neither
Running == [how |-> "running", place |-> "readable", signal |-> "SEGV", thread |-> NoThread]

ASSUME SignalsAssumption ==
  /\ NoThread \notin Threads /\ Originals \subseteq {"default", "ignore", "program"}
  /\ MayOverlap \in BOOLEAN

VARIABLES
  disposition,  \* the handler of each signal, one for all threads
  installed,    \* g_pool_signal_handler_installed
  previous,     \* g_previous_sigsegv, g_previous_sigbus
  active,       \* g_read_active
  jump,         \* the thread g_read_jump_buffer leads back to
  pc,
  place,        \* what the argument of safe_read_uint8 points to
  saved,        \* handlers.previous_segv, handlers.previous_bus
  result,       \* what safe_read_uint8 returns
  errno,        \* "caller's" or "lost"
  blocked,      \* signals each thread has blocked
  original,     \* history: the dispositions the program started with
  ended         \* how the process has ended

reading == <<active, jump, place, saved, result, errno, blocked>>
installing == <<installed, previous>>
vars == <<disposition, installing, reading, pc, original, ended>>

Init ==
  /\ disposition \in [Signals -> Originals]
  /\ original = disposition
  /\ installed = FALSE
  /\ previous = [s \in Signals |-> "default"]
  /\ active = FALSE
  /\ jump = NoThread
  /\ pc = [t \in Threads |-> "idle"]
  /\ place = [t \in Threads |-> "readable"]
  /\ saved = [t \in Threads |-> [s \in Signals |-> "default"]]
  /\ result = [t \in Threads |-> "nullopt"]
  /\ errno = [t \in Threads |-> "caller's"]
  /\ blocked = [t \in Threads |-> {}]
  /\ ended = Running

Go(t, from, to) == pc[t] = from /\ pc' = [pc EXCEPT ![t] = to]

\* sigaction(s, h, nullptr)
Sigaction(s, h) == disposition' = [disposition EXCEPT ![s] = h]

-----------------------------------------------------------------------------
(* A fault.                                                                *)

\* Who has the last word: pool_signal_handler passes on what is no guard of
\* a pool to the handler it has replaced.
Answering(s, p) ==
  IF disposition[s] = "pool" /\ p # "guard" THEN previous[s] ELSE disposition[s]

\* Mistake: sigsetjmp(g_read_jump_buffer, 0), which does not save the mask.
JumpBackMasked(t) ==
  /\ Go(t, "read", "restoreBus")
  /\ blocked' = [blocked EXCEPT ![t] = Signals]
  /\ active' = FALSE
  /\ result' = [result EXCEPT ![t] = "nullopt"]
  /\ UNCHANGED <<disposition, installing, jump, place, saved, errno, original, ended>>

\* siglongjmp: back in sigsetjmp, with the mask of that time.
JumpBack(t) ==
  /\ Go(t, "read", "restoreBus")
  /\ blocked' = [blocked EXCEPT ![t] = {}]
  /\ active' = FALSE
  /\ result' = [result EXCEPT ![t] = "nullopt"]
  /\ UNCHANGED <<disposition, installing, jump, place, saved, errno, original, ended>>

Outcome(t, s, p) ==
  IF s \in blocked[t] THEN "killed"
  ELSE CASE Answering(s, p) = "default" -> "killed"
         [] Answering(s, p) = "ignore" -> IF disposition[s] = "pool" THEN "exit" ELSE "killed"
         [] Answering(s, p) = "program" -> "program"
         [] Answering(s, p) = "read" -> IF active THEN "jump" ELSE "exit"
         [] Answering(s, p) = "pool" -> IF p = "guard" THEN "reported" ELSE "recursion"

\* A thread touches what it may not; the signal depends on the system.
Fault(t, p) ==
  \E s \in Signals :
    IF Outcome(t, s, p) = "jump" /\ jump = t
    THEN JumpBack(t)
    ELSE \* a jump to another thread's stack is the end of the process, too
         /\ ended' = [how |-> Outcome(t, s, p), place |-> p, signal |-> s, thread |-> t]
         /\ UNCHANGED <<disposition, installing, reading, pc, original>>

Touch(t) == pc[t] = "idle" /\ \E p \in {"guard", "wild"} : Fault(t, p)

-----------------------------------------------------------------------------
(* safe_read_uint8.                                                        *)

Reading(t) ==
  pc[t] \in {"installSegv", "installBus", "undo", "giveUp", "arm", "read", "restoreBus", "restoreSegv"}

Installing(t) == pc[t] \in {"poolSegv", "poolBus", "poolUndo", "poolUnset"}

\* Calls of safe_read_uint8 may not overlap.
Read(t) ==
  /\ \A u \in Threads \ {t} : ~Reading(u) /\ (Installing(u) => MayOverlap)
  /\ Go(t, "idle", "installSegv")
  /\ \E p \in Places : place' = [place EXCEPT ![t] = p]
  /\ UNCHANGED <<disposition, installing, active, jump, saved, result, errno, blocked, original, ended>>

\* The first, then the second sigaction of install.
InstallHandler(t, s, from, to) ==
  /\ Go(t, from, to)
  /\ saved' = [saved EXCEPT ![t][s] = disposition[s]]
  /\ Sigaction(s, "read")
  /\ UNCHANGED <<installing, active, jump, place, result, errno, blocked, original, ended>>

\* sigaction fails, and writes errno.
InstallFails(t, from, to) ==
  /\ Go(t, from, to)
  /\ errno' = [errno EXCEPT ![t] = "lost"]
  /\ UNCHANGED <<disposition, installing, active, jump, place, saved, result, blocked, original, ended>>

InstallSegv(t) ==
  \/ InstallHandler(t, "SEGV", "installSegv", "installBus")
  \/ InstallFails(t, "installSegv", "giveUp")

\* Mistake: SIGSEGV keeps the handler of the read that did not happen.
InstallBusGivingUp(t) ==
  \/ InstallHandler(t, "BUS", "installBus", "arm")
  \/ InstallFails(t, "installBus", "giveUp")

InstallBus(t) ==
  \/ InstallHandler(t, "BUS", "installBus", "arm")
  \/ InstallFails(t, "installBus", "undo")

Undo(t) ==
  /\ Go(t, "undo", "giveUp")
  /\ Sigaction("SEGV", saved[t]["SEGV"])
  /\ UNCHANGED <<installing, reading, original, ended>>

GiveUp(t) ==
  /\ Go(t, "giveUp", "idle")
  /\ result' = [result EXCEPT ![t] = "nullopt"]
  /\ errno' = [errno EXCEPT ![t] = "caller's"]
  /\ UNCHANGED <<disposition, installing, active, jump, place, saved, blocked, original, ended>>

\* sigsetjmp, "g_read_active = 1".
Arm(t) ==
  /\ Go(t, "arm", "read")
  /\ jump' = t
  /\ active' = TRUE
  /\ UNCHANGED <<disposition, installing, place, saved, result, errno, blocked, original, ended>>

ReadByte(t) ==
  /\ place[t] = "readable"
  /\ Go(t, "read", "restoreBus")
  /\ active' = FALSE
  /\ result' = [result EXCEPT ![t] = "value"]
  /\ UNCHANGED <<disposition, installing, jump, place, saved, errno, blocked, original, ended>>

ReadFaults(t) == pc[t] = "read" /\ place[t] # "readable" /\ Fault(t, place[t])

RestoreBus(t) ==
  /\ Go(t, "restoreBus", "restoreSegv")
  /\ Sigaction("BUS", saved[t]["BUS"])
  /\ UNCHANGED <<installing, reading, original, ended>>

\* Mistake: SIG_DFL instead of what was there before.
RestoreSegvDefault(t) ==
  /\ Go(t, "restoreSegv", "idle")
  /\ Sigaction("SEGV", "default")
  /\ errno' = [errno EXCEPT ![t] = "caller's"]
  /\ UNCHANGED <<installing, active, jump, place, saved, result, blocked, original, ended>>

RestoreSegv(t) ==
  /\ Go(t, "restoreSegv", "idle")
  /\ Sigaction("SEGV", saved[t]["SEGV"])
  /\ errno' = [errno EXCEPT ![t] = "caller's"]
  /\ UNCHANGED <<installing, active, jump, place, saved, result, blocked, original, ended>>

-----------------------------------------------------------------------------
(* install_pool_overflow_signal_handler.                                   *)

\* Mistake: every call installs.
InstallAgain(t) ==
  /\ \A u \in Threads : Reading(u) => MayOverlap
  /\ Go(t, "idle", "poolSegv")
  /\ installed' = TRUE
  /\ UNCHANGED <<disposition, previous, reading, original, ended>>

\* compare_exchange_strong; a later call finds TRUE and returns.
Install(t) ==
  /\ ~installed
  /\ \A u \in Threads : Reading(u) => MayOverlap
  /\ Go(t, "idle", "poolSegv")
  /\ installed' = TRUE
  /\ UNCHANGED <<disposition, previous, reading, original, ended>>

PoolHandler(t, s, from, to) ==
  /\ Go(t, from, to)
  /\ previous' = [previous EXCEPT ![s] = disposition[s]]
  /\ Sigaction(s, "pool")
  /\ UNCHANGED <<installed, reading, original, ended>>

PoolSegv(t) == PoolHandler(t, "SEGV", "poolSegv", "poolBus")
PoolBus(t) == PoolHandler(t, "BUS", "poolBus", "idle")

PoolSegvFails(t) ==
  /\ Go(t, "poolSegv", "poolUnset")
  /\ UNCHANGED <<disposition, installing, reading, original, ended>>

\* Mistake: the flag is cleared while SIGSEGV still has the new handler.
PoolBusFailsEarly(t) ==
  /\ Go(t, "poolBus", "poolUndo")
  /\ installed' = FALSE
  /\ UNCHANGED <<disposition, previous, reading, original, ended>>

PoolBusFails(t) ==
  /\ Go(t, "poolBus", "poolUndo")
  /\ UNCHANGED <<disposition, installing, reading, original, ended>>

PoolUndo(t) ==
  /\ Go(t, "poolUndo", "poolUnset")
  /\ Sigaction("SEGV", previous["SEGV"])
  /\ UNCHANGED <<installing, reading, original, ended>>

PoolUnset(t) ==
  /\ Go(t, "poolUnset", "idle")
  /\ installed' = FALSE
  /\ UNCHANGED <<disposition, previous, reading, original, ended>>

-----------------------------------------------------------------------------
HasEnded == ended # Running
Ended == HasEnded /\ UNCHANGED vars

ReaderStep(t) ==
  \/ InstallSegv(t) \/ InstallBus(t) \/ Undo(t) \/ GiveUp(t) \/ Arm(t)
  \/ ReadByte(t) \/ ReadFaults(t) \/ RestoreBus(t) \/ RestoreSegv(t)

InstallerStep(t) ==
  \/ PoolSegv(t) \/ PoolBus(t) \/ PoolSegvFails(t) \/ PoolBusFails(t)
  \/ PoolUndo(t) \/ PoolUnset(t)

Next ==
  \/ /\ ~HasEnded
     /\ \/ \E t \in Readers : Read(t) \/ ReaderStep(t)
        \/ \E t \in Installers : Install(t) \/ InstallerStep(t)
        \/ \E t \in Users : Touch(t)
  \/ Ended

Spec == Init /\ [][Next]_vars

\* A thread in the middle of a call goes on.
FairSpec ==
  /\ Spec
  /\ \A t \in Readers : WF_vars(~HasEnded /\ ReaderStep(t))
  /\ \A t \in Installers : WF_vars(~HasEnded /\ InstallerStep(t))

-----------------------------------------------------------------------------
(* Properties.                                                             *)

TypeOK ==
  /\ disposition \in [Signals -> Handlers] /\ original \in [Signals -> Originals]
  /\ installed \in BOOLEAN /\ previous \in [Signals -> Handlers]
  /\ active \in BOOLEAN /\ jump \in Threads \cup {NoThread}
  /\ place \in [Threads -> Places]
  /\ saved \in [Threads -> [Signals -> Handlers]]
  /\ result \in [Threads -> {"value", "nullopt"}]
  /\ errno \in [Threads -> {"caller's", "lost"}]
  /\ blocked \in [Threads -> SUBSET Signals]
  \* no handler ever calls itself
  /\ ended.how \in {"running", "killed", "exit", "program", "jump", "reported"}

Quiet == ~HasEnded /\ \A t \in Threads : pc[t] = "idle"

\* README.md: safe_read_uint8 puts the handlers back before it returns; and
\* the pools' handler is installed for both signals or, when one of the calls
\* fails, for none, although several threads may install it at once.  Between
\* calls the handlers in force are the program's own until an installation
\* has succeeded, and the pools' from then on.  And errno is the caller's, on
\* every way out (test_preserves_errno takes one of them).
HandlersInForce ==
  Quiet => /\ disposition = IF installed THEN [s \in Signals |-> "pool"] ELSE original
           /\ \A t \in Threads : errno[t] = "caller's"

\* While one thread reads, its handlers are those of the whole process.
Interferes == \E t \in Threads \ {ended.thread} : Reading(t)

\* test_overflow_handler_delegates_unregistered_faults: a fault that is no
\* pool's is answered the way the program wanted it answered before anything
\* of this library was installed.
StrayFaultsDelegated ==
  ended.place = "wild" /\ ~Interferes =>
    (ended.how = "program" <=> original[ended.signal] = "program")

IsInstalled == installed /\ \A t \in Threads : ~Installing(t)

\* README.md: on a hit of a guard the handler prints the name of the pool.  It
\* does so once it is installed, whatever reads came before or after, unless
\* another thread is just reading.
GuardHitsReported ==
  ended.place = "guard" /\ IsInstalled /\ ~Interferes => ended.how = "reported"

\* Whatever safe_read_uint8 is given, and however often it has faulted
\* before, it returns: no read ends the process, which only another thread
\* can do meanwhile.
ReadReturns ==
  \A t \in Readers :
    pc[t] = "installSegv" ~> pc[t] = "idle" \/ (HasEnded /\ ended.thread # t)
=============================================================================
