------------------------ MODULE SignalHandlersProofs ------------------------
(***************************************************************************)
(* SignalHandlers, for any number of threads: as long as nobody installs   *)
(* the pools' handler while a thread reads (~MayOverlap), every fault is   *)
(* answered by the handler that should answer it.                          *)
(***************************************************************************)
EXTENDS SignalHandlers, TLAPS

InRead ==
  {"installSegv", "installBus", "undo", "giveUp", "arm", "read", "restoreBus", "restoreSegv"}
InInstall == {"poolSegv", "poolBus", "poolUndo", "poolUnset"}

\* A thread in the middle of a call is the only one that works on the
\* handlers; it has taken the flag if the call is an installation.
Apart ==
  /\ pc \in [Threads -> {"idle"} \cup InRead \cup InInstall]
  /\ \A t \in Threads : Reading(t) => \A u \in Threads \ {t} : pc[u] = "idle"
  /\ \A t \in Threads : Installing(t) => installed /\ \A u \in Threads \ {t} : pc[u] = "idle"

\* The read of this thread has put its own handler of s in force.
Holds(t, s) ==
  \/ pc[t] \in {"arm", "read", "restoreBus"}
  \/ s = "SEGV" /\ pc[t] \in {"installBus", "undo", "restoreSegv"}

\* What is in force when nobody is in the middle of a call.
Resting == IF installed THEN [s \in Signals |-> "pool"] ELSE original

\* A read has kept what it has replaced, and nothing else is out of place.
ReadsBorrow ==
  (\A t \in Threads : ~Installing(t)) =>
    /\ \A t \in Threads, s \in Signals :
         Holds(t, s) => disposition[s] = "read" /\ saved[t][s] = Resting[s]
    /\ \A s \in Signals : (\A t \in Threads : ~Holds(t, s)) => disposition[s] = Resting[s]
    /\ installed => previous = original

\* How far an installation has come.
InstallationSwaps ==
  \A t \in Threads :
    /\ pc[t] \in {"poolSegv", "poolUnset"} => disposition = original
    /\ pc[t] \in {"poolBus", "poolUndo"} =>
         /\ disposition = [original EXCEPT !["SEGV"] = "pool"]
         /\ previous["SEGV"] = original["SEGV"]

\* A fault of a read leads back to the thread that reads, with nothing blocked.
JumpsHome ==
  /\ \A t \in Threads : pc[t] = "read" => active /\ jump = t
  /\ blocked = [t \in Threads |-> {}]

ErrnoKept == \A t \in Threads : errno[t] = "lost" => pc[t] \in {"undo", "giveUp"}

Verdict == StrayFaultsDelegated /\ GuardHitsReported

Inv ==
  /\ TypeOK /\ Apart /\ ReadsBorrow /\ InstallationSwaps /\ JumpsHome /\ ErrnoKept
  /\ Verdict

-----------------------------------------------------------------------------
(* Who is where.                                                           *)

\* While the process runs there is no verdict.
LEMMA NoVerdict ==
  ASSUME ~HasEnded, UNCHANGED ended
  PROVE  Verdict'
  BY DEF HasEnded, Running, Verdict, StrayFaultsDelegated, GuardHitsReported

\* A thread that reads, and goes on, is alone.
LEMMA ReaderAlone ==
  ASSUME Apart, NEW t \in Threads, NEW from \in InRead, NEW to \in InRead \cup {"idle"},
         Go(t, from, to), UNCHANGED installed
  PROVE  /\ Apart'
         /\ pc[t] = from /\ pc'[t] = to
         /\ \A u \in Threads \ {t} : pc[u] = "idle" /\ pc'[u] = "idle"
         /\ \A u \in Threads : ~Installing(u) /\ ~Installing(u)'
  BY DEF Apart, Go, Reading, Installing, InRead, InInstall

\* So is one that installs.
LEMMA InstallerAlone ==
  ASSUME Apart, NEW t \in Threads, NEW from \in InInstall, NEW to \in InInstall \cup {"idle"},
         Go(t, from, to), to # "idle" => UNCHANGED installed
  PROVE  /\ Apart'
         /\ installed
         /\ pc[t] = from /\ pc'[t] = to
         /\ \A u \in Threads \ {t} : pc[u] = "idle" /\ pc'[u] = "idle"
  BY DEF Apart, Go, Reading, Installing, InRead, InInstall

\* A read that keeps the invariants of its own thread keeps those of all.
LEMMA ReaderKeeps ==
  ASSUME Inv, ~HasEnded, TypeOK', NEW t \in Threads,
         NEW from \in InRead, NEW to \in InRead \cup {"idle"},
         Go(t, from, to), UNCHANGED <<installing, blocked, original, ended>>,
         \A u \in Threads \ {t} : errno'[u] = errno[u],
         errno'[t] = "lost" => to \in {"undo", "giveUp"},
         to = "read" => active' /\ jump' = t,
         \A s \in Signals :
           IF Holds(t, s)' THEN disposition'[s] = "read" /\ saved'[t][s] = Resting[s]
                           ELSE disposition'[s] = Resting[s]
  PROVE  Inv'
<1>1. UNCHANGED <<installed, previous>>
  BY DEF installing
<1>2. /\ Apart'
      /\ pc[t] = from /\ pc'[t] = to
      /\ \A u \in Threads \ {t} : pc[u] = "idle" /\ pc'[u] = "idle"
      /\ \A u \in Threads : ~Installing(u) /\ ~Installing(u)'
  BY <1>1, ReaderAlone DEF Inv
<1>3. /\ Resting' = Resting
      /\ \A u \in Threads \ {t}, s \in Signals : ~Holds(u, s)'
      /\ installed => previous = original
  BY <1>1, <1>2 DEF Resting, Holds, Inv, ReadsBorrow
<1>4. ReadsBorrow'
  BY <1>1, <1>2, <1>3 DEF ReadsBorrow
<1>5. InstallationSwaps'
  BY <1>2 DEF InstallationSwaps, Installing
<1>6. JumpsHome'
  BY <1>2 DEF JumpsHome, Inv
<1>7. ErrnoKept'
  BY <1>2 DEF ErrnoKept, Inv
<1> QED
  BY <1>2, <1>4, <1>5, <1>6, <1>7, NoVerdict DEF Inv

\* What a reading thread finds.
LEMMA ReaderFinds ==
  ASSUME Inv, NEW t \in Threads, pc[t] \in InRead
  PROVE  /\ \A s \in Signals :
              IF Holds(t, s) THEN disposition[s] = "read" /\ saved[t][s] = Resting[s]
                             ELSE disposition[s] = Resting[s]
         /\ errno[t] = "lost" => pc[t] \in {"undo", "giveUp"}
         /\ \A u \in Threads : ~Installing(u)
<1>1. /\ \A u \in Threads \ {t} : pc[u] = "idle"
      /\ \A u \in Threads : ~Installing(u)
  BY DEF Inv, Apart, Reading, Installing, InRead
<1>2. \A u \in Threads \ {t}, s \in Signals : ~Holds(u, s)
  BY <1>1 DEF Holds
<1> QED
  BY <1>1, <1>2 DEF Inv, ReadsBorrow, ErrnoKept

-----------------------------------------------------------------------------
(* One lemma per action of a read.                                         *)

\* A call finds nobody in the middle of another.
LEMMA ReadInv ==
  ASSUME ~MayOverlap, Inv, ~HasEnded, NEW t \in Threads, Read(t)
  PROVE  Inv'
<1>1. /\ pc' = [pc EXCEPT ![t] = "installSegv"] /\ pc[t] = "idle"
      /\ \A u \in Threads : pc[u] = "idle"
      /\ UNCHANGED <<disposition, installed, previous, active, jump, saved, result, errno,
                     blocked, original, ended>>
  BY DEF Read, Go, Inv, Apart, Reading, Installing, InRead, InInstall, installing
<1>2. TypeOK'
  <2>1. place' \in [Threads -> Places]
    BY DEF Read, Inv, TypeOK
  <2> QED
    BY <1>1, <2>1 DEF Inv, TypeOK
<1>3. Apart'
  BY <1>1 DEF Inv, Apart, Reading, Installing, InRead, InInstall
<1>4. \A u \in Threads : ~Installing(u) /\ \A s \in Signals : ~Holds(u, s) /\ ~Holds(u, s)'
  BY <1>1, <1>3 DEF Installing, Holds, Apart
<1>5. ReadsBorrow'
  BY <1>1, <1>4 DEF Inv, ReadsBorrow, Resting
<1>6. InstallationSwaps' /\ JumpsHome' /\ ErrnoKept'
  BY <1>1 DEF Inv, InstallationSwaps, JumpsHome, ErrnoKept, Apart
<1> QED
  BY <1>1, <1>2, <1>3, <1>5, <1>6, NoVerdict DEF Inv

\* What is replaced is what should rest there, and is saved.
LEMMA InstallHandlerInv ==
  ASSUME Inv, ~HasEnded, NEW t \in Threads,
         InstallHandler(t, "SEGV", "installSegv", "installBus")
           \/ InstallHandler(t, "BUS", "installBus", "arm")
  PROVE  Inv'
<1>1. PICK s \in Signals, from \in InRead, to \in InRead :
        /\ InstallHandler(t, s, from, to)
        /\ <<s, from, to>> \in
             {<<"SEGV", "installSegv", "installBus">>, <<"BUS", "installBus", "arm">>}
  BY DEF InRead, Signals
<1>2. TypeOK'
  BY <1>1 DEF Inv, TypeOK, InstallHandler, Sigaction, Handlers, installing
<1>3. \A r \in Signals : IF Holds(t, r)'
        THEN disposition'[r] = "read" /\ saved'[t][r] = Resting[r]
        ELSE disposition'[r] = Resting[r]
  BY <1>1, ReaderFinds DEF InstallHandler, Go, Sigaction, Holds, Signals, Inv, TypeOK, Apart
<1> QED
  BY <1>1, <1>2, <1>3, ReaderKeeps, ReaderFinds DEF InstallHandler, Go, InRead

\* A failure of the first sigaction leaves nothing to undo, one of the second
\* the handler of SIGSEGV.
LEMMA InstallFailsInv ==
  ASSUME Inv, ~HasEnded, NEW t \in Threads,
         InstallFails(t, "installSegv", "giveUp") \/ InstallFails(t, "installBus", "undo")
  PROVE  Inv'
<1>1. PICK from \in InRead, to \in InRead :
        /\ InstallFails(t, from, to)
        /\ <<from, to>> \in {<<"installSegv", "giveUp">>, <<"installBus", "undo">>}
  BY DEF InRead
<1>2. TypeOK'
  BY <1>1 DEF Inv, TypeOK, InstallFails, installing
<1>3. \A r \in Signals : IF Holds(t, r)'
        THEN disposition'[r] = "read" /\ saved'[t][r] = Resting[r]
        ELSE disposition'[r] = Resting[r]
  BY <1>1, ReaderFinds DEF InstallFails, Go, Holds, Signals, Inv, Apart
<1>4. /\ to \in {"undo", "giveUp"} /\ \A u \in Threads \ {t} : errno'[u] = errno[u]
      /\ Go(t, from, to) /\ UNCHANGED <<installing, blocked, original, ended>>
  BY <1>1 DEF InstallFails, Inv, TypeOK
<1> QED
  BY <1>2, <1>3, <1>4, ReaderKeeps

\* What was saved is what should rest there.
LEMMA UndoInv ==
  ASSUME Inv, ~HasEnded, NEW t \in Threads, Undo(t)
  PROVE  Inv'
<1>1. TypeOK'
  BY DEF Inv, TypeOK, Undo, Sigaction, installing, reading, Signals
<1>2. \A r \in Signals : IF Holds(t, r)'
        THEN disposition'[r] = "read" /\ saved'[t][r] = Resting[r]
        ELSE disposition'[r] = Resting[r]
  BY ReaderFinds DEF Undo, Go, Sigaction, reading, Holds, Signals, Inv, TypeOK, Apart, InRead
<1> QED
  BY <1>1, <1>2, ReaderKeeps DEF Undo, Go, InRead, reading

LEMMA GiveUpInv ==
  ASSUME Inv, ~HasEnded, NEW t \in Threads, GiveUp(t)
  PROVE  Inv'
<1>1. TypeOK'
  BY DEF Inv, TypeOK, GiveUp, installing
<1>2. \A r \in Signals : IF Holds(t, r)'
        THEN disposition'[r] = "read" /\ saved'[t][r] = Resting[r]
        ELSE disposition'[r] = Resting[r]
  BY ReaderFinds DEF GiveUp, Go, Holds, Signals, Inv, Apart, InRead
<1>3. errno'[t] # "lost" /\ \A u \in Threads \ {t} : errno'[u] = errno[u]
  BY DEF GiveUp, Inv, TypeOK
<1> QED
  BY <1>1, <1>2, <1>3, ReaderKeeps DEF GiveUp, Go, InRead

LEMMA ArmInv ==
  ASSUME Inv, ~HasEnded, NEW t \in Threads, Arm(t)
  PROVE  Inv'
<1>1. TypeOK'
  BY DEF Inv, TypeOK, Arm, installing
<1>2. \A r \in Signals : IF Holds(t, r)'
        THEN disposition'[r] = "read" /\ saved'[t][r] = Resting[r]
        ELSE disposition'[r] = Resting[r]
  BY ReaderFinds DEF Arm, Go, Holds, Signals, Inv, Apart, InRead
<1>3. errno[t] # "lost"
  BY ReaderFinds DEF Arm, Go, InRead
<1> QED
  BY <1>1, <1>2, <1>3, ReaderKeeps DEF Arm, Go, InRead

\* The read is over, with a byte or without.
LEMMA ReadEnds ==
  ASSUME Inv, ~HasEnded, TypeOK', NEW t \in Threads, Go(t, "read", "restoreBus"),
         UNCHANGED <<disposition, installing, saved, errno, blocked, original, ended>>
  PROVE  Inv'
<1>1. \A r \in Signals : IF Holds(t, r)'
        THEN disposition'[r] = "read" /\ saved'[t][r] = Resting[r]
        ELSE disposition'[r] = Resting[r]
  BY ReaderFinds DEF Go, Holds, Signals, Inv, Apart, InRead
<1>2. errno[t] # "lost"
  BY ReaderFinds DEF Go, InRead
<1> QED
  BY <1>1, <1>2, ReaderKeeps DEF Go, InRead

LEMMA ReadByteInv ==
  ASSUME Inv, ~HasEnded, NEW t \in Threads, ReadByte(t)
  PROVE  Inv'
<1>1. TypeOK'
  BY DEF Inv, TypeOK, ReadByte, installing
<1> QED
  BY <1>1, ReadEnds DEF ReadByte

LEMMA JumpBackInv ==
  ASSUME Inv, ~HasEnded, NEW t \in Threads, JumpBack(t)
  PROVE  Inv'
<1>1. TypeOK'
  BY DEF Inv, TypeOK, JumpBack, installing
<1>2. UNCHANGED blocked
  BY DEF Inv, JumpsHome, JumpBack
<1> QED
  BY <1>1, <1>2, ReadEnds DEF JumpBack

LEMMA RestoreBusInv ==
  ASSUME Inv, ~HasEnded, NEW t \in Threads, RestoreBus(t)
  PROVE  Inv'
<1>1. TypeOK'
  BY DEF Inv, TypeOK, RestoreBus, Sigaction, installing, reading, Signals
<1>2. \A r \in Signals : IF Holds(t, r)'
        THEN disposition'[r] = "read" /\ saved'[t][r] = Resting[r]
        ELSE disposition'[r] = Resting[r]
  BY ReaderFinds
     DEF RestoreBus, Go, Sigaction, reading, Holds, Signals, Inv, TypeOK, Apart, InRead
<1>3. errno[t] # "lost"
  BY ReaderFinds DEF RestoreBus, Go, InRead
<1> QED
  BY <1>1, <1>2, <1>3, ReaderKeeps DEF RestoreBus, Go, InRead, reading

LEMMA RestoreSegvInv ==
  ASSUME Inv, ~HasEnded, NEW t \in Threads, RestoreSegv(t)
  PROVE  Inv'
<1>1. TypeOK'
  BY DEF Inv, TypeOK, RestoreSegv, Sigaction, installing, Signals
<1>2. \A r \in Signals : IF Holds(t, r)'
        THEN disposition'[r] = "read" /\ saved'[t][r] = Resting[r]
        ELSE disposition'[r] = Resting[r]
  BY ReaderFinds
     DEF RestoreSegv, Go, Sigaction, Holds, Signals, Inv, TypeOK, Apart, InRead
<1> QED
  BY <1>1, <1>2, ReaderKeeps DEF RestoreSegv, Go, InRead, Inv, TypeOK

-----------------------------------------------------------------------------
(* The actions of an installation.                                         *)

\* What an installing thread finds.
LEMMA InstallerFinds ==
  ASSUME Inv, NEW t \in Threads, pc[t] \in InInstall
  PROVE  /\ installed
         /\ \A u \in Threads \ {t} : pc[u] = "idle"
         /\ \A u \in Threads : errno[u] # "lost"
         /\ IF pc[t] \in {"poolSegv", "poolUnset"} THEN disposition = original
            ELSE /\ disposition = [original EXCEPT !["SEGV"] = "pool"]
                 /\ previous["SEGV"] = original["SEGV"]
  BY DEF Inv, Apart, Installing, InInstall, InstallationSwaps, ErrnoKept

\* An installation that has a step to go keeps the invariants if it is where
\* it should be.
LEMMA InstallerKeeps ==
  ASSUME Inv, ~HasEnded, TypeOK', NEW t \in Threads,
         NEW from \in InInstall, NEW to \in InInstall,
         Go(t, from, to), UNCHANGED <<installed, reading, original, ended>>,
         to \in {"poolSegv", "poolUnset"} => disposition' = original,
         to \in {"poolBus", "poolUndo"} =>
           /\ disposition' = [original EXCEPT !["SEGV"] = "pool"]
           /\ previous'["SEGV"] = original["SEGV"]
  PROVE  Inv'
<1>1. /\ Apart'
      /\ pc[t] = from /\ pc'[t] = to
      /\ \A u \in Threads \ {t} : pc[u] = "idle" /\ pc'[u] = "idle"
  BY InstallerAlone DEF Inv, InInstall
<1>2. ReadsBorrow'
  BY <1>1 DEF ReadsBorrow, Installing, InInstall
<1>3. InstallationSwaps'
  BY <1>1 DEF InstallationSwaps
<1>4. JumpsHome' /\ ErrnoKept'
  BY <1>1, InstallerFinds DEF JumpsHome, ErrnoKept, Inv, reading, InInstall
<1> QED
  BY <1>1, <1>2, <1>3, <1>4, NoVerdict DEF Inv

\* And one that is done keeps them if what is in force is what should be.
LEMMA InstallerDone ==
  ASSUME Inv, ~HasEnded, TypeOK', NEW t \in Threads, NEW from \in InInstall,
         Go(t, from, "idle"), UNCHANGED <<reading, original, ended>>,
         disposition' = Resting', installed' => previous' = original
  PROVE  Inv'
<1>1. /\ Apart'
      /\ pc[t] = from /\ pc'[t] = "idle"
      /\ \A u \in Threads : pc'[u] = "idle"
  BY InstallerAlone DEF Inv
<1>2. ReadsBorrow'
  BY <1>1 DEF ReadsBorrow, Holds
<1>3. InstallationSwaps'
  BY <1>1 DEF InstallationSwaps
<1>4. JumpsHome' /\ ErrnoKept'
  BY <1>1, InstallerFinds DEF JumpsHome, ErrnoKept, Inv, reading
<1> QED
  BY <1>1, <1>2, <1>3, <1>4, NoVerdict DEF Inv

\* The flag is free, so the program's handlers are in force.
LEMMA InstallInv ==
  ASSUME ~MayOverlap, Inv, ~HasEnded, NEW t \in Threads, Install(t)
  PROVE  Inv'
<1>1. /\ pc' = [pc EXCEPT ![t] = "poolSegv"] /\ pc[t] = "idle" /\ pc'[t] = "poolSegv"
      /\ \A u \in Threads : pc[u] = "idle"
      /\ ~installed /\ installed' = TRUE
      /\ UNCHANGED <<disposition, previous, reading, original, ended>>
  BY DEF Install, Go, Inv, Apart, Reading, Installing, InRead, InInstall
<1>2. TypeOK'
  BY <1>1 DEF Inv, TypeOK, reading
<1>3. Apart'
  BY <1>1 DEF Inv, Apart, Reading, Installing, InRead, InInstall
<1>4. \A u \in Threads : ~Installing(u) /\ \A s \in Signals : ~Holds(u, s)
  BY <1>1 DEF Installing, Holds
<1>5. disposition = original
  BY <1>1, <1>4 DEF Inv, ReadsBorrow, Resting, TypeOK
<1>6. ReadsBorrow'
  BY <1>1 DEF ReadsBorrow, Installing
<1>7. InstallationSwaps' /\ JumpsHome' /\ ErrnoKept'
  BY <1>1, <1>5 DEF Inv, InstallationSwaps, JumpsHome, ErrnoKept, Apart, reading
<1> QED
  BY <1>1, <1>2, <1>3, <1>6, <1>7, NoVerdict DEF Inv

LEMMA PoolSegvInv ==
  ASSUME Inv, ~HasEnded, NEW t \in Threads, PoolSegv(t)
  PROVE  Inv'
<1>1. TypeOK'
  BY DEF Inv, TypeOK, PoolSegv, PoolHandler, Sigaction, reading, Handlers, Signals
<1>2. /\ disposition' = [original EXCEPT !["SEGV"] = "pool"]
      /\ previous'["SEGV"] = original["SEGV"]
  BY InstallerFinds
     DEF PoolSegv, PoolHandler, Go, Sigaction, InInstall, Inv, TypeOK, Signals
<1> QED
  BY <1>1, <1>2, InstallerKeeps DEF PoolSegv, PoolHandler, InInstall

\* The second sigaction: from now on the pools' handler should rest there.
LEMMA PoolBusInv ==
  ASSUME Inv, ~HasEnded, NEW t \in Threads, PoolBus(t)
  PROVE  Inv'
<1>1. TypeOK'
  BY DEF Inv, TypeOK, PoolBus, PoolHandler, Sigaction, reading, Handlers, Signals
<1>2. /\ installed
      /\ disposition = [original EXCEPT !["SEGV"] = "pool"]
      /\ previous["SEGV"] = original["SEGV"]
  BY InstallerFinds DEF PoolBus, PoolHandler, Go, InInstall
<1>3. disposition' = [s \in Signals |-> "pool"] /\ previous' = original
  BY <1>2 DEF PoolBus, PoolHandler, Sigaction, Inv, TypeOK, Signals
<1> QED
  BY <1>1, <1>2, <1>3, InstallerDone DEF PoolBus, PoolHandler, InInstall, Resting

LEMMA PoolFailsInv ==
  ASSUME Inv, ~HasEnded, NEW t \in Threads, PoolSegvFails(t) \/ PoolBusFails(t)
  PROVE  Inv'
<1>1. TypeOK'
  BY DEF Inv, TypeOK, PoolSegvFails, PoolBusFails, installing, reading
<1>2. CASE PoolSegvFails(t)
  BY <1>1, <1>2, InstallerFinds, InstallerKeeps DEF PoolSegvFails, Go, InInstall, installing
<1>3. CASE PoolBusFails(t)
  BY <1>1, <1>3, InstallerFinds, InstallerKeeps DEF PoolBusFails, Go, InInstall, installing
<1> QED
  BY <1>2, <1>3

LEMMA PoolUndoInv ==
  ASSUME Inv, ~HasEnded, NEW t \in Threads, PoolUndo(t)
  PROVE  Inv'
<1>1. TypeOK'
  BY DEF Inv, TypeOK, PoolUndo, Sigaction, installing, reading, Signals
<1>2. disposition' = original
  BY InstallerFinds DEF PoolUndo, Go, Sigaction, InInstall, Inv, TypeOK, Signals
<1> QED
  BY <1>1, <1>2, InstallerKeeps DEF PoolUndo, InInstall, installing

LEMMA PoolUnsetInv ==
  ASSUME Inv, ~HasEnded, NEW t \in Threads, PoolUnset(t)
  PROVE  Inv'
<1>1. TypeOK'
  BY DEF Inv, TypeOK, PoolUnset, reading
<1>2. disposition = original
  BY InstallerFinds DEF PoolUnset, Go, InInstall
<1> QED
  BY <1>1, <1>2, InstallerDone DEF PoolUnset, InInstall, Resting
-----------------------------------------------------------------------------
(* A fault.                                                                *)

\* Whoever does not read finds every signal in the hands of the pools, with
\* the program's handler behind theirs, or in those of the program; unless
\* another thread reads.
LEMMA InWhoseHands ==
  ASSUME Inv, NEW t \in Threads, pc[t] \notin InRead,
         \A u \in Threads \ {t} : ~Reading(u), NEW s \in Signals
  PROVE  /\ disposition[s] = original[s] \/ (disposition[s] = "pool" /\ previous[s] = original[s])
         /\ IsInstalled => disposition[s] = "pool"
         /\ original[s] \in {"default", "ignore", "program"}
<1>1. \A u \in Threads : ~Holds(u, s)
  BY DEF Reading, Holds, InRead
<1>2. original[s] \in {"default", "ignore", "program"} /\ original \in [Signals -> Originals]
  BY SignalsAssumption DEF Inv, TypeOK
<1>3. CASE \A u \in Threads : ~Installing(u)
  BY <1>1, <1>2, <1>3 DEF Inv, ReadsBorrow, Resting, IsInstalled
<1>4. CASE \E u \in Threads : Installing(u)
  BY <1>2, <1>4
     DEF Inv, InstallationSwaps, Installing, IsInstalled, Signals
<1> QED
  BY <1>2, <1>3, <1>4

\* The pools' handler never passes a fault on to itself.
LEMMA NoRecursion ==
  ASSUME Inv, NEW s \in Signals, disposition[s] = "pool"
  PROVE  previous[s] # "pool"
<1>1. original[s] # "pool"
  BY SignalsAssumption DEF Inv, TypeOK
<1>2. CASE \A u \in Threads : ~Installing(u)
  BY <1>1, <1>2 DEF Inv, ReadsBorrow, Resting
<1>3. CASE \E u \in Threads : Installing(u)
  BY <1>1, <1>3 DEF Inv, InstallationSwaps, Installing, Signals, TypeOK
<1> QED
  BY <1>2, <1>3

\* A fault leads back into the read or ends the process, by the right handler.
LEMMA FaultInv ==
  ASSUME Inv, ~HasEnded, NEW t \in Threads, NEW p \in {"guard", "wild"},
         pc[t] = "idle" \/ pc[t] = "read", Fault(t, p)
  PROVE  Inv'
<1>1. PICK s \in Signals :
        IF Outcome(t, s, p) = "jump" /\ jump = t
        THEN JumpBack(t)
        ELSE /\ ended' = [how |-> Outcome(t, s, p), place |-> p, signal |-> s, thread |-> t]
             /\ UNCHANGED <<disposition, installing, reading, pc, original>>
  BY DEF Fault
<1>2. CASE Outcome(t, s, p) = "jump" /\ jump = t
  BY <1>1, <1>2, JumpBackInv
<1>3. CASE ~(Outcome(t, s, p) = "jump" /\ jump = t)
  <2>1. /\ ended' = [how |-> Outcome(t, s, p), place |-> p, signal |-> s, thread |-> t]
        /\ UNCHANGED <<disposition, installed, previous, active, jump, place, saved,
                       result, errno, blocked, pc, original>>
    BY <1>1, <1>3 DEF installing, reading
  <2>2. s \notin blocked[t]
    BY DEF Inv, JumpsHome
  <2>3. /\ disposition[s] \in Handlers /\ previous[s] \in Handlers
        /\ disposition[s] = "pool" => previous[s] # "pool"
    BY NoRecursion DEF Inv, TypeOK
  <2>4. Outcome(t, s, p) \in {"killed", "exit", "program", "jump", "reported"}
    BY <2>2, <2>3 DEF Outcome, Answering, Handlers
  <2>5. TypeOK'
    BY <2>1, <2>4 DEF Inv, TypeOK
  <2>6. Apart' /\ ReadsBorrow' /\ InstallationSwaps' /\ JumpsHome' /\ ErrnoKept'
    BY <2>1 DEF Inv, Apart, ReadsBorrow, InstallationSwaps, JumpsHome, ErrnoKept, Reading,
                Installing, Holds, Resting
  <2>7. pc[t] # "read"
    <3>1. SUFFICES ASSUME pc[t] = "read" PROVE FALSE
      OBVIOUS
    <3>2. disposition[s] = "read" /\ active /\ jump = t
      BY <3>1, ReaderFinds DEF Inv, JumpsHome, Holds, InRead
    <3> QED
      BY <1>3, <2>2, <3>2 DEF Outcome, Answering
  <2>8. ASSUME ~Interferes' PROVE Verdict'
    <3>1. \A u \in Threads \ {t} : ~Reading(u)
      BY <2>1, <2>8 DEF Interferes, Reading
    <3>2. /\ disposition[s] = original[s] \/ (disposition[s] = "pool" /\ previous[s] = original[s])
          /\ IsInstalled => disposition[s] = "pool"
          /\ original[s] \in {"default", "ignore", "program"}
      BY <2>7, <3>1, InWhoseHands DEF InRead
    <3>3. p = "wild" => (Outcome(t, s, p) = "program" <=> original[s] = "program")
      BY <2>2, <3>2 DEF Outcome, Answering
    <3>4. p = "guard" /\ IsInstalled => Outcome(t, s, p) = "reported"
      BY <2>2, <3>2 DEF Outcome, Answering
    <3>5. IsInstalled' = IsInstalled
      BY <2>1 DEF IsInstalled, Installing
    <3> QED
      BY <2>1, <3>3, <3>4, <3>5 DEF Verdict, StrayFaultsDelegated, GuardHitsReported
  <2>9. Verdict'
    BY <2>8 DEF Verdict, StrayFaultsDelegated, GuardHitsReported
  <2> QED
    BY <2>5, <2>6, <2>9 DEF Inv
<1> QED
  BY <1>2, <1>3

-----------------------------------------------------------------------------
(* The theorems.                                                           *)

LEMMA InitInv == Init => Inv
<1> SUFFICES ASSUME Init PROVE Inv
  OBVIOUS
<1>1. TypeOK
  BY SignalsAssumption DEF Init, TypeOK, Handlers, Places, Running
<1>2. Apart /\ InstallationSwaps /\ JumpsHome /\ ErrnoKept
  BY DEF Init, Apart, InstallationSwaps, JumpsHome, ErrnoKept, Reading, Installing
<1>3. ReadsBorrow
  BY DEF Init, ReadsBorrow, Holds, Resting
<1>4. Verdict
  BY DEF Init, Running, Verdict, StrayFaultsDelegated, GuardHitsReported
<1> QED
  BY <1>1, <1>2, <1>3, <1>4 DEF Inv

LEMMA StutterInv ==
  ASSUME Inv, UNCHANGED vars
  PROVE  Inv'
<1>1. UNCHANGED <<disposition, installed, previous, active, jump, place, saved, result, errno,
                  blocked, pc, original, ended>>
  BY DEF vars, installing, reading
<1>2. TypeOK' /\ Apart' /\ ReadsBorrow'
  BY <1>1 DEF Inv, TypeOK, Apart, ReadsBorrow, Reading, Installing, Holds, Resting
<1>3. InstallationSwaps' /\ JumpsHome' /\ ErrnoKept'
  BY <1>1 DEF Inv, InstallationSwaps, JumpsHome, ErrnoKept
<1>4. Verdict'
  BY <1>1 DEF Inv, Verdict, StrayFaultsDelegated, GuardHitsReported, Interferes, IsInstalled,
              Reading, Installing
<1> QED
  BY <1>2, <1>3, <1>4 DEF Inv

LEMMA NextInv ==
  ASSUME ~MayOverlap, Inv, [Next]_vars
  PROVE  Inv'
<1>1. ASSUME ~HasEnded, NEW t \in Readers, Read(t) \/ ReaderStep(t)
      PROVE  Inv'
  <2>1. t \in Threads
    BY DEF Threads
  <2>2. CASE Read(t)
    BY <1>1, <2>1, <2>2, ReadInv
  <2>3. CASE InstallSegv(t) \/ InstallBus(t)
    BY <1>1, <2>1, <2>3, InstallHandlerInv, InstallFailsInv DEF InstallSegv, InstallBus
  <2>4. CASE Undo(t)
    BY <1>1, <2>1, <2>4, UndoInv
  <2>5. CASE GiveUp(t)
    BY <1>1, <2>1, <2>5, GiveUpInv
  <2>6. CASE Arm(t)
    BY <1>1, <2>1, <2>6, ArmInv
  <2>7. CASE ReadByte(t)
    BY <1>1, <2>1, <2>7, ReadByteInv
  <2>8. CASE ReadFaults(t)
    <3>1. place[t] \in {"guard", "wild"}
      BY <2>1, <2>8 DEF Inv, TypeOK, Places, ReadFaults
    <3> QED
      BY <1>1, <2>1, <2>8, <3>1, FaultInv DEF ReadFaults
  <2>9. CASE RestoreBus(t)
    BY <1>1, <2>1, <2>9, RestoreBusInv
  <2>10. CASE RestoreSegv(t)
    BY <1>1, <2>1, <2>10, RestoreSegvInv
  <2> QED
    BY <1>1, <2>2, <2>3, <2>4, <2>5, <2>6, <2>7, <2>8, <2>9, <2>10 DEF ReaderStep
<1>2. ASSUME ~HasEnded, NEW t \in Installers, Install(t) \/ InstallerStep(t)
      PROVE  Inv'
  <2>1. t \in Threads
    BY DEF Threads
  <2>2. CASE Install(t)
    BY <1>2, <2>1, <2>2, InstallInv
  <2>3. CASE PoolSegv(t)
    BY <1>2, <2>1, <2>3, PoolSegvInv
  <2>4. CASE PoolBus(t)
    BY <1>2, <2>1, <2>4, PoolBusInv
  <2>5. CASE PoolSegvFails(t) \/ PoolBusFails(t)
    BY <1>2, <2>1, <2>5, PoolFailsInv
  <2>6. CASE PoolUndo(t)
    BY <1>2, <2>1, <2>6, PoolUndoInv
  <2>7. CASE PoolUnset(t)
    BY <1>2, <2>1, <2>7, PoolUnsetInv
  <2> QED
    BY <1>2, <2>2, <2>3, <2>4, <2>5, <2>6, <2>7 DEF InstallerStep
<1>3. ASSUME ~HasEnded, NEW t \in Users, Touch(t)
      PROVE  Inv'
  BY <1>3, FaultInv DEF Touch, Threads
<1>4. CASE Ended \/ UNCHANGED vars
  BY <1>4, StutterInv DEF Ended
<1> QED
  BY <1>1, <1>2, <1>3, <1>4 DEF Next

\* What the theorems below follow from.
THEOREM Invariance == Spec => (~MayOverlap => []Inv)
<1>1. CASE ~MayOverlap
  <2>1. Init => Inv
    BY InitInv
  <2>2. Inv /\ [Next]_vars => Inv'
    BY <1>1, NextInv
  <2> QED
    BY <2>1, <2>2, PTL DEF Spec
<1>2. CASE MayOverlap
  BY <1>2
<1> QED
  BY <1>1, <1>2

\* Every variable has its type, and the handler of the pools, which passes on
\* the faults that are not theirs (pool_signal_handler), never calls itself.
THEOREM TypeCorrect == Spec => (~MayOverlap => []TypeOK)
<1>1. Inv => TypeOK
  BY DEF Inv
<1> QED
  BY <1>1, Invariance, PTL

\* Between calls the handlers in force are the program's or, after an
\* installation that has succeeded, the pools'; and errno is the caller's.
THEOREM HandlersPutBack == Spec => (~MayOverlap => []HandlersInForce)
<1>1. Inv => HandlersInForce
  <2>1. SUFFICES ASSUME Inv, Quiet PROVE HandlersInForce
    BY DEF HandlersInForce
  <2>2. \A t \in Threads : ~Installing(t) /\ \A s \in Signals : ~Holds(t, s)
    BY <2>1 DEF Quiet, Installing, Holds
  <2>3. \A s \in Signals : disposition[s] = Resting[s]
    BY <2>1, <2>2 DEF Inv, ReadsBorrow
  <2>4. disposition = IF installed THEN [s \in Signals |-> "pool"] ELSE original
    BY <2>1, <2>3 DEF Inv, TypeOK, Resting
  <2>5. \A t \in Threads : errno[t] = "caller's"
    BY <2>1 DEF Quiet, Inv, TypeOK, ErrnoKept
  <2> QED
    BY <2>4, <2>5 DEF HandlersInForce
<1> QED
  BY <1>1, Invariance, PTL

\* A fault that is no pool's is answered the way the program wanted it
\* answered before the library installed anything.
THEOREM StrayFaultsPassedOn == Spec => (~MayOverlap => []StrayFaultsDelegated)
<1>1. Inv => StrayFaultsDelegated
  BY DEF Inv, Verdict
<1> QED
  BY <1>1, Invariance, PTL

\* Once the pools' handler is installed it reports every hit of a guard,
\* whatever reads came before or after.
THEOREM EveryGuardHitReported == Spec => (~MayOverlap => []GuardHitsReported)
<1>1. Inv => GuardHitsReported
  BY DEF Inv, Verdict
<1> QED
  BY <1>1, Invariance, PTL
=============================================================================
