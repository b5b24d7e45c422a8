\* Two threads that read and install; one of them touches memory, too.
SPECIFICATION FairSpec
CONSTANTS
  Readers = {t1, t2}
  Installers = {t1, t2}
  Users = {t2}
  NoThread = NoThread
  Originals = {"default", "ignore", "program"}
  MayOverlap = FALSE
INVARIANTS TypeOK HandlersInForce StrayFaultsDelegated GuardHitsReported
PROPERTIES ReadReturns
