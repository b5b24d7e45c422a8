\* One thread installs the handler of the pools while another reads.
SPECIFICATION Spec
CONSTANTS
  Readers = {t1}
  Installers = {t2}
  Users = {t2}
  NoThread = NoThread
  Originals = {"default"}
  MayOverlap = TRUE
INVARIANTS GuardHitsReported
