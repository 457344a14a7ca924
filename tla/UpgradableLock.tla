--------------------------- MODULE UpgradableLock ---------------------------
(***************************************************************************)
(* What WPUSMutex promises to its users (CoinsDB, CoinsDBView,             *)
(* CoinsDBSpan): any number of readers or one writer, and a reader becomes *)
(* the writer without ever giving up its hold, so nobody else can have     *)
(* written between its first read and its write.  Waiting, the             *)
(* pending-writer counter and the condition variable are the business of   *)
(* module WPUSMutex, which is shown to implement this specification.       *)
(***************************************************************************)
CONSTANT Threads

VARIABLES readers, writers

absVars == <<readers, writers>>

AbsInit ==
  /\ readers = {}
  /\ writers = {}

AcquireRead(t) ==
  /\ t \notin readers
  /\ writers = {}
  /\ readers' = readers \union {t}
  /\ UNCHANGED writers

AcquireWrite(t) ==
  /\ readers = {}
  /\ writers = {}
  /\ writers' = {t}
  /\ UNCHANGED readers

Upgrade(t) ==
  /\ readers = {t}
  /\ writers = {}
  /\ readers' = {}
  /\ writers' = {t}

Downgrade(t) ==
  /\ writers = {t}
  /\ readers = {}
  /\ readers' = {t}
  /\ writers' = {}

Release(t) ==
  /\ t \in readers \union writers
  /\ readers' = readers \ {t}
  /\ writers' = writers \ {t}

AbsNext ==
  \E t \in Threads :
    AcquireRead(t) \/ AcquireWrite(t) \/ Upgrade(t) \/ Downgrade(t) \/ Release(t)

AbsSpec == AbsInit /\ [][AbsNext]_absVars
=============================================================================
