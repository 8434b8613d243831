----------------------------- MODULE ZkShProofs -----------------------------
(***************************************************************************)
(* For any number of invocations and any faults, zksh keeps its lock       *)
(* exclusive and implements the readers-writer lock of RWLock; unless fork *)
(* fails, its success means that the script has succeeded.                 *)
(***************************************************************************)
EXTENDS ZkSh, FiniteSetTheorems, TLAPS

ReadLabels  == {"r_wlock", "r_rlock", "r_release"}
WriteLabels == {"w_wlock", "w_readers", "w_sleep", "w_giveup"}

\* What the label of an invocation says about its other variables.
Located ==
  \A p \in Procs :
    /\ pc[p] \in {"idle", "lock_zk"} => session[p] = "none"
    /\ pc[p] \in {"lock_zk", "fork", "wait"} => m_lock[p] # -1
    /\ script[p] = "running" => m_lock[p] # -1
    /\ pc[p] \notin {"wait", "unlock", "exited"} => script[p] = "none"
    /\ script[p] = "running" => pc[p] \in {"wait", "exited"}
    /\ pc[p] \in ReadLabels => m_lock[p] = TYPE_READ_LOCK
    /\ pc[p] \in WriteLabels => m_lock[p] = TYPE_WRITE_LOCK

\* While its session lasts, an invocation holds what its label relies on.
HoldsWhatItNeeds ==
  \A p \in Procs :
    session[p] = "open" =>
      /\ pc[p] \in {"r_rlock", "r_release", "w_readers", "w_sleep", "w_giveup"} =>
           p \in holders[ZKSH_WRITE_LOCK]
      /\ pc[p] = "r_release" /\ ret[p] = 0 => p \in holders[ZKSH_READ_LOCK]
      /\ Granted(p) /\ m_lock[p] = TYPE_READ_LOCK => p \in holders[ZKSH_READ_LOCK]
      /\ Granted(p) /\ m_lock[p] = TYPE_WRITE_LOCK => p \in holders[ZKSH_WRITE_LOCK]

\* Only open sessions hold anything.
HeldBySessions ==
  \A s \in Semaphores : \A p \in holders[s] : session[p] = "open"

\* WRITE admits one holder, and a granted writer is alone.
OneWriteHolder == \A p, q \in holders[ZKSH_WRITE_LOCK] : p = q

WriterAlone ==
  \A p \in Procs :
    Granted(p) /\ m_lock[p] = TYPE_WRITE_LOCK => holders[ZKSH_READ_LOCK] = {}

\* A reader that is past read_lock_zk no longer holds WRITE.
WriteGivenBack ==
  \A p \in holders[ZKSH_WRITE_LOCK] :
    m_lock[p] = TYPE_READ_LOCK =>
      pc[p] \in {"r_rlock", "r_release", "exited"} /\ script[p] = "none"

\* `ret` is 0 until the second call of read_lock_zk.
FreshRet ==
  \A p \in Procs : pc[p] \in {"idle", "lock_zk", "r_wlock", "r_rlock"} => ret[p] = 0

IInv ==
  /\ TypeOK /\ Located /\ FreshRet /\ WriteGivenBack
  /\ HoldsWhatItNeeds /\ HeldBySessions /\ OneWriteHolder /\ WriterAlone
-----------------------------------------------------------------------------
\* It holds before anything has been invoked.
LEMMA InitIInv == Init => IInv
  BY DEF Init, IInv, TypeOK, Labels, Located, FreshRet, WriteGivenBack, HoldsWhatItNeeds, HeldBySessions,
         OneWriteHolder, WriterAlone, Granted, ReadLabels, WriteLabels,
         Semaphores, ZKSH_READ_LOCK, ZKSH_WRITE_LOCK, TYPE_NO_LOCK, TYPE_READ_LOCK, TYPE_WRITE_LOCK

\* A semaphore with one place that is acquired had no holder.
LEMMA AcquiredAlone ==
  ASSUME TypeOK, NEW p \in Procs, Acquire(p, ZKSH_WRITE_LOCK)
  PROVE  holders[ZKSH_WRITE_LOCK] = {}
  <1>1. holders[ZKSH_WRITE_LOCK] \subseteq Procs
    BY DEF TypeOK, Semaphores
  <1>2. IsFiniteSet(holders[ZKSH_WRITE_LOCK])
    BY <1>1, ProcsAssumption, FS_Subset
  <1>3. Cardinality(holders[ZKSH_WRITE_LOCK]) \in Nat
    BY <1>2, FS_CardinalityType
  <1>4. Cardinality(holders[ZKSH_WRITE_LOCK]) < 1
    BY ResourceAssumption DEF Acquire
  <1>. QED
    BY <1>2, <1>3, <1>4, FS_EmptySet

\* Every step keeps it.
LEMMA NextIInv == IInv /\ [Next]_vars => IInv'
  <1> SUFFICES ASSUME IInv, [Next]_vars
               PROVE  IInv'
    OBVIOUS
  <1> USE ProcsAssumption DEF IInv, TypeOK, Labels, Located, FreshRet, WriteGivenBack, HoldsWhatItNeeds,
          HeldBySessions, OneWriteHolder, WriterAlone, Granted, ReadLabels, WriteLabels,
          Semaphores, ZKSH_READ_LOCK, ZKSH_WRITE_LOCK,
          TYPE_NO_LOCK, TYPE_READ_LOCK, TYPE_WRITE_LOCK, Goto, Exit
  <1>1. ASSUME NEW p \in Procs, Start(p) PROVE IInv'
    BY <1>1 DEF Start
  <1>2. ASSUME NEW p \in Procs, lock_zk(p) PROVE IInv'
    BY <1>2 DEF lock_zk
  <1>3. ASSUME NEW p \in Procs, r_acquire_wlock(p) PROVE IInv'
    BY <1>3, AcquiredAlone DEF r_acquire_wlock, Acquire
  <1>4. ASSUME NEW p \in Procs, r_acquire_rlock(p) PROVE IInv'
    BY <1>4 DEF r_acquire_rlock, Acquire, CallMayFail
  <1>5. ASSUME NEW p \in Procs, r_release_wlock(p) PROVE IInv'
    BY <1>5 DEF r_release_wlock, Release
  <1>6. ASSUME NEW p \in Procs, w_acquire_wlock(p) PROVE IInv'
    BY <1>6, AcquiredAlone DEF w_acquire_wlock, Acquire
  <1>7. ASSUME NEW p \in Procs, w_poll_readers(p) PROVE IInv'
    BY <1>7 DEF w_poll_readers
  <1>8. ASSUME NEW p \in Procs, w_sleep(p) PROVE IInv'
    BY <1>8 DEF w_sleep
  <1>9. ASSUME NEW p \in Procs, w_give_up(p) PROVE IInv'
    BY <1>9 DEF w_give_up, Release
  <1>10. ASSUME NEW p \in Procs, fork(p) PROVE IInv'
    BY <1>10 DEF fork
  <1>11. ASSUME NEW p \in Procs, ScriptEnds(p) PROVE IInv'
    BY <1>11 DEF ScriptEnds
  <1>12. ASSUME NEW p \in Procs, waitpid(p) PROVE IInv'
    BY <1>12 DEF waitpid
  <1>13. ASSUME NEW p \in Procs, unlock_zk(p) PROVE IInv'
    BY <1>13 DEF unlock_zk, Release, Held
  <1>14. ASSUME NEW p \in Procs, Kill(p) PROVE IInv'
    BY <1>14 DEF Kill
  <1>15. ASSUME NEW p \in Procs, SessionEnds(p) PROVE IInv'
    BY <1>15 DEF SessionEnds
  <1>16. ASSUME NEW p \in Procs, Again(p) PROVE IInv'
    BY <1>16 DEF Again
  <1>17. CASE UNCHANGED vars
    BY <1>17 DEF vars
  <1>. QED
    BY <1>1, <1>2, <1>3, <1>4, <1>5, <1>6, <1>7, <1>8, <1>9, <1>10, <1>11, <1>12,
       <1>13, <1>14, <1>15, <1>16, <1>17 DEF Next, Step

\* So it holds throughout.
LEMMA Invariance == Spec => []IInv
  BY InitIInv, NextIInv, PTL DEF Spec
-----------------------------------------------------------------------------
(***************************************************************************)
(* What follows from the invariant.                                        *)
(***************************************************************************)
\* Every variable keeps its type.
THEOREM TypeCorrect == Spec => []TypeOK
  <1>1. IInv => TypeOK
    BY DEF IInv
  <1>. QED
    BY <1>1, Invariance, PTL

\* Two scripts run under locks at the same time only if both locks are read
\* locks, whatever fails, dies or expires.
THEOREM WriteExclusionHolds == Spec => []WriteExclusion
  <1>1. ASSUME IInv, NEW p \in Procs, NEW q \in Procs, p # q,
               UnderLock(p), UnderLock(q), m_lock[p] = TYPE_WRITE_LOCK
        PROVE  FALSE
    <2> USE DEF IInv, TypeOK
    <2>1. Granted(p) /\ Granted(q)
      BY <1>1 DEF UnderLock, Granted
    <2>2. m_lock[q] \in {TYPE_READ_LOCK, TYPE_WRITE_LOCK}
      BY <1>1 DEF UnderLock, Located
    <2>3. p \in holders[ZKSH_WRITE_LOCK] /\ holders[ZKSH_READ_LOCK] = {}
      BY <1>1, <2>1 DEF HoldsWhatItNeeds, WriterAlone, UnderLock
    <2>4. CASE m_lock[q] = TYPE_READ_LOCK
      BY <1>1, <2>1, <2>3, <2>4 DEF HoldsWhatItNeeds, UnderLock
    <2>5. CASE m_lock[q] = TYPE_WRITE_LOCK
      BY <1>1, <2>1, <2>3, <2>5 DEF HoldsWhatItNeeds, OneWriteHolder, UnderLock
    <2>. QED
      BY <2>2, <2>4, <2>5
  <1>2. ASSUME IInv, NEW p \in Procs, UnderLock(p), m_lock[p] # TYPE_WRITE_LOCK
        PROVE  m_lock[p] = TYPE_READ_LOCK
    BY <1>2 DEF UnderLock, IInv, TypeOK, Located, TYPE_NO_LOCK
  <1>3. IInv => WriteExclusion
    BY <1>1, <1>2 DEF WriteExclusion
  <1>. QED
    BY <1>3, Invariance, PTL

\* A writer that waits for the readers to go is not joined by another one.
THEOREM NoBargingHolds == Spec => NoBarging
  <1> DEFINE Quiet ==
        \A p \in Procs :
          pc[p] \in {"w_readers", "w_sleep"} /\ session[p] = "open" =>
            holders'[ZKSH_READ_LOCK] \subseteq holders[ZKSH_READ_LOCK]
  <1>1. IInv /\ [Next]_vars => [Quiet]_vars
    <2> SUFFICES ASSUME IInv, [Next]_vars,
                        NEW p \in Procs, pc[p] \in {"w_readers", "w_sleep"},
                        session[p] = "open"
                 PROVE  holders'[ZKSH_READ_LOCK] \subseteq holders[ZKSH_READ_LOCK]
      OBVIOUS
    <2> USE DEF IInv, TypeOK, Semaphores, ZKSH_READ_LOCK, ZKSH_WRITE_LOCK
    <2>1. p \in holders[ZKSH_WRITE_LOCK]
      BY DEF HoldsWhatItNeeds
    <2>2. ASSUME NEW q \in Procs, r_acquire_rlock(q)
          PROVE  holders'[ZKSH_READ_LOCK] \subseteq holders[ZKSH_READ_LOCK]
      <3>1. CASE session[q] = "open"
        <4>1. q \in holders[ZKSH_WRITE_LOCK]
          BY <2>2, <3>1 DEF HoldsWhatItNeeds, r_acquire_rlock
        <4>. QED
          BY <2>1, <2>2, <4>1 DEF OneWriteHolder, r_acquire_rlock
      <3>2. CASE session[q] # "open"
        BY <2>2, <3>2 DEF r_acquire_rlock, Acquire
      <3>. QED
        BY <3>1, <3>2
    <2>3. ASSUME NEW q \in Procs,
                 \/ Start(q) \/ lock_zk(q) \/ r_acquire_wlock(q) \/ r_release_wlock(q)
                 \/ w_acquire_wlock(q) \/ w_poll_readers(q) \/ w_sleep(q) \/ w_give_up(q)
                 \/ fork(q) \/ ScriptEnds(q) \/ waitpid(q) \/ unlock_zk(q) \/ Kill(q)
                 \/ SessionEnds(q) \/ Again(q)
          PROVE  holders'[ZKSH_READ_LOCK] \subseteq holders[ZKSH_READ_LOCK]
      BY <2>3 DEF Start, lock_zk, r_acquire_wlock, r_release_wlock, w_acquire_wlock,
                  w_poll_readers, w_sleep, w_give_up, fork, ScriptEnds, waitpid,
                  unlock_zk, Kill, SessionEnds, Again, Acquire, Release, Held
    <2>4. CASE UNCHANGED vars
      BY <2>4 DEF vars
    <2>. QED
      BY <2>2, <2>3, <2>4 DEF Next, Step
  <1>. QED
    BY <1>1, Invariance, PTL DEF Spec, NoBarging

\* A script that runs under the read lock does not keep other readers out.
THEOREM ReadersShareHolds == Spec => []ReadersShare
  <1>1. IInv => ReadersShare
    BY DEF IInv, WriteGivenBack, ReadersShare
  <1>. QED
    BY <1>1, Invariance, PTL
-----------------------------------------------------------------------------
(***************************************************************************)
(* The refinement of RWLock.                                               *)
(***************************************************************************)
GrantedReaders == {p \in Procs : Granted(p) /\ m_lock[p] = TYPE_READ_LOCK}
GrantedWriters == {p \in Procs : Granted(p) /\ m_lock[p] = TYPE_WRITE_LOCK}

\* A reader enters when it gives WRITE back: no writer can be inside.
LEMMA ReaderEnters ==
  ASSUME IInv, NEW p \in Procs, r_release_wlock(p)
  PROVE  RW!EnterRead(p) \/ UNCHANGED <<GrantedReaders, GrantedWriters>>
  <1> USE DEF IInv, TypeOK, r_release_wlock, Goto, Exit, Located, ReadLabels,
          TYPE_READ_LOCK, TYPE_WRITE_LOCK, ZKSH_READ_LOCK, ZKSH_WRITE_LOCK
  <1>1. \A q \in Procs : q # p => (Granted(q) <=> Granted(q)')
    BY DEF Granted
  <1>2. ~Granted(p) /\ m_lock[p] = TYPE_READ_LOCK /\ m_lock' = m_lock
    BY DEF Granted
  <1>3. GrantedWriters' = GrantedWriters
    BY <1>1, <1>2 DEF GrantedWriters
  <1>4. CASE pc'[p] = "fork"
    <2>0. session[p] = "open" /\ ret[p] = 0
      BY <1>4 DEF Release
    <2>1. p \in holders[ZKSH_WRITE_LOCK]
      BY <2>0 DEF HoldsWhatItNeeds
    <2>2. GrantedWriters = {}
      BY <1>2, <2>1 DEF GrantedWriters, HoldsWhatItNeeds, OneWriteHolder, Granted
    <2>3. Granted(p)'
      BY <1>4, <2>0 DEF Granted
    <2>4. GrantedReaders' = GrantedReaders \cup {p}
      BY <1>1, <1>2, <2>3 DEF GrantedReaders
    <2>. QED
      BY <1>3, <2>2, <2>4 DEF RW!EnterRead, GrantedReaders, GrantedWriters
  <1>5. CASE pc'[p] # "fork"
    <2>1. ~Granted(p)'
      BY <1>5 DEF Granted
    <2>2. GrantedReaders' = GrantedReaders
      BY <1>1, <1>2, <2>1 DEF GrantedReaders
    <2>. QED
      BY <1>3, <2>2
  <1>. QED
    BY <1>4, <1>5

\* A writer enters when its poll finds no reader: it holds WRITE, so no other
\* writer is inside either.
LEMMA WriterEnters ==
  ASSUME IInv, NEW p \in Procs, w_poll_readers(p)
  PROVE  RW!EnterWrite(p) \/ UNCHANGED <<GrantedReaders, GrantedWriters>>
  <1> USE DEF IInv, TypeOK, w_poll_readers, Goto, Located, WriteLabels,
          TYPE_READ_LOCK, TYPE_WRITE_LOCK, ZKSH_READ_LOCK, ZKSH_WRITE_LOCK
  <1>1. \A q \in Procs : q # p => (Granted(q) <=> Granted(q)')
    BY DEF Granted
  <1>2. ~Granted(p) /\ m_lock[p] = TYPE_WRITE_LOCK /\ m_lock' = m_lock
    BY DEF Granted
  <1>3. GrantedReaders' = GrantedReaders
    BY <1>1, <1>2 DEF GrantedReaders
  <1>4. CASE session[p] = "open" /\ holders[ZKSH_READ_LOCK] = {} /\ pc'[p] = "fork"
    <2>1. p \in holders[ZKSH_WRITE_LOCK]
      BY <1>4 DEF HoldsWhatItNeeds
    <2>2. GrantedWriters = {} /\ GrantedReaders = {}
      BY <1>2, <1>4, <2>1
         DEF GrantedWriters, GrantedReaders, HoldsWhatItNeeds, OneWriteHolder, Granted
    <2>3. Granted(p)'
      BY <1>4 DEF Granted
    <2>4. GrantedWriters' = {p}
      BY <1>1, <1>2, <2>2, <2>3 DEF GrantedWriters
    <2>. QED
      BY <1>3, <2>2, <2>4 DEF RW!EnterWrite, GrantedReaders, GrantedWriters
  <1>5. CASE ~(session[p] = "open" /\ holders[ZKSH_READ_LOCK] = {} /\ pc'[p] = "fork")
    <2>1. ~Granted(p)'
      BY <1>5 DEF Granted
    <2>2. GrantedWriters' = GrantedWriters
      BY <1>1, <1>2, <2>1 DEF GrantedWriters
    <2>. QED
      BY <1>3, <2>2
  <1>. QED
    BY <1>4, <1>5

\* Whoever else moves either keeps what it was granted or loses it.
LEMMA OthersLeave ==
  ASSUME IInv, NEW p \in Procs,
         m_lock' = m_lock \/ (~Granted(p) /\ ~Granted(p)'),
         \A q \in Procs : q # p => m_lock'[q] = m_lock[q],
         \A q \in Procs : q # p => (Granted(q) <=> Granted(q)'),
         Granted(p)' => Granted(p)
  PROVE  RW!Leave(p) \/ UNCHANGED <<GrantedReaders, GrantedWriters>>
  <1>1. CASE Granted(p) /\ ~Granted(p)' /\ m_lock[p] \in {TYPE_READ_LOCK, TYPE_WRITE_LOCK}
    <2>1. /\ GrantedReaders' = GrantedReaders \ {p}
          /\ GrantedWriters' = GrantedWriters \ {p}
          /\ p \in GrantedReaders \cup GrantedWriters
      BY <1>1 DEF GrantedReaders, GrantedWriters
    <2>. QED
      BY <2>1 DEF RW!Leave, GrantedReaders, GrantedWriters
  <1>2. CASE ~(Granted(p) /\ ~Granted(p)' /\ m_lock[p] \in {TYPE_READ_LOCK, TYPE_WRITE_LOCK})
    BY <1>2 DEF GrantedReaders, GrantedWriters
  <1>. QED
    BY <1>1, <1>2

\* Every step of zksh is a step of RWLock, or none.
LEMMA StepRefines ==
  IInv /\ [Next]_vars => [RW!Next]_<<GrantedReaders, GrantedWriters>>
  <1> SUFFICES ASSUME IInv, [Next]_vars
               PROVE  RW!Next \/ UNCHANGED <<GrantedReaders, GrantedWriters>>
    OBVIOUS
  <1>1. ASSUME NEW p \in Procs, r_release_wlock(p)
        PROVE  RW!Next \/ UNCHANGED <<GrantedReaders, GrantedWriters>>
    BY <1>1, ReaderEnters DEF RW!Next
  <1>2. ASSUME NEW p \in Procs, w_poll_readers(p)
        PROVE  RW!Next \/ UNCHANGED <<GrantedReaders, GrantedWriters>>
    BY <1>2, WriterEnters DEF RW!Next
  <1>3. ASSUME NEW p \in Procs,
               \/ lock_zk(p) \/ r_acquire_wlock(p) \/ r_acquire_rlock(p)
               \/ w_acquire_wlock(p) \/ w_sleep(p) \/ w_give_up(p)
               \/ fork(p) \/ ScriptEnds(p) \/ waitpid(p) \/ unlock_zk(p)
               \/ Kill(p) \/ SessionEnds(p)
        PROVE  RW!Leave(p) \/ UNCHANGED <<GrantedReaders, GrantedWriters>>
    <2> USE DEF IInv, TypeOK, Located, ReadLabels, WriteLabels, Goto, Exit, lock_zk,
            r_acquire_wlock, r_acquire_rlock, w_acquire_wlock, w_sleep, w_give_up,
            fork, ScriptEnds, waitpid, unlock_zk, Kill, SessionEnds
    <2>1. m_lock' = m_lock
      BY <1>3
    <2>2. \A q \in Procs : q # p => (Granted(q) <=> Granted(q)')
      BY <1>3 DEF Granted
    <2>3. ASSUME Granted(p)' PROVE Granted(p)
      <3>1. CASE lock_zk(p)
        BY <2>3, <3>1, m_lock[p] # -1 DEF Granted, TYPE_NO_LOCK, TYPE_READ_LOCK
      <3>2. CASE ~lock_zk(p)
        BY <1>3, <2>3, <3>2 DEF Granted
      <3>. QED
        BY <3>1, <3>2
    <2>. QED
      BY <2>1, <2>2, <2>3, OthersLeave
  <1>4. ASSUME NEW p \in Procs, Start(p) \/ Again(p)
        PROVE  UNCHANGED <<GrantedReaders, GrantedWriters>>
    <2> USE DEF IInv, TypeOK, Located, Goto, Exit, Start, Again
    <2>1. ~Granted(p) /\ ~Granted(p)'
      BY <1>4 DEF Granted
    <2>2. \A q \in Procs : q # p => m_lock'[q] = m_lock[q] /\ (Granted(q) <=> Granted(q)')
      BY <1>4 DEF Granted
    <2>. QED
      BY <2>1, <2>2 DEF GrantedReaders, GrantedWriters
  <1>5. CASE UNCHANGED vars
    BY <1>5 DEF vars, GrantedReaders, GrantedWriters, Granted
  <1>. QED
    BY <1>1, <1>2, <1>3, <1>4, <1>5 DEF Next, Step, RW!Next

\* The two semaphores implement the readers-writer lock: whatever fails, every
\* step of a zksh grants a lock nobody else excludes, gives one up, or changes
\* nothing its users could see.
THEOREM RefinesRWLock == Spec => ImplementsRWLock
  <1>1. Init => RW!Init
    BY DEF Init, RW!Init, Granted
  <1>2. IInv /\ [Next]_vars => [RW!Next]_(RW!rwVars)
    BY StepRefines DEF RW!rwVars, GrantedReaders, GrantedWriters
  <1>. QED
    BY <1>1, <1>2, Invariance, PTL DEF Spec, ImplementsRWLock, RW!Spec

\* What it is worth: the abstract lock excludes.
LEMMA RWLockExcludes == RW!Spec => []RW!Exclusion
  <1>1. RW!Init => RW!Exclusion
    BY DEF RW!Init, RW!Exclusion
  <1>2. RW!Exclusion /\ [RW!Next]_(RW!rwVars) => RW!Exclusion'
    BY DEF RW!Exclusion, RW!Next, RW!EnterRead, RW!EnterWrite, RW!Leave, RW!rwVars
  <1>. QED
    BY <1>1, <1>2, PTL DEF RW!Spec
-----------------------------------------------------------------------------
(***************************************************************************)
(* The exit status.  If fork never fails, the `status` that main looks at  *)
(* is that of the script.                                                  *)
(***************************************************************************)
\* From waitpid on, the status of a success is the script's.
StatusInv ==
  \A p \in Procs :
    /\ pc[p] = "unlock" => (status[p] = "ok" => script[p] = "ok")
    /\ pc[p] = "exited" /\ exit[p] = "success" /\ session[p] # "none" => script[p] = "ok"

\* Every step keeps it, as long as fork does not fail.
LEMMA StatusKept ==
  ASSUME "fork" \notin Faults, IInv, StatusInv, [Next]_vars
  PROVE  StatusInv'
  <1> USE DEF IInv, TypeOK, Located, StatusInv, Goto, Exit
  <1>1. ASSUME NEW p \in Procs, Start(p) \/ lock_zk(p) PROVE StatusInv'
    BY <1>1 DEF Start, lock_zk
  <1>2. ASSUME NEW p \in Procs,
               \/ r_acquire_wlock(p) \/ r_acquire_rlock(p) \/ r_release_wlock(p)
               \/ w_acquire_wlock(p) \/ w_poll_readers(p) \/ w_sleep(p) \/ w_give_up(p)
        PROVE  StatusInv'
    BY <1>2 DEF r_acquire_wlock, r_acquire_rlock, r_release_wlock, w_acquire_wlock,
                w_poll_readers, w_sleep, w_give_up
  <1>3. ASSUME NEW p \in Procs, fork(p) PROVE StatusInv'
    BY <1>3 DEF fork
  <1>4. ASSUME NEW p \in Procs, ScriptEnds(p) PROVE StatusInv'
    BY <1>4 DEF ScriptEnds
  <1>5. ASSUME NEW p \in Procs, waitpid(p) PROVE StatusInv'
    BY <1>5 DEF waitpid
  <1>6. ASSUME NEW p \in Procs, unlock_zk(p) PROVE StatusInv'
    BY <1>6 DEF unlock_zk
  <1>7. ASSUME NEW p \in Procs, Kill(p) \/ SessionEnds(p) \/ Again(p) PROVE StatusInv'
    BY <1>7 DEF Kill, SessionEnds, Again
  <1>8. CASE UNCHANGED vars
    BY <1>8 DEF vars
  <1>. QED
    BY <1>1, <1>2, <1>3, <1>4, <1>5, <1>6, <1>7, <1>8 DEF Next, Step

\* Unless fork fails, zksh tells its caller that a command under a lock has
\* succeeded only if the script has run to a successful end: a lock that is not
\* granted, a lost session or a script that could not start is never taken for a
\* success.  (With a failing fork it is: zksh.cpp:411-438.)
THEOREM SuccessIsEarnedHolds ==
  ASSUME "fork" \notin Faults
  PROVE  Spec => []SuccessIsEarned
  <1>1. Init => StatusInv
    BY DEF Init, StatusInv
  <1>2. IInv /\ StatusInv /\ [Next]_vars => StatusInv'
    BY StatusKept
  <1>3. StatusInv => SuccessIsEarned
    BY DEF StatusInv, SuccessIsEarned
  <1>. QED
    BY <1>1, <1>2, <1>3, Invariance, PTL DEF Spec
=============================================================================
