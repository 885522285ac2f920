-------------------------- MODULE ProcessLock_proofs --------------------------
(***************************************************************************)
(* The exclusion of ProcessLock, for any set of processes: when starts do  *)
(* not overlap, no two running processes own the lock as long as nobody    *)
(* else deletes the file, however they die, release and start again.       *)
(***************************************************************************)
EXTENDS ProcessLock, TLAPS

(* What the theorem supposes of the host that starts the processes.        *)
Sequential == ~Overlap

LockInv == TypeOK /\ ExclusionInv

(* Nobody owns a lock, and nobody is in acquire, when the program is first *)
(* started: LockInv holds initially.                                       *)
LEMMA LockInvInit == Init => LockInv
  BY LockAssumption
     DEF Init, LockInv, TypeOK, ExclusionInv, Owns, Clear, isProcessAlive,
         LockPC, Acquiring, Gone

(* The file names its owner, so there is one at most: LockInv gives        *)
(* Exclusion.                                                              *)
LEMMA LockInvExcludes == LockInv => Exclusion
  BY DEF LockInv, ExclusionInv, Exclusion

-----------------------------------------------------------------------------
(* Every call of every process, its death and a stutter preserve LockInv:  *)
(* between the read of the file and the step that relies on it no other    *)
(* process takes the lock, since only p is in acquire; it may only be      *)
(* given up meanwhile.                                                     *)
LEMMA LockInvStep ==
    ASSUME Sequential, LockInv, [Next]_vars
    PROVE  LockInv'
<1> USE LockAssumption
    DEF LockInv, TypeOK, ExclusionInv, Owns, Clear, isProcessAlive,
        LockPC, Acquiring, Gone, Goto
\* Nobody else is in acquire, and what p read before does not count.
<1>1. ASSUME NEW p \in Procs, Start(p) PROVE LockInv'
  BY <1>1 DEF Start, Sequential
\* The file names the owner, so what p reads is the owner.
<1>2. ASSUME NEW p \in Procs, ReadStale(p) PROVE LockInv'
  BY <1>2 DEF ReadStale, ReadsTo
\* A process that is dead owns nothing: the file p found is in nobody's name.
<1>3. ASSUME NEW p \in Procs, ProbeStale(p) PROVE LockInv'
  BY <1>3 DEF ProbeStale
<1>4. ASSUME NEW p \in Procs, RemoveStale(p) PROVE LockInv'
  BY <1>4 DEF RemoveStale, Removes
\* No file, no owner.
<1>5. ASSUME NEW p \in Procs, Create(p) PROVE LockInv'
  BY <1>5 DEF Create
<1>6. ASSUME NEW p \in Procs, Reread(p) PROVE LockInv'
  BY <1>6 DEF Reread, ReadsTo
\* p itself does not own the lock it is about to acquire.
<1>7. ASSUME NEW p \in Procs, Reprobe(p) PROVE LockInv'
  BY <1>7 DEF Reprobe
<1>8. ASSUME NEW p \in Procs, Truncate(p) PROVE LockInv'
  BY <1>8 DEF Truncate
\* p is the only process that has the file open, and nobody owns it yet.
<1>9. ASSUME NEW p \in Procs, Write(p) PROVE LockInv'
  BY <1>9 DEF Write
\* The owner gives up the lock in the step that removes the file.
<1>10. ASSUME NEW p \in Procs, ReleaseRemoves(p) PROVE LockInv'
  BY <1>10 DEF ReleaseRemoves, Removes
\* Not enabled: the file of an owner names it.
<1>11. ASSUME NEW p \in Procs, Ensure(p) PROVE LockInv'
  BY <1>11 DEF Ensure
<1>12. ASSUME NEW p \in Procs, Release(p) PROVE LockInv'
  <2>1. TypeOK'
    <3> HIDE DEF ExclusionInv, Owns, isProcessAlive, Clear
    <3> QED BY <1>12 DEF Release
  <2>2. CASE pc'[p] = "releasing"
    BY <1>12, <2>1, <2>2 DEF Release
  <2>3. CASE pc' = pc /\ acquired' = [acquired EXCEPT ![p] = FALSE]
    BY <1>12, <2>1, <2>3 DEF Release
  <2> QED BY <1>12, <2>2, <2>3 DEF Release
\* A file left behind names a process that owns nothing any more.
<1>13. ASSUME NEW p \in Procs, Dies(p) PROVE LockInv'
  BY <1>13 DEF Dies
\* From here on nothing is claimed.
<1>14. CASE Vanish
  BY <1>14 DEF Vanish
<1>15. CASE UNCHANGED vars
  BY <1>15 DEF vars
<1> QED
  <2> HIDE DEF LockInv
  <2> QED BY <1>1, <1>2, <1>3, <1>4, <1>5, <1>6, <1>7, <1>8, <1>9, <1>10, <1>11, <1>12, <1>13, <1>14, <1>15 DEF Next, Step

-----------------------------------------------------------------------------
(* Type correctness and the strengthened exclusion hold in every reachable *)
(* state of a sequential start order.                                      *)
THEOREM LockStaysSound == Sequential => (Spec => [](TypeOK /\ ExclusionInv))
<1>1. Sequential /\ LockInv /\ [Next]_vars => LockInv'
  BY LockInvStep
<1>2. LockInv => TypeOK /\ ExclusionInv
  BY DEF LockInv
<1>3. Sequential' <=> Sequential
  BY DEF Sequential
<1> QED BY <1>1, <1>2, <1>3, LockInvInit, PTL DEF Spec

(* At most one running process owns the lock, for any set of processes:    *)
(* ProcessLockService keeps its promise when the starts do not overlap.    *)
THEOREM LockExcludes == Sequential => (Spec => []Exclusion)
<1>1. LockInv <=> TypeOK /\ ExclusionInv
  BY DEF LockInv
<1> QED BY <1>1, LockStaysSound, LockInvExcludes, PTL
===============================================================================
