-------------------------- MODULE PhaseLockProofs --------------------------
(***************************************************************************)
(* Proofs about PhaseLock for any set of processes: its types, exclusion   *)
(* while Quiet, and that it implements PhaseMutex.                         *)
(***************************************************************************)
EXTENDS PhaseLock, TLAPS

\* While Quiet at most one process is between path.exists() and the end of
\* write_text, ...
OneAcquirer ==
    \A p, q \in Proc : p \in Acquiring /\ q \in Acquiring => p = q

\* ... nobody is in the phase once that process decided to write, ...
WriterIsAlone ==
    \A p, q \in Proc : pc[p] \in {"open", "write"} => pc[q] # "phase"

\* ... and the file it truncated is still the one it is about to write.
WriterIsAttached ==
    \A p \in Proc : pc[p] = "write" => p \in attached /\ file = "empty"

\* The inductive invariant.
IInv ==
    /\ TypeOK
    /\ Quiet => /\ OneAcquirer
                /\ WriterIsAlone
                /\ WriterIsAttached
    /\ ExclusiveWhenQuiet
    /\ PhaseIsCovered
-----------------------------------------------------------------------------
\* Nobody has asked for the lock.
LEMMA InitIInv == Init => IInv
  BY NoProcIsNoProcess
  DEF Init, IInv, TypeOK, PCs, Quiet, OneAcquirer, WriterIsAlone,
      WriterIsAttached, ExclusiveWhenQuiet, PhaseIsCovered, InPhase, Acquiring

\* Every step keeps the types.
LEMMA TypeNext == TypeOK /\ [Next]_vars => TypeOK'
<1> SUFFICES ASSUME TypeOK, [Next]_vars PROVE TypeOK'
  OBVIOUS
<1> USE NoProcIsNoProcess DEF TypeOK, PCs
<1>1. ASSUME NEW p \in Proc, Launch(p) PROVE TypeOK'
  BY <1>1 DEF Launch
<1>2. ASSUME NEW p \in Proc, CheckExists(p) PROVE TypeOK'
  BY <1>2 DEF CheckExists
<1>3. ASSUME NEW p \in Proc, ReadLock(p) PROVE TypeOK'
  BY <1>3 DEF ReadLock
<1>4. ASSUME NEW p \in Proc, WriteOpen(p) PROVE TypeOK'
  BY <1>4 DEF WriteOpen
<1>5. ASSUME NEW p \in Proc, WriteBody(p) PROVE TypeOK'
  BY <1>5 DEF WriteBody
<1>6. ASSUME NEW p \in Proc, Release(p) PROVE TypeOK'
  BY <1>6 DEF Release, Unlink
<1>7. ASSUME NEW p \in Proc, Kill(p) PROVE TypeOK'
  BY <1>7 DEF Kill
<1>8. CASE GrowStale
  BY <1>8 DEF GrowStale
<1>9. CASE UNCHANGED vars
  BY <1>9 DEF vars
<1> QED
  BY <1>1, <1>2, <1>3, <1>4, <1>5, <1>6, <1>7, <1>8, <1>9 DEF Next, Acquire

\* Every variable keeps its type; the owner of the lock file is known exactly
\* when the file can be read.
THEOREM TypeCorrect == Spec => []TypeOK
<1>1. Init => TypeOK
  BY DEF Init, TypeOK, PCs
<1> QED
  BY <1>1, TypeNext, PTL DEF Spec
-----------------------------------------------------------------------------
\* The conjuncts of IInv that a step has to re-establish when it ends Quiet.
Trusted ==
    /\ OneAcquirer
    /\ WriterIsAlone
    /\ WriterIsAttached
    /\ \A p, q \in InPhase : p = q
    /\ \A p \in InPhase : file = "fresh" /\ owner = p

\* The invariant is the types, and trust as long as nothing went wrong.
LEMMA IInvByParts == IInv <=> TypeOK /\ (Quiet => Trusted)
  BY DEF IInv, Trusted, ExclusiveWhenQuiet, PhaseIsCovered

\* Quiet is never regained: a step that ends in it started in it.
LEMMA QuietBefore == [Next]_vars /\ TypeOK /\ Quiet' => Quiet
  BY DEF Next, Acquire, vars, TypeOK, Quiet, Launch, CheckExists, ReadLock,
         WriteOpen, WriteBody, Release, Kill, GrowStale

\* Trust is kept by every step after which nothing has gone wrong.
LEMMA NextTrusted == TypeOK /\ Trusted /\ [Next]_vars /\ Quiet' => Trusted'
<1> SUFFICES ASSUME TypeOK, Trusted, [Next]_vars, Quiet' PROVE Trusted'
  OBVIOUS
<1> USE NoProcIsNoProcess
    DEF TypeOK, PCs, Trusted, Acquiring, InPhase, OneAcquirer, WriterIsAlone,
        WriterIsAttached
<1>1. ASSUME NEW p \in Proc, Launch(p) PROVE Trusted'
  BY <1>1 DEF Launch
<1>2. ASSUME NEW p \in Proc, CheckExists(p) PROVE Trusted'
  \* No other process was acquiring, or overlapped' would hold; and an absent
  \* file means that nobody is in the phase.
  <2>1. \A q \in Proc : q # p => pc[q] \notin {"read", "open", "write"}
    BY <1>2 DEF CheckExists, Quiet
  <2>2. file = "absent" => \A q \in Proc : pc[q] # "phase"
    OBVIOUS
  <2> QED
    BY <1>2, <2>1, <2>2 DEF CheckExists
<1>3. ASSUME NEW p \in Proc, ReadLock(p) PROVE Trusted'
  \* Only a file that covers nobody is written over.
  <2>1. file # "fresh" => \A q \in Proc : pc[q] # "phase"
    OBVIOUS
  <2> QED
    BY <1>3, <2>1 DEF ReadLock
<1>4. ASSUME NEW p \in Proc, WriteOpen(p) PROVE Trusted'
  <2>1. \A q \in Proc : pc[q] # "phase" /\ (pc[q] = "write" => q = p)
    BY <1>4 DEF WriteOpen
  <2> QED
    BY <1>4, <2>1 DEF WriteOpen
<1>5. ASSUME NEW p \in Proc, WriteBody(p) PROVE Trusted'
  <2>1. p \in attached /\ file = "empty"
    BY <1>5 DEF WriteBody
  <2>2. file' = "fresh" /\ owner' = p
    BY <1>5, <2>1 DEF WriteBody
  <2>3. \A q \in Proc : q # p => pc[q] \notin {"read", "open", "write", "phase"}
    BY <1>5 DEF WriteBody
  <2> QED
    BY <1>5, <2>2, <2>3 DEF WriteBody
<1>6. ASSUME NEW p \in Proc, Release(p) PROVE Trusted'
  \* While p is in the phase nobody is about to write, so whatever release()
  \* does to the file, it takes it from nobody.
  <2>1. \A q \in Proc : pc[q] \notin {"open", "write"} /\ (pc[q] = "phase" => q = p)
    BY <1>6 DEF Release
  <2> QED
    BY <1>6, <2>1 DEF Release, Unlink
<1>7. ASSUME NEW p \in Proc, Kill(p) PROVE Trusted'
  BY <1>7 DEF Kill
<1>8. CASE GrowStale
  <2>1. \A q \in Proc : pc[q] # "phase"
    BY <1>8 DEF GrowStale, Quiet
  <2> QED
    BY <1>8, <2>1 DEF GrowStale
<1>9. CASE UNCHANGED vars
  BY <1>9 DEF vars
<1> QED
  BY <1>1, <1>2, <1>3, <1>4, <1>5, <1>6, <1>7, <1>8, <1>9 DEF Next, Acquire

\* Every step keeps the invariant.
LEMMA NextIInv == IInv /\ [Next]_vars => IInv'
<1> SUFFICES ASSUME IInv, [Next]_vars PROVE TypeOK' /\ (Quiet' => Trusted')
  <2>1. TypeOK' /\ (Quiet' => Trusted') => IInv'
    BY DEF IInv, Trusted, ExclusiveWhenQuiet, PhaseIsCovered, Quiet, InPhase
  <2> QED
    BY <2>1
<1>1. TypeOK'
  BY TypeNext DEF IInv
<1>2. ASSUME Quiet' PROVE Trusted'
  BY <1>2, QuietBefore, NextTrusted, IInvByParts DEF IInv
<1> QED
  BY <1>1, <1>2

\* The invariant holds throughout.
LEMMA Invariance == Spec => []IInv
  BY InitIInv, NextIInv, PTL DEF Spec
-----------------------------------------------------------------------------
\* If no two acquire() calls overlapped and no phase outlived its own lock,
\* at most one process is in the phase.
THEOREM Exclusion == Spec => []ExclusiveWhenQuiet
<1>1. IInv => ExclusiveWhenQuiet
  BY DEF IInv
<1> QED
  BY <1>1, Invariance, PTL

\* In such a run the process in the phase is covered by its own fresh file.
THEOREM Coverage == Spec => []PhaseIsCovered
<1>1. IInv => PhaseIsCovered
  BY DEF IInv
<1> QED
  BY <1>1, Invariance, PTL

\* PhaseLock implements PhaseMutex: acquiring enters, releasing and dying
\* leave, an overlap or an overrun forfeits the promise, the rest stutters.
THEOREM Implements == Spec => ImplementsMutex
<1>1. Init => Mutex!Init
  BY DEF Init, Mutex!Init, InPhase, Quiet
<1>2. IInv /\ IInv' /\ [Next]_vars => [Mutex!Next]_Mutex!vars
  <2> SUFFICES ASSUME IInv, IInv', [Next]_vars
               PROVE [Mutex!Next]_Mutex!vars
    OBVIOUS
  <2> USE DEF Mutex!Next, Mutex!vars, Mutex!Enter, Mutex!Leave, Mutex!Forfeit,
              InPhase, Quiet
  <2>1. ASSUME NEW p \in Proc, Launch(p) PROVE UNCHANGED Mutex!vars
    BY <2>1 DEF Launch, IInv, TypeOK
  <2>2. ASSUME NEW p \in Proc, CheckExists(p)
        PROVE Mutex!Forfeit \/ UNCHANGED Mutex!vars
    BY <2>2 DEF CheckExists, IInv, TypeOK
  <2>3. ASSUME NEW p \in Proc, ReadLock(p) PROVE UNCHANGED Mutex!vars
    BY <2>3 DEF ReadLock, IInv, TypeOK
  <2>4. ASSUME NEW p \in Proc, WriteOpen(p) PROVE UNCHANGED Mutex!vars
    BY <2>4 DEF WriteOpen, IInv, TypeOK
  <2>5. ASSUME NEW p \in Proc, WriteBody(p) PROVE Mutex!Enter(p)
    <3>1. InPhase' = InPhase \cup {p} /\ p \notin InPhase
      BY <2>5 DEF WriteBody, IInv, TypeOK
    <3>2. Quiet => InPhase = {}
      BY <2>5 DEF WriteBody, IInv, WriterIsAlone
    <3> QED
      BY <2>5, <3>1, <3>2 DEF WriteBody
  <2>6. ASSUME NEW p \in Proc, Release(p) PROVE Mutex!Leave(p)
    BY <2>6 DEF Release, IInv, TypeOK
  <2>7. ASSUME NEW p \in Proc, Kill(p)
        PROVE Mutex!Leave(p) \/ UNCHANGED Mutex!vars
    BY <2>7 DEF Kill, IInv, TypeOK
  <2>8. CASE GrowStale
    BY <2>8 DEF GrowStale, IInv, TypeOK
  <2>9. CASE UNCHANGED vars
    BY <2>9 DEF vars
  <2> QED
    BY <2>1, <2>2, <2>3, <2>4, <2>5, <2>6, <2>7, <2>8, <2>9 DEF Next, Acquire
<1> QED
  BY <1>1, <1>2, Invariance, PTL DEF Spec, ImplementsMutex, Mutex!Spec
=============================================================================
