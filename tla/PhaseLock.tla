------------------------------ MODULE PhaseLock ------------------------------
(***************************************************************************)
(* core/lock.py: the file-based advisory lock around one (env, phase), as  *)
(* migrate.py cmd_deploy uses it.  The lock is an ordinary file, tested,   *)
(* read and written in separate system calls, so the model has one action  *)
(* per system call.  A process may be killed between any two of them (the  *)
(* UI kills the CLI after 180 s), and the file it leaves stays until a     *)
(* later acquire() finds it unreadable or older than STALE_AFTER_HOURS.    *)
(*                                                                         *)
(* The age of the file is abstracted to "is it past the limit":            *)
(* GrowStale may happen at any time after the write.                       *)
(***************************************************************************)
EXTENDS FiniteSets

CONSTANTS
    Proc,           \* CLI processes running the phase against one environment
    NoProc          \* the owner of a lock file nobody completed

ASSUME NoProcIsNoProcess == NoProc \notin Proc

VARIABLES
    pc,             \* where each process is (see PCs)
    file,           \* "absent" | "empty" | "garbled" | "fresh" | "stale"
    owner,          \* the process named in a readable lock file
    attached,       \* processes whose open descriptor is still the linked file
    overlapped,     \* history: two acquire() calls ran at the same time
    overran         \* history: a lock went stale while its owner was in phase

vars == <<pc, file, owner, attached, overlapped, overran>>

\* idle: not started or exited; check: before path.exists(); read: before
\* _read_lock(); open, write: inside write_text(); phase: acquired; refused:
\* exited on LockConflict; dead: killed.
PCs == {"idle", "check", "read", "open", "write", "phase", "refused", "dead"}

Acquiring == {p \in Proc : pc[p] \in {"read", "open", "write"}}
InPhase   == {p \in Proc : pc[p] = "phase"}

TypeOK ==
    /\ pc \in [Proc -> PCs]
    /\ file \in {"absent", "empty", "garbled", "fresh", "stale"}
    /\ owner \in Proc \cup {NoProc}
    /\ owner # NoProc <=> file \in {"fresh", "stale"}
    /\ attached \subseteq Proc
    /\ overlapped \in BOOLEAN
    /\ overran \in BOOLEAN

Init ==
    /\ pc = [p \in Proc |-> "idle"]
    /\ file = "absent"
    /\ owner = NoProc
    /\ attached = {}
    /\ overlapped = FALSE
    /\ overran = FALSE
-----------------------------------------------------------------------------
\* An operator starts the command (again).
Launch(p) ==
    /\ pc[p] \in {"idle", "refused", "dead"}
    /\ pc' = [pc EXCEPT ![p] = "check"]
    /\ UNCHANGED <<file, owner, attached, overlapped, overran>>

\* if self._path.exists():
CheckExists(p) ==
    /\ pc[p] = "check"
    /\ pc' = [pc EXCEPT ![p] = IF file = "absent" THEN "open" ELSE "read"]
    /\ overlapped' = (overlapped \/ Acquiring \ {p} # {})
    /\ UNCHANGED <<file, owner, attached, overran>>

\* Faults of ReadLock: the conflict test dropped; stale locks never broken.
ReadLockIgnored(p) ==
    /\ pc[p] = "read"
    /\ pc' = [pc EXCEPT ![p] = "open"]
    /\ UNCHANGED <<file, owner, attached, overlapped, overran>>

ReadLockForever(p) ==
    /\ pc[p] = "read"
    /\ pc' = [pc EXCEPT ![p] =
                  IF file \in {"fresh", "stale"} THEN "refused" ELSE "open"]
    /\ UNCHANGED <<file, owner, attached, overlapped, overran>>

\* existing = self._read_lock(); a fresh one raises LockConflict, while a
\* vanished, unreadable or stale one is written over.
ReadLock(p) ==
    /\ pc[p] = "read"
    /\ pc' = [pc EXCEPT ![p] = IF file = "fresh" THEN "refused" ELSE "open"]
    /\ UNCHANGED <<file, owner, attached, overlapped, overran>>

\* write_text opens with mode "w", which creates or truncates the file ...
WriteOpen(p) ==
    /\ pc[p] = "open"
    /\ pc' = [pc EXCEPT ![p] = "write"]
    /\ file' = "empty"
    /\ owner' = NoProc
    /\ attached' = attached \cup {p}
    /\ UNCHANGED <<overlapped, overran>>

\* ... and then writes at offset 0.  Over another writer's longer text this
\* leaves trailing bytes that do not parse; into an unlinked file it leaves
\* nothing.  Either way _acquired becomes True.
WriteBody(p) ==
    /\ pc[p] = "write"
    /\ pc' = [pc EXCEPT ![p] = "phase"]
    /\ \/ /\ p \in attached
          /\ file' = "fresh" /\ owner' = p
       \/ /\ p \in attached /\ file # "empty"
          /\ file' = "garbled" /\ owner' = NoProc
       \/ /\ p \notin attached
          /\ UNCHANGED <<file, owner>>
    /\ attached' = attached \ {p}
    /\ UNCHANGED <<overlapped, overran>>

Unlink ==
    /\ file' = "absent"
    /\ owner' = NoProc
    /\ attached' = {}

\* Faults of Release: the "if self._acquired" guard dropped, so that a refused
\* process releases too; the file emptied without forgetting its owner.
ReleaseUnguarded(p) ==
    /\ pc[p] \in {"phase", "refused"}
    /\ pc' = [pc EXCEPT ![p] = "idle"]
    /\ Unlink
    /\ UNCHANGED <<overlapped, overran>>

ReleaseByTruncation(p) ==
    /\ pc[p] = "phase"
    /\ pc' = [pc EXCEPT ![p] = "idle"]
    /\ file' = "empty"
    /\ UNCHANGED <<owner, attached, overlapped, overran>>

\* finally: lock.release(), on return, sys.exit and exceptions alike.  It
\* unlinks the path, whoever wrote it; an OSError of unlink is swallowed.
Release(p) ==
    /\ pc[p] = "phase"
    /\ pc' = [pc EXCEPT ![p] = "idle"]
    /\ Unlink \/ UNCHANGED <<file, owner, attached>>
    /\ UNCHANGED <<overlapped, overran>>

\* Fault of Kill: a signal handler that unlinks the path without asking
\* whether this process acquired it.
KillUnlinks(p) ==
    /\ pc[p] \in {"check", "read", "open", "write", "phase"}
    /\ pc' = [pc EXCEPT ![p] = "dead"]
    /\ Unlink
    /\ UNCHANGED <<overlapped, overran>>

\* SIGKILL or power loss: release() does not run and the file stays.
Kill(p) ==
    /\ pc[p] \in {"check", "read", "open", "write", "phase"}
    /\ pc' = [pc EXCEPT ![p] = "dead"]
    /\ attached' = attached \ {p}
    /\ UNCHANGED <<file, owner, overlapped, overran>>

\* The lock's age passes STALE_AFTER_HOURS.
GrowStale ==
    /\ file = "fresh"
    /\ file' = "stale"
    /\ overran' = (overran \/ owner \in InPhase)
    /\ UNCHANGED <<pc, owner, attached, overlapped>>

\* The steps of acquire() that the process takes by itself.
Acquire(p) == CheckExists(p) \/ ReadLock(p) \/ WriteOpen(p) \/ WriteBody(p)

Next ==
    \/ \E p \in Proc : Launch(p) \/ Acquire(p) \/ Release(p) \/ Kill(p)
    \/ GrowStale

\* A running process keeps running and the clock keeps going.  Nothing makes
\* an operator launch again, and nothing makes a process die.
Fairness ==
    /\ \A p \in Proc : WF_vars(Acquire(p)) /\ WF_vars(Release(p))
    /\ WF_vars(GrowStale)

Spec     == Init /\ [][Next]_vars
FairSpec == Spec /\ Fairness
-----------------------------------------------------------------------------
\* The two things the lock takes on trust.
Quiet == ~overlapped /\ ~overran

\* Exclusion holds exactly as far as the lock's trust: if no two acquire()
\* calls ever overlapped and no phase outlived the staleness limit of its own
\* lock, at most one process is in the phase, whatever was killed and
\* whatever files were left behind.
ExclusiveWhenQuiet ==
    Quiet => \A p, q \in InPhase : p = q

\* In such a run the process in the phase is covered: its own readable, fresh
\* lock file is on disk, so the next acquire() is refused.  (A release by
\* anyone else, or a torn write, would uncover it.)
PhaseIsCovered ==
    Quiet => \A p \in InPhase : file = "fresh" /\ owner = p

\* lock.py, lines 3-4: the lock "prevents two operators from running the same
\* deployment phase against the same environment simultaneously".
MutualExclusion ==
    \A p, q \in InPhase : p = q

\* A lock whose owner was killed does not block for ever: if every other
\* process stays dead, one that keeps coming back to the lock gets in.
DeadOwnerGivesWay ==
    \A p \in Proc :
        (/\ <>[](\A q \in Proc \ {p} : pc[q] = "dead")
         /\ []<>(pc[p] = "check")
         /\ <>[](pc[p] # "dead"))
        => <>(pc[p] = "phase")

\* PhaseLock keeps the promise of PhaseMutex until one of the two trusted
\* facts is broken.
Mutex == INSTANCE PhaseMutex WITH inPhase <- InPhase, promised <- Quiet
ImplementsMutex == Mutex!Spec
=============================================================================
