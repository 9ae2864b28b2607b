------------------------------ MODULE DeployLock ------------------------------
(***************************************************************************)
(* The deploy command over its lock file: Deployment.tla and PhaseLock.tla *)
(* put together.  Where Deployment takes the lock in one step, a process   *)
(* goes through the system calls of acquire() and release(), and nothing   *)
(* but the file tells it whether it may go on.  Two processes can both be  *)
(* let in, and then both push.                                             *)
(*                                                                         *)
(* Deployment's lock is the readable, fresh file: a refinement mapping     *)
(* that holds for as long as the trust of the lock does.                   *)
(***************************************************************************)
EXTENDS DeployParams, FiniteSets, Sequences

VARIABLES
    conf, dev, govern, ledger, bus, flat, pc, run, left, copy, chainer, runs, meddling,
    chains, wrote, clash, late, chained,                \* of Deployment
    at, file, owner, attached, overlapped, overran      \* of PhaseLock, "pc" as "at"

command   == <<conf, dev, govern, ledger, bus, flat, pc, run, left, copy, chainer, runs,
               meddling, chains, wrote, clash, late, chained>>
lockfile  == <<at, file, owner, attached, overlapped, overran>>
vars      == <<command, lockfile>>

Held == IF file = "fresh" THEN owner ELSE None

D == INSTANCE Deployment WITH lock <- Held
L == INSTANCE PhaseLock WITH Proc <- Op, NoProc <- None, pc <- at

Init == L!Init /\ D!Init
-----------------------------------------------------------------------------
\* lock.acquire() up to the last write; the command waits for it.
Try(p) ==
    /\ pc[p] = "lock" /\ UNCHANGED command
    /\ \/ L!Launch(p) \/ L!CheckExists(p) \/ L!WriteOpen(p)
       \/ L!ReadLock(p) /\ at'[p] = "open"

\* Fault of Conflict: acquire() moved into the try, and the release with no
\* question whether the lock was acquired.
ConflictReleases(p) ==
    /\ at[p] = "read" /\ file = "fresh" /\ at' = [at EXCEPT ![p] = "refused"]
    /\ L!Unlink /\ UNCHANGED <<overlapped, overran>> /\ D!Refused(p)

\* except LockConflict: sys.exit(1), before the try whose finally releases.
Conflict(p) == L!ReadLock(p) /\ at'[p] = "refused" /\ D!Refused(p)

Enter(p) == L!WriteBody(p) /\ D!Enter(p)

\* finally: lock.release()
Leave(p) == L!Release(p) /\ D!Ends(p)

Killed(p) ==
    /\ IF at[p] \in {"idle", "refused", "dead"} THEN UNCHANGED lockfile ELSE L!Kill(p)
    /\ D!Kill(p)

GrowStale == L!GrowStale /\ UNCHANGED command

Next ==
    \/ \E p \in Op : Try(p) \/ Conflict(p) \/ Enter(p) \/ Leave(p) \/ Killed(p)
    \/ UNCHANGED lockfile /\ (D!Others \/ \E p \in Op : D!Command(p))
    \/ GrowStale

Spec == Init /\ [][Next]_vars
-----------------------------------------------------------------------------
TypeOK == D!TypeOK /\ L!TypeOK

\* As long as no two acquire() calls overlapped and no deployment outlived its
\* lock, the command over the file is the command over a lock taken in one step.
DeploysAsOne == [][L!Quiet' => [D!Next]_(D!vars)]_vars

\* As long as that holds, what the command promises holds: order, and a "done"
\* that means deployed.
SoundWhileQuiet == L!Quiet => D!NothingDangles /\ D!CleanDoneIsDeployed

\* And until then a virtual server that was there when a run compared names is
\* overwritten only by a run that could not list them.
ServersSurvive ==
    [][L!Quiet' => \A o \in Servers \cap Home : dev[o] # "absent" /\ dev'[o] # dev[o] =>
          \/ \E what \in {"absent", "foreign"} : D!Meddle(o, what)
          \/ \E p \in Op : Held = p /\ (run[p].blind \/ o \in late)]_vars

\* That tampering with the logs shows does not rest on the lock: two deployments
\* that write to them at once change nothing in it.
TamperingShows == D!TamperingShows

\* Whether the lock excludes or not, a run that changed the device has its
\* governance record: that does not rest on the lock.
WritersAreOnRecord == D!WritersAreOnRecord
=============================================================================
