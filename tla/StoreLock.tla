------------------------------ MODULE StoreLock ------------------------------
(***************************************************************************)
(* withRetrievalStoreLock: the lock directory that every process takes     *)
(* before it touches a retrieval store.  Whoever creates the directory     *)
(* owns it and then writes a file into it, named by a fresh token and      *)
(* holding the process's id; a caller that finds the directory looks at    *)
(* the owner and removes what a dead process left.                         *)
(*                                                                         *)
(* Each file system call is a step of its own.  A caller is one call of    *)
(* withRetrievalStoreLock after another: its token is written as the       *)
(* caller itself, since a token is only taken for abandoned when its       *)
(* process is dead and dead processes make no further call.  Clocks are    *)
(* left out: a deadline may pass at any retry, and the one age that        *)
(* decides something, that of a directory without an owner file, is        *)
(* SlowWrites.  An owner file is created and filled in one step, unless    *)
(* the write fails: then it may be blank, naming no process, and waits for *)
(* the same age.  Any file system call may fail, of a process that lives.  *)
(***************************************************************************)
EXTENDS Naturals, FiniteSets

CONSTANTS
  Callers,      \* calls that may overlap, of any process
  Processes,
  ProcessOf,    \* the process each caller runs in
  MaxCrashes,   \* how many processes may die
  MaxFailures,  \* how many file system calls may fail (a full disk, no
                \* file descriptors left, an input or output error)
  SlowWrites    \* may a live owner take longer than staleMs between mkdir
                \* and the write of its file?

ASSUME CallersAssumption ==
  /\ ProcessOf \in [Callers -> Processes]
  /\ MaxCrashes \in Nat
  /\ MaxFailures \in Nat
  /\ SlowWrites \in BOOLEAN

CONSTANTS Nothing, EmptyFresh, EmptyStale
ASSUME SeenAssumption ==
  /\ {Nothing, EmptyFresh, EmptyStale} \cap Callers = {}
  /\ (Callers \cup {Nothing, EmptyFresh, EmptyStale}) \cap Nat = {}
  /\ Nothing # EmptyFresh /\ Nothing # EmptyStale /\ EmptyFresh # EmptyStale

VARIABLES
  pc,        \* where each caller stands in withRetrievalStoreLock
  seen,      \* the owner a caller found when it inspected the directory
  exists,    \* is there a lock directory?
  files,     \* the owner files in it
  blank,     \* the owner files in it that name no process, each by the
             \* number of the failure that left it
  running,   \* the callers whose operation is under way
  crashed,   \* the processes that died
  failures,  \* how many calls failed
  disowned   \* has a live caller left the directory behind without its
             \* file? (history)

vars == <<pc, seen, exists, files, blank, running, crashed, failures, disowned>>

ledger == <<crashed, failures, disowned>>

Stages == {"idle", "mkdir", "write", "operate", "orphan", "stat", "remove",
           "read", "judge", "rmToken", "rmdir", "wait", "dead"}

TypeOK ==
  /\ pc \in [Callers -> Stages]
  /\ seen \in [Callers -> Callers \cup {Nothing, EmptyFresh, EmptyStale}
                                 \cup 1..MaxFailures]
  /\ exists \in BOOLEAN
  /\ files \subseteq Callers
  /\ blank \subseteq 1..failures
  /\ files \cup blank # {} => exists
  /\ running \subseteq Callers
  /\ crashed \subseteq Processes
  /\ failures \in 0..MaxFailures
  /\ disowned \in BOOLEAN

Init ==
  /\ pc = [c \in Callers |-> "idle"]
  /\ seen = [c \in Callers |-> Nothing]
  /\ exists = FALSE
  /\ files = {}
  /\ blank = {}
  /\ running = {}
  /\ crashed = {}
  /\ failures = 0
  /\ disowned = FALSE

At(c, stage) == pc[c] = stage
Goto(c, stage) == pc' = [pc EXCEPT ![c] = stage]
Alive(c) == ProcessOf[c] \notin crashed

\* One more call of the file system fails.
Failure == failures < MaxFailures /\ failures' = failures + 1

-----------------------------------------------------------------------------
(* Taking the lock.                                                        *)

Call(c) ==
  /\ At(c, "idle")
  /\ Goto(c, "mkdir")
  /\ UNCHANGED <<seen, exists, files, blank, running, ledger>>

MakeDirectoryAnyway(c) ==
  /\ At(c, "mkdir")
  /\ exists' = TRUE
  /\ Goto(c, "write")
  /\ UNCHANGED <<seen, files, blank, running, ledger>>

MakeDirectory(c) ==
  /\ At(c, "mkdir")
  /\ ~exists
  /\ exists' = TRUE
  /\ files' = {}
  /\ blank' = {}
  /\ Goto(c, "write")
  /\ UNCHANGED <<seen, running, ledger>>

DirectoryExists(c) ==
  /\ At(c, "mkdir")
  /\ exists
  /\ Goto(c, "read")
  /\ UNCHANGED <<seen, exists, files, blank, running, ledger>>

\* The file goes into whatever directory has the name by now.
WriteOwner(c) ==
  /\ At(c, "write")
  /\ exists
  /\ files' = files \cup {c}
  /\ running' = running \cup {c}
  /\ Goto(c, "operate")
  /\ UNCHANGED <<seen, exists, blank, ledger>>

\* Neither this error nor those that follow are "already exists": they end
\* the call.  Contenders took the directory away.
DirectoryGone(c) ==
  /\ At(c, "write")
  /\ ~exists
  /\ Goto(c, "idle")
  /\ UNCHANGED <<seen, exists, files, blank, running, ledger>>

\* The directory cannot be made, for another reason than that it exists.
MakeDirectoryFails(c) ==
  /\ At(c, "mkdir")
  /\ Failure
  /\ Goto(c, "idle")
  /\ UNCHANGED <<seen, exists, files, blank, running, crashed, disowned>>

\* Nothing takes back what was made so far: the directory, without the file,
\* with a blank one, or with a whole one when only its closing failed.
WriteOwnerFails(c) ==
  /\ At(c, "write")
  /\ exists
  /\ Failure
  /\ \/ files' = files \cup {c} /\ UNCHANGED <<blank, disowned>>
     \/ /\ blank' \in {blank, blank \cup {failures'}}
        /\ disowned' = TRUE
        /\ UNCHANGED files
  /\ Goto(c, "idle")
  /\ UNCHANGED <<seen, exists, running, crashed>>

-----------------------------------------------------------------------------
(* Looking at the owner that is in the way.                                *)

\* Whoever is still to write made a directory no later than this one.
LooksStale == SlowWrites \/ \A c \in Callers : ~At(c, "write")

\* What names no process is fresh or stale by its age.
Owners ==
  files
  \cup (IF blank # {} \/ files = {} THEN {EmptyFresh} ELSE {})
  \cup (IF ~LooksStale THEN {}
        ELSE IF files \cup blank = {} THEN {EmptyStale} ELSE blank)

Inspect(c) ==
  /\ At(c, "read")
  /\ IF ~exists
     THEN Goto(c, "wait") /\ UNCHANGED seen
     ELSE /\ Goto(c, "judge")
          /\ \E owner \in Owners : seen' = [seen EXCEPT ![c] = owner]
  /\ UNCHANGED <<exists, files, blank, running, ledger>>

AbandonedIfEmpty(owner) ==
  \/ owner \in {EmptyFresh, EmptyStale} \cup 1..MaxFailures
  \/ owner \in Callers /\ ~Alive(owner)

AbandonedIfDead(owner) == owner \in Callers /\ ~Alive(owner)

Abandoned(owner) ==
  \/ owner \in {EmptyStale} \cup 1..MaxFailures
  \/ owner \in Callers /\ ~Alive(owner)

Judge(c) ==
  /\ At(c, "judge")
  /\ Goto(c, IF Abandoned(seen[c]) THEN "rmToken" ELSE "wait")
  /\ UNCHANGED <<seen, exists, files, blank, running, ledger>>

RemoveToken(c) ==
  /\ At(c, "rmToken")
  /\ files' = files \ {seen[c]}
  /\ blank' = blank \ {seen[c]}
  /\ Goto(c, "rmdir")
  /\ UNCHANGED <<seen, exists, running, ledger>>

\* rmdir takes an empty directory only; nothing says whose it is.
RemoveDirectory(c) ==
  /\ At(c, "rmdir")
  /\ IF exists /\ files \cup blank = {}
     THEN exists' = FALSE /\ Goto(c, "mkdir")
     ELSE UNCHANGED exists /\ Goto(c, "wait")
  /\ UNCHANGED <<seen, files, blank, running, ledger>>

\* Errors of the inspection and of the removal are swallowed.
ReclaimFails(c) ==
  /\ pc[c] \in {"read", "rmToken", "rmdir"}
  /\ Failure
  /\ Goto(c, "wait")
  /\ UNCHANGED <<seen, exists, files, blank, running, crashed, disowned>>

Retry(c) ==
  /\ At(c, "wait")
  /\ Goto(c, "mkdir")
  /\ seen' = [seen EXCEPT ![c] = Nothing]
  /\ UNCHANGED <<exists, files, blank, running, ledger>>

\* retrieval_store_lock_busy and retrieval_store_lock_timeout.
GiveUp(c) ==
  /\ At(c, "wait")
  /\ Goto(c, "idle")
  /\ seen' = [seen EXCEPT ![c] = Nothing]
  /\ UNCHANGED <<exists, files, blank, running, ledger>>

-----------------------------------------------------------------------------
(* Using and returning it.                                                 *)

OperationSettles(c) ==
  /\ pc[c] \in {"operate", "orphan"}
  /\ running' = running \ {c}
  /\ Goto(c, "stat")
  /\ UNCHANGED <<seen, exists, files, blank, ledger>>

\* The caller is told; the operation and the ownership go on.
OperationTimesOut(c) ==
  /\ At(c, "operate")
  /\ Goto(c, "orphan")
  /\ UNCHANGED <<seen, exists, files, blank, running, ledger>>

FindOwnFile(c) ==
  /\ At(c, "stat")
  /\ Goto(c, IF exists /\ c \in files THEN "remove" ELSE "idle")
  /\ UNCHANGED <<seen, exists, files, blank, running, ledger>>

\* rm -r of the directory, whoever else has a file in it.
RemoveAll(c) ==
  /\ At(c, "remove")
  /\ exists' = FALSE
  /\ files' = {}
  /\ blank' = {}
  /\ Goto(c, "idle")
  /\ UNCHANGED <<seen, running, ledger>>

\* Errors of the cleanup are swallowed too, and rm -r may have removed a part.
CleanupFails(c) ==
  /\ pc[c] \in {"stat", "remove"}
  /\ Failure
  /\ \/ UNCHANGED <<files, blank, disowned>>
     \/ /\ At(c, "remove")
        /\ \E gone \in SUBSET (files \cup blank) :
             /\ files' = files \ gone
             /\ blank' = blank \ gone
             /\ disowned' = IF c \in gone THEN TRUE ELSE disowned
  /\ Goto(c, "idle")
  /\ UNCHANGED <<seen, exists, running, crashed>>

Crash(p) ==
  /\ p \notin crashed
  /\ Cardinality(crashed) < MaxCrashes
  /\ crashed' = crashed \cup {p}
  /\ pc' = [c \in Callers |-> IF ProcessOf[c] = p THEN "dead" ELSE pc[c]]
  /\ running' = {c \in running : ProcessOf[c] # p}
  /\ UNCHANGED <<seen, exists, files, blank, failures, disowned>>

Step(c) ==
  \/ MakeDirectory(c) \/ DirectoryExists(c) \/ WriteOwner(c)
  \/ DirectoryGone(c) \/ Inspect(c) \/ Judge(c) \/ RemoveToken(c)
  \/ RemoveDirectory(c) \/ Retry(c) \/ OperationSettles(c)
  \/ FindOwnFile(c) \/ RemoveAll(c)

CallFails(c) ==
  \/ MakeDirectoryFails(c) \/ WriteOwnerFails(c)
  \/ ReclaimFails(c) \/ CleanupFails(c)

Next ==
  \/ \E c \in Callers :
       Step(c) \/ Call(c) \/ GiveUp(c) \/ OperationTimesOut(c) \/ CallFails(c)
  \/ \E p \in Processes : Crash(p)

Spec == Init /\ [][Next]_vars

\* A call that is made takes its steps, and operations settle; nobody has to
\* call, to give up or to die, and nothing has to fail.  The age of what names
\* nobody grows: whoever keeps inspecting it finds it stale at last.
FairSpec ==
  /\ Spec
  /\ \A c \in Callers :
       /\ WF_vars(Step(c))
       /\ SF_vars(Inspect(c) /\ seen'[c] \in {EmptyStale} \cup 1..MaxFailures)

-----------------------------------------------------------------------------
AtMostOneOperation == \A c, d \in running : c = d

(* Two operations on one store are never under way together, although the  *)
(* lock is a directory that contenders may remove, calls give up and retry *)
(* and file system calls fail: as long as nobody dies, no owner is slow to *)
(* write its file, and none leaves the directory without it.               *)
(* (withRetrievalStoreLock)                                                *)
OneOperationWhileAllLive ==
  crashed = {} /\ ~SlowWrites /\ ~disowned => AtMostOneOperation

(* An operation that is under way has its file in the lock directory, so   *)
(* that contenders have somebody to respect: no cleanup and no reclaim     *)
(* takes it away (cleanup, reclaimLockOwner).                              *)
OperationHasItsFile == \A c \in running : exists /\ c \in files

Contending(c) ==
  pc[c] \in {"mkdir", "read", "judge", "rmToken", "rmdir", "wait"}

\* The file of a living process whose caller is done with it.
Forgotten ==
  \E c \in files :
    Alive(c) /\ pc[c] \notin {"operate", "orphan", "stat", "remove"}

(* Nobody waits forever in front of a lock that nobody uses: what a dead   *)
(* process left, its file or an empty directory, and what a failed call    *)
(* left, is removed by those who wait (the reclaim of a dead or stale      *)
(* owner); but for the file of a living process, left when closing or      *)
(* removing it failed.                                                     *)
NobodyWaitsForTheDead ==
  \A c \in Callers :
    Contending(c) ~> (running # {} \/ ~Contending(c) \/ Forgotten)
=============================================================================
