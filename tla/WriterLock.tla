----------------------------- MODULE WriterLock -----------------------------
(***************************************************************************)
(* The repository writer lease of autonomous_kernel/store.py: the context   *)
(* manager writer_lock, which every mutation of durable state runs under.   *)
(*                                                                          *)
(* The lease is one file, state/.writer.lock.  It is created with           *)
(* O_CREAT|O_EXCL and only then filled with a payload naming its owner, so  *)
(* it can be seen empty.  A contender that finds it reads the payload,      *)
(* probes the owner's pid, reads the file again, unlinks it and retries,    *)
(* at most Attempts times.  Each of these is a system call of its own, and  *)
(* processes interleave, crash and have their pids reused between any two.  *)
(*                                                                          *)
(* The file's identity matters: os.write goes to the descriptor, so a       *)
(* payload written after another process unlinked the name never shows.     *)
(***************************************************************************)
EXTENDS Naturals, FiniteSets

CONSTANTS
    Procs,      \* pids that run kernel commands
    Hosts,      \* hosts that share the repository directory
    HostOf,     \* the host of each pid
    MaxTokens   \* bound on the acquisitions a behaviour contains

ASSUME HostOfType == HostOf \in [Procs -> Hosts]
ASSUME MaxTokensType == MaxTokens \in Nat

VARIABLES
    lock,       \* the lock file, or NoFile
    alive,      \* pids that os.kill(pid, 0) finds
    pc,         \* where each process is in writer_lock
    token,      \* the uuid of each process's current acquisition, 0 if none
    seen,       \* existing_text: what the contender last read
    tries,      \* passes of the acquisition loop already made
    issued      \* tokens handed out so far (uuid4 never repeats)

vars == <<lock, alive, pc, token, seen, tries, issued>>

Attempts == 2
NoFile == [tok |-> 0, pid |-> 0, written |-> FALSE]
Files == [tok : 1..MaxTokens, pid : Procs, written : BOOLEAN] \cup {NoFile}

Steps == {"idle", "open", "write", "read", "probe", "reread", "unlink",
          "critical", "verify", "remove", "dead"}

TypeOK ==
    /\ lock \in Files
    /\ alive \subseteq Procs
    /\ pc \in [Procs -> Steps]
    /\ token \in [Procs -> 0..MaxTokens]
    /\ seen \in [Procs -> Files]
    /\ tries \in [Procs -> 0..(Attempts - 1)]
    /\ issued \in 0..MaxTokens

Init ==
    /\ lock = NoFile
    /\ alive = Procs
    /\ pc = [p \in Procs |-> "idle"]
    /\ token = [p \in Procs |-> 0]
    /\ seen = [p \in Procs |-> NoFile]
    /\ tries = [p \in Procs |-> 0]
    /\ issued = 0

GoTo(p, step) == pc' = [pc EXCEPT ![p] = step]

\* An exception leaves writer_lock; the command fails and the process is done.
Leave(p) ==
    /\ GoTo(p, "idle")
    /\ token' = [token EXCEPT ![p] = 0]
    /\ seen' = [seen EXCEPT ![p] = NoFile]
    /\ tries' = [tries EXCEPT ![p] = 0]

Begin(p) ==
    /\ pc[p] = "idle" /\ issued < MaxTokens
    /\ issued' = issued + 1
    /\ token' = [token EXCEPT ![p] = issued + 1]
    /\ GoTo(p, "open")
    /\ UNCHANGED <<lock, alive, seen, tries>>

\* Variant: O_CREAT without O_EXCL, which takes over a file that exists.
OpenWithoutExcl(p) ==
    /\ pc[p] = "open"
    /\ lock' = [tok |-> token[p], pid |-> p, written |-> FALSE]
    /\ GoTo(p, "write")
    /\ UNCHANGED <<alive, token, seen, tries, issued>>

\* os.open(..., O_CREAT | O_EXCL): creates the file empty, or fails.
OpenExclusive(p) ==
    /\ pc[p] = "open" /\ lock = NoFile
    /\ lock' = [tok |-> token[p], pid |-> p, written |-> FALSE]
    /\ GoTo(p, "write")
    /\ UNCHANGED <<alive, token, seen, tries, issued>>

OpenFindsFile(p) ==
    /\ pc[p] = "open" /\ lock # NoFile
    /\ GoTo(p, "read")
    /\ UNCHANGED <<lock, alive, token, seen, tries, issued>>

\* os.write and fsync on the descriptor: reaches the named file only while
\* the name still denotes the file this process created.
WritePayload(p) ==
    /\ pc[p] = "write"
    /\ lock' = IF lock.tok = token[p] THEN [lock EXCEPT !.written = TRUE] ELSE lock
    /\ GoTo(p, "critical")
    /\ UNCHANGED <<alive, token, seen, tries, issued>>

\* Variant: a lock that cannot be read is probed like any other.
ReadLockUnverified(p) ==
    /\ pc[p] = "read"
    /\ seen' = [seen EXCEPT ![p] = lock] /\ GoTo(p, "probe")
    /\ UNCHANGED <<lock, alive, token, tries, issued>>

\* A missing or empty file cannot be verified: RuntimeError.
ReadLock(p) ==
    /\ pc[p] = "read"
    /\ IF lock.written
       THEN seen' = [seen EXCEPT ![p] = lock] /\ GoTo(p, "probe")
                /\ UNCHANGED <<token, tries>>
       ELSE Leave(p)
    /\ UNCHANGED <<lock, alive, issued>>

\* Variant: the recorded pid is probed on the contender's host, whatever host
\* it ran on.
LooksOrphanedAnyHost(p) ==
    HostOf[seen[p].pid] # HostOf[p] \/ seen[p].pid \notin alive

\* The lock is stale when its owner ran on this host and its pid is gone.
LooksOrphaned(p) == HostOf[seen[p].pid] = HostOf[p] /\ seen[p].pid \notin alive

ProbeOwner(p) ==
    /\ pc[p] = "probe"
    /\ IF LooksOrphaned(p)
       THEN GoTo(p, "reread") /\ UNCHANGED <<token, seen, tries>>
       ELSE Leave(p)
    /\ UNCHANGED <<lock, alive, issued>>

\* "writer lock changed during stale-lock verification", or it is missing.
Reread(p) ==
    /\ pc[p] = "reread"
    /\ IF lock = seen[p]
       THEN GoTo(p, "unlink") /\ UNCHANGED <<token, seen, tries>>
       ELSE Leave(p)
    /\ UNCHANGED <<lock, alive, issued>>

\* Unlink by name, whatever the name denotes now; then the loop's next pass,
\* or "could not acquire state writer lock" after the last one.
UnlinkStale(p) ==
    /\ pc[p] = "unlink"
    /\ IF lock # NoFile /\ tries[p] + 1 < Attempts
       THEN /\ GoTo(p, "open")
            /\ seen' = [seen EXCEPT ![p] = NoFile]
            /\ tries' = [tries EXCEPT ![p] = @ + 1]
            /\ UNCHANGED token
       ELSE Leave(p)
    /\ lock' = NoFile
    /\ UNCHANGED <<alive, issued>>

\* The guarded body ends (normally or by an exception).
EndBody(p) ==
    /\ pc[p] = "critical"
    /\ GoTo(p, "verify")
    /\ UNCHANGED <<lock, alive, token, seen, tries, issued>>

\* The finally block: load the lock and compare tokens; anything but this
\* process's own payload raises and leaves the file alone.
VerifyOwnership(p) ==
    /\ pc[p] = "verify"
    /\ IF lock.written /\ lock.tok = token[p]
       THEN GoTo(p, "remove") /\ UNCHANGED <<token, seen, tries>>
       ELSE Leave(p)
    /\ UNCHANGED <<lock, alive, issued>>

RemoveLock(p) ==
    /\ pc[p] = "remove"
    /\ lock' = NoFile
    /\ Leave(p)
    /\ UNCHANGED <<alive, issued>>

Crash(p) ==
    /\ pc[p] \notin {"idle", "dead"}
    /\ alive' = alive \ {p}
    /\ GoTo(p, "dead")
    /\ token' = [token EXCEPT ![p] = 0]
    /\ seen' = [seen EXCEPT ![p] = NoFile]
    /\ tries' = [tries EXCEPT ![p] = 0]
    /\ UNCHANGED <<lock, issued>>

\* The operating system gives a dead process's pid to a new one.
ReusePid(p) ==
    /\ pc[p] = "dead"
    /\ alive' = alive \cup {p}
    /\ GoTo(p, "idle")
    /\ UNCHANGED <<lock, token, seen, tries, issued>>

Acquire(p) ==
    \/ Begin(p) \/ OpenExclusive(p) \/ OpenFindsFile(p) \/ WritePayload(p)
    \/ ReadLock(p) \/ ProbeOwner(p) \/ Reread(p) \/ UnlinkStale(p)

Release(p) == EndBody(p) \/ VerifyOwnership(p) \/ RemoveLock(p)

Next == \E p \in Procs : Acquire(p) \/ Release(p) \/ Crash(p) \/ ReusePid(p)

Spec == Init /\ [][Next]_vars

-----------------------------------------------------------------------------
(* What the lease promises.                                                 *)

\* The processes that have created the lock and not yet given it back.
Holding(p) == pc[p] \in {"write", "critical", "verify", "remove"}

\* At most one process is inside the guarded body: store.py documents
\* writer_lock as "an exclusive repository writer lease".
MutualExclusion ==
    \A p, q \in Procs : Holding(p) /\ Holding(q) => p = q

\* Every holder still owns the file under the lock's name, so its release
\* neither raises "ownership changed" nor removes someone else's lease.
HolderOwnsFile ==
    \A p \in Procs : Holding(p) =>
        /\ lock.pid = p /\ lock.tok = token[p]
        /\ lock.written <=> pc[p] # "write"

\* A holder is alone, and the lock in place is its own.
SoleHolder == MutualExclusion /\ HolderOwnsFile

\* A lock whose payload was never written proves nothing about its owner, so
\* no contender ever clears it: a crash between creating and filling the file
\* leaves it in place for an operator.
UnverifiableNeverCleared ==
    [][lock # NoFile /\ ~lock.written =>
            lock' = lock \/ lock' = [lock EXCEPT !.written = TRUE]]_vars

\* At most two kernel processes per host: the owner of a lock and one
\* contender.  With three, two contenders can race to clear the same orphan.
AtMostTwoPerHost ==
    \A p, q, r \in Procs :
        HostOf[p] = HostOf[q] /\ HostOf[q] = HostOf[r] => p = q \/ q = r \/ p = r

-----------------------------------------------------------------------------
(* The abstract lease: someone in the body, or nobody.                      *)

holder == {p \in Procs : Holding(p)}

Lease == INSTANCE ExclusiveLease WITH holder <- holder
LeaseSpec == Lease!Spec
=============================================================================
