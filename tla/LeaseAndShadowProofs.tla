------------------------ MODULE LeaseAndShadowProofs ------------------------
(***************************************************************************)
(* Proofs about the two components in which processes step on each other's  *)
(* files: the writer lease and the shadow operations.                       *)
(*                                                                          *)
(* WriterLock is proved for every set of processes, hosts and tokens, in    *)
(* which at most two processes share a host (AtMostTwoPerHost).  That       *)
(* assumption is what exclusion needs: while a contender sits between its   *)
(* second read and its unlink, nobody else may unlink the same orphan.      *)
(*                                                                          *)
(* ShadowExecution has no lock at all, and is proved for any processes,     *)
(* observations, decisions and assumptions (second half).                   *)
(***************************************************************************)
EXTENDS WriterLock, ShadowExecution, FiniteSetTheorems, SequenceTheorems, TLAPS


Contending(p) == pc[p] \in {"open", "read", "probe", "reread", "unlink"}

\* A process is dead, idle, contending or holding; only the last two have a
\* token, and no two processes the same.
TokenInv ==
    \A p \in Procs :
        /\ p \in alive <=> pc[p] # "dead"
        /\ pc[p] \in {"idle", "dead"} => token[p] = 0
        /\ pc[p] \notin {"idle", "dead"} => token[p] \in 1..issued
        /\ \A q \in Procs : p # q /\ token[p] = token[q] => token[p] = 0

\* A file's token belongs to the process it names, if that process still has
\* it, and never to one that has yet to create a file.
Names(file) ==
    file # NoFile =>
        /\ file.tok \in 1..issued
        /\ \A r \in Procs : token[r] = file.tok => r = file.pid /\ Holding(r)

\* What a contender knows: from the probe on that the owner of the file it
\* read is gone, from the second read on that this file is still the lock.
ContenderInv ==
    \A p \in Procs :
        /\ pc[p] \in {"probe", "reread", "unlink"} =>
              seen[p] # NoFile /\ seen[p].written
        /\ pc[p] \in {"reread", "unlink"} =>
              /\ HostOf[seen[p].pid] = HostOf[p] /\ seen[p].pid # p
              /\ \A r \in Procs : token[r] # seen[p].tok
        /\ pc[p] = "unlink" => lock = seen[p]

IInv ==
    /\ TypeOK /\ TokenInv /\ HolderOwnsFile /\ ContenderInv
    /\ Names(lock) /\ \A p \in Procs : Names(seen[p])

-----------------------------------------------------------------------------

LEMMA FileTypes ==
    /\ NoFile \in Files /\ NoFile.tok = 0 /\ ~NoFile.written
    /\ \A p \in Procs, t \in 1..MaxTokens, w \in BOOLEAN :
          [tok |-> t, pid |-> p, written |-> w] \in Files \ {NoFile}
    /\ \A f \in Files : f # NoFile => f.tok \in 1..MaxTokens /\ f.pid \in Procs
    /\ \A f \in Files : f.written \in BOOLEAN
    /\ \A f \in Files : f # NoFile => [f EXCEPT !.written = TRUE] \in Files \ {NoFile}
<1>1. NoFile \in Files /\ NoFile.tok = 0 /\ ~NoFile.written
  BY DEF Files, NoFile
<1>2. \A p \in Procs, t \in 1..MaxTokens, w \in BOOLEAN :
         [tok |-> t, pid |-> p, written |-> w] \in Files \ {NoFile}
  <2> TAKE p \in Procs, t \in 1..MaxTokens, w \in BOOLEAN
  <2>1. [tok |-> t, pid |-> p, written |-> w] \in Files
    BY DEF Files
  <2>2. [tok |-> t, pid |-> p, written |-> w].tok # NoFile.tok
    BY MaxTokensType DEF NoFile
  <2> QED BY <2>1, <2>2
<1>3. \A f \in Files : f # NoFile => /\ f.tok \in 1..MaxTokens /\ f.pid \in Procs
                                     /\ f.written \in BOOLEAN
  BY DEF Files
<1>4. \A f \in Files : f # NoFile => [f EXCEPT !.written = TRUE] \in Files \ {NoFile}
  <2> TAKE f \in Files
  <2> SUFFICES ASSUME f # NoFile PROVE [f EXCEPT !.written = TRUE] \in Files \ {NoFile}
    OBVIOUS
  <2>1. f \in [tok : 1..MaxTokens, pid : Procs, written : BOOLEAN]
    BY DEF Files
  <2>2. [f EXCEPT !.written = TRUE] \in [tok : 1..MaxTokens, pid : Procs, written : BOOLEAN]
    BY <2>1
  <2>3. [f EXCEPT !.written = TRUE].tok = f.tok
    BY <2>1
  <2>4. f.tok # NoFile.tok
    BY <1>1, <1>3, MaxTokensType
  <2>5. [f EXCEPT !.written = TRUE] # NoFile
    BY <2>3, <2>4
  <2> QED BY <2>2, <2>5 DEF Files
<1>5. NoFile.written \in BOOLEAN
  BY DEF NoFile
<1> QED BY <1>1, <1>2, <1>3, <1>4, <1>5

\* An exception leaves no trace of the acquisition in the process.
LEMMA LeaveStep ==
    ASSUME TypeOK, NEW p \in Procs, Leave(p)
    PROVE  /\ pc' \in [Procs -> Steps] /\ token' \in [Procs -> 0..MaxTokens]
           /\ seen' \in [Procs -> Files] /\ tries' \in [Procs -> 0..(Attempts - 1)]
           /\ pc'[p] = "idle" /\ token'[p] = 0 /\ seen'[p] = NoFile
           /\ \A q \in Procs \ {p} : pc'[q] = pc[q] /\ token'[q] = token[q]
                                     /\ seen'[q] = seen[q]
BY FileTypes, MaxTokensType DEF Leave, GoTo, TypeOK, Steps, Attempts

\* What one step of process p does to the types and tokens.
LEMMA TypeStep ==
    ASSUME TypeOK, TokenInv, [Next]_vars PROVE TypeOK' /\ TokenInv'
<1> USE FileTypes, MaxTokensType
<1>1. CASE UNCHANGED vars
  BY <1>1 DEF TypeOK, TokenInv, vars
<1>2. ASSUME NEW p \in Procs, Begin(p) PROVE TypeOK' /\ TokenInv'
  <2>1. TypeOK'
    BY <1>2 DEF Begin, GoTo, TypeOK, Steps
  <2> QED BY <1>2, <2>1 DEF Begin, GoTo, TypeOK, TokenInv
<1>3. ASSUME NEW p \in Procs, OpenExclusive(p) PROVE TypeOK' /\ TokenInv'
  <2>1. token[p] \in 1..MaxTokens
    BY <1>3 DEF OpenExclusive, TokenInv, TypeOK
  <2>2. TypeOK'
    BY <1>3, <2>1 DEF OpenExclusive, GoTo, TypeOK, Steps
  <2> QED BY <1>3, <2>2 DEF OpenExclusive, GoTo, TypeOK, TokenInv
<1>4. ASSUME NEW p \in Procs, OpenFindsFile(p) \/ EndBody(p) PROVE TypeOK' /\ TokenInv'
  BY <1>4 DEF OpenFindsFile, EndBody, GoTo, TypeOK, Steps, TokenInv
<1>5. ASSUME NEW p \in Procs, WritePayload(p) PROVE TypeOK' /\ TokenInv'
  <2>1. token[p] # 0
    BY <1>5 DEF WritePayload, TokenInv, TypeOK
  <2>2. lock' \in Files
    BY <1>5, <2>1 DEF WritePayload, TypeOK
  <2> QED BY <1>5, <2>2 DEF WritePayload, GoTo, TypeOK, Steps, TokenInv
<1>6. ASSUME NEW p \in Procs, ReadLock(p) \/ ProbeOwner(p) \/ Reread(p) \/ VerifyOwnership(p)
      PROVE  TypeOK' /\ TokenInv'
  <2>1. UNCHANGED <<lock, alive, issued>> /\ pc[p] \notin {"idle", "dead"}
    BY <1>6 DEF ReadLock, ProbeOwner, Reread, VerifyOwnership
  <2>2. CASE Leave(p)
    BY <2>1, <2>2, LeaveStep DEF TypeOK, TokenInv
  <2>3. CASE ~Leave(p)
    BY <1>6, <2>1, <2>3 DEF ReadLock, ProbeOwner, Reread, VerifyOwnership, GoTo,
                            TypeOK, Steps, TokenInv
  <2> QED BY <2>2, <2>3
<1>7. ASSUME NEW p \in Procs, UnlinkStale(p) PROVE TypeOK' /\ TokenInv'
  <2>1. UNCHANGED <<alive, issued>> /\ pc[p] = "unlink" /\ lock' = NoFile
    BY <1>7 DEF UnlinkStale
  <2>2. CASE Leave(p)
    BY <2>1, <2>2, LeaveStep DEF TypeOK, TokenInv
  <2>3. CASE ~Leave(p)
    <3>1. tries[p] \in {0, 1} /\ tries[p] + 1 < 2
      BY <1>7, <2>3 DEF UnlinkStale, TypeOK, Attempts
    <3>2. tries' \in [Procs -> 0..(Attempts - 1)]
      BY <1>7, <2>3, <3>1 DEF UnlinkStale, TypeOK, Attempts
    <3>3. /\ pc' = [pc EXCEPT ![p] = "open"] /\ seen' = [seen EXCEPT ![p] = NoFile]
          /\ token' = token
      BY <1>7, <2>3 DEF UnlinkStale, GoTo
    <3>4. TypeOK'
      BY <2>1, <3>2, <3>3 DEF TypeOK, Steps
    <3>5. TokenInv'
      BY <2>1, <3>3 DEF TokenInv, TypeOK
    <3> QED BY <3>4, <3>5
  <2> QED BY <2>2, <2>3
<1>8. ASSUME NEW p \in Procs, RemoveLock(p) PROVE TypeOK' /\ TokenInv'
  BY <1>8, LeaveStep DEF RemoveLock, TypeOK, TokenInv
<1>9. ASSUME NEW p \in Procs, Crash(p) PROVE TypeOK' /\ TokenInv'
  BY <1>9 DEF Crash, GoTo, TypeOK, Steps, TokenInv, Attempts
<1>10. ASSUME NEW p \in Procs, ReusePid(p) PROVE TypeOK' /\ TokenInv'
  BY <1>10 DEF ReusePid, GoTo, TypeOK, Steps, TokenInv
<1> QED
  BY <1>1, <1>2, <1>3, <1>4, <1>5, <1>6, <1>7, <1>8, <1>9, <1>10
     DEF Next, Acquire, Release

\* The lock file, tokens and program counters keep their types; this needs no
\* assumption about hosts.
THEOREM TypeCorrect == Spec => []TypeOK
<1>1. Init => TypeOK /\ TokenInv
  BY FileTypes, MaxTokensType DEF Init, TypeOK, TokenInv, Steps, Attempts
<1>2. TypeOK /\ TokenInv /\ [Next]_vars => TypeOK' /\ TokenInv'
  BY TypeStep
<1> QED BY <1>1, <1>2, PTL DEF Spec

-----------------------------------------------------------------------------
(* Exclusion.                                                               *)

Step(p) == Acquire(p) \/ Release(p) \/ Crash(p) \/ ReusePid(p)

\* A step of p is p's own business.
LEMMA OthersUnchanged ==
    ASSUME TypeOK, NEW p \in Procs, Step(p), NEW q \in Procs, q # p
    PROVE  pc'[q] = pc[q] /\ token'[q] = token[q] /\ seen'[q] = seen[q]
BY DEF Step, Acquire, Release, Begin, OpenExclusive, OpenFindsFile, WritePayload,
       ReadLock, ProbeOwner, Reread, UnlinkStale, EndBody, VerifyOwnership,
       RemoveLock, Crash, ReusePid, Leave, GoTo, TypeOK

HoldingLater(r) == pc'[r] \in {"write", "critical", "verify", "remove"}

NamesLater(f) ==
    f # NoFile =>
        /\ f.tok \in 1..issued'
        /\ \A r \in Procs : token'[r] = f.tok => r = f.pid /\ HoldingLater(r)

\* A process that keeps its token keeps holding; tokens are issued in order.
LEMMA TokensKept ==
    ASSUME TypeOK, TokenInv, NEW p \in Procs, Step(p)
    PROVE  /\ issued \in Nat /\ issued' \in {issued, issued + 1}
           /\ \A r \in Procs : token'[r] \in 1..issued =>
                 token'[r] = token[r] /\ (Holding(r) => HoldingLater(r))
<1>1. issued \in Nat /\ issued' \in {issued, issued + 1}
  BY MaxTokensType
     DEF TypeOK, Step, Acquire, Release, Begin, OpenExclusive, OpenFindsFile,
         WritePayload, ReadLock, ProbeOwner, Reread, UnlinkStale, EndBody,
         VerifyOwnership, RemoveLock, Crash, ReusePid
<1>2. token'[p] \in 1..issued =>
         token'[p] = token[p] /\ (Holding(p) => HoldingLater(p))
  BY <1>1
     DEF TypeOK, Step, Acquire, Release, Begin, OpenExclusive, OpenFindsFile,
         WritePayload, ReadLock, ProbeOwner, Reread, UnlinkStale, EndBody,
         VerifyOwnership, RemoveLock, Crash, ReusePid, Leave, GoTo, Holding,
         HoldingLater
<1>3. \A r \in Procs \ {p} : token'[r] = token[r] /\ pc'[r] = pc[r]
  BY OthersUnchanged
<1> QED BY <1>1, <1>2, <1>3 DEF Holding, HoldingLater

LEMMA NamesPersist ==
    ASSUME TypeOK, TokenInv, NEW p \in Procs, Step(p), NEW f, Names(f)
    PROVE  NamesLater(f)
BY TokensKept DEF Names, NamesLater

\* The lock a holder owns, or that a contender is about to unlink, is changed
\* by no other process.  The last case is where two per host matters.
LEMMA LockStable ==
    ASSUME AtMostTwoPerHost, IInv, NEW p \in Procs, Step(p),
           NEW q \in Procs, q # p, Holding(q) \/ pc[q] = "unlink"
    PROVE  lock' = lock
<1> USE DEF IInv
<1>1. lock # NoFile
  <2>1. CASE Holding(q)
    <3>1. lock.tok = token[q] /\ token[q] \in 1..issued /\ issued \in Nat
      BY <2>1, MaxTokensType DEF HolderOwnsFile, TokenInv, Holding, TypeOK
    <3> QED BY <3>1, FileTypes
  <2>2. CASE pc[q] = "unlink"
    BY <2>2 DEF ContenderInv
  <2> QED BY <2>1, <2>2
<1>2. CASE WritePayload(p)
  <2>1. Holding(p) /\ lock.tok = token[p] /\ lock.pid = p
    BY <1>2 DEF WritePayload, Holding, HolderOwnsFile
  <2>2. ~Holding(q)
    BY <2>1 DEF HolderOwnsFile
  <2>3. lock = seen[q] /\ token[p] # seen[q].tok
    BY <2>2 DEF ContenderInv
  <2> QED BY <2>1, <2>3
<1>3. CASE RemoveLock(p)
  <2>1. Holding(p) /\ lock.tok = token[p] /\ lock.pid = p
    BY <1>3 DEF RemoveLock, Holding, HolderOwnsFile
  <2>2. ~Holding(q)
    BY <2>1 DEF HolderOwnsFile
  <2>3. lock = seen[q] /\ token[p] # seen[q].tok
    BY <2>2 DEF ContenderInv
  <2> QED BY <2>1, <2>3
<1>4. CASE UnlinkStale(p)
  <2>1. /\ lock = seen[p] /\ HostOf[seen[p].pid] = HostOf[p] /\ seen[p].pid # p
        /\ token[q] # seen[p].tok
    BY <1>4 DEF UnlinkStale, ContenderInv
  <2>2. ~Holding(q)
    BY <2>1 DEF HolderOwnsFile
  <2>3. lock = seen[q] /\ HostOf[seen[q].pid] = HostOf[q] /\ seen[q].pid # q
    BY <2>2 DEF ContenderInv
  <2>4. lock.pid \in Procs
    BY <1>1, FileTypes DEF TypeOK
  <2> QED BY <2>1, <2>3, <2>4 DEF AtMostTwoPerHost
<1> QED
  BY <1>1, <1>2, <1>3, <1>4
     DEF Step, Acquire, Release, Begin, OpenExclusive, OpenFindsFile, ReadLock,
         ProbeOwner, Reread, EndBody, VerifyOwnership, Crash, ReusePid

LEMMA HolderStep ==
    ASSUME AtMostTwoPerHost, IInv, NEW p \in Procs, Step(p) PROVE HolderOwnsFile'
<1> USE DEF IInv
<1>1. \A q \in Procs \ {p} : Holding(q)' =>
         lock' = lock /\ Holding(q) /\ token'[q] = token[q] /\ pc'[q] = pc[q]
  <2> SUFFICES ASSUME NEW q \in Procs \ {p}, Holding(q)'
               PROVE  lock' = lock /\ Holding(q) /\ token'[q] = token[q] /\ pc'[q] = pc[q]
    OBVIOUS
  <2>1. token'[q] = token[q] /\ pc'[q] = pc[q]
    BY OthersUnchanged
  <2>2. Holding(q)
    BY <2>1 DEF Holding
  <2> QED BY <2>1, <2>2, LockStable
<1>2. Holding(p)' => /\ lock'.pid = p /\ lock'.tok = token'[p]
                     /\ lock'.written <=> pc'[p] # "write"
  <2>1. CASE OpenExclusive(p)
    BY <2>1 DEF OpenExclusive, GoTo, TypeOK
  <2>2. CASE WritePayload(p)
    <3>1. lock.pid = p /\ lock.tok = token[p]
      BY <2>2 DEF WritePayload, Holding, HolderOwnsFile
    <3>2. lock # NoFile
      BY <2>2, <3>1, FileTypes, MaxTokensType DEF WritePayload, TokenInv, TypeOK
    <3>3. lock \in [tok : 1..MaxTokens, pid : Procs, written : BOOLEAN]
      BY <3>2 DEF TypeOK, Files
    <3>4. lock' = [lock EXCEPT !.written = TRUE] /\ token' = token /\ pc'[p] = "critical"
      BY <2>2, <3>1 DEF WritePayload, GoTo, TypeOK
    <3> QED BY <3>1, <3>3, <3>4
  <2>3. CASE EndBody(p)
    BY <2>3 DEF EndBody, GoTo, TypeOK, Holding, HolderOwnsFile
  <2>4. CASE VerifyOwnership(p)
    <3>1. CASE Leave(p)
      BY <3>1, LeaveStep DEF Holding
    <3> QED BY <2>4, <3>1 DEF VerifyOwnership, GoTo, TypeOK, Holding, HolderOwnsFile
  <2>5. CASE ReadLock(p) \/ ProbeOwner(p) \/ Reread(p) \/ UnlinkStale(p) \/ RemoveLock(p)
    <3>1. CASE Leave(p)
      BY <3>1, LeaveStep DEF Holding
    <3> QED BY <2>5, <3>1 DEF ReadLock, ProbeOwner, Reread, UnlinkStale, RemoveLock,
                              GoTo, TypeOK, Holding
  <2>6. CASE Begin(p) \/ OpenFindsFile(p) \/ Crash(p) \/ ReusePid(p)
    BY <2>6 DEF Begin, OpenFindsFile, Crash, ReusePid, GoTo, TypeOK, Holding
  <2> QED BY <2>1, <2>2, <2>3, <2>4, <2>5, <2>6 DEF Step, Acquire, Release
<1> QED BY <1>1, <1>2 DEF HolderOwnsFile

\* A file p has read, or finds stale: nobody has its token any more.
LEMMA ContenderStep ==
    ASSUME AtMostTwoPerHost, IInv, NEW p \in Procs, Step(p) PROVE ContenderInv'
<1> USE DEF IInv
<1> DEFINE Inv(q) ==
        /\ pc[q] \in {"probe", "reread", "unlink"} => seen[q] # NoFile /\ seen[q].written
        /\ pc[q] \in {"reread", "unlink"} =>
              /\ HostOf[seen[q].pid] = HostOf[q] /\ seen[q].pid # q
              /\ \A r \in Procs : token[r] # seen[q].tok
        /\ pc[q] = "unlink" => lock = seen[q]
<1>0. \A q \in Procs : Inv(q)
  BY DEF ContenderInv
<1>1. ASSUME NEW q \in Procs, NEW f, Names(f), f # NoFile,
             \A r \in Procs : token[r] # f.tok
      PROVE  \A r \in Procs : token'[r] # f.tok
  BY <1>1, TokensKept DEF Names
<1>2. ASSUME NEW q \in Procs \ {p} PROVE Inv(q)'
  <2>1. pc'[q] = pc[q] /\ seen'[q] = seen[q]
    BY OthersUnchanged
  <2>2. pc[q] = "unlink" => lock' = lock
    BY LockStable
  <2>3. pc[q] \in {"reread", "unlink"} => \A r \in Procs : token'[r] # seen[q].tok
    BY <1>0, <1>1
  <2> QED BY <1>0, <2>1, <2>2, <2>3
<1>3. Inv(p)'
  <2>1. CASE pc'[p] \notin {"probe", "reread", "unlink"}
    BY <2>1
  <2>2. CASE ReadLock(p) /\ ~Leave(p)
    <3>1. pc'[p] = "probe" /\ seen'[p] = lock /\ lock.written
      BY <2>2 DEF ReadLock, GoTo, TypeOK
    <3> QED BY <3>1, FileTypes
  <2>3. CASE ProbeOwner(p) /\ ~Leave(p)
    <3>1. /\ pc[p] = "probe" /\ pc'[p] = "reread" /\ seen' = seen /\ token' = token
          /\ HostOf[seen[p].pid] = HostOf[p] /\ seen[p].pid \notin alive
      BY <2>3 DEF ProbeOwner, LooksOrphaned, GoTo, TypeOK
    <3>2. p \in alive
      BY <3>1 DEF TokenInv
    <3>3. \A r \in Procs : token[r] # seen[p].tok
      <4> SUFFICES ASSUME NEW r \in Procs, token[r] = seen[p].tok PROVE FALSE
        OBVIOUS
      <4>1. seen[p] # NoFile
        BY <3>1 DEF ContenderInv
      <4>2. r = seen[p].pid /\ Holding(r)
        BY <4>1 DEF Names
      <4> QED BY <3>1, <4>2 DEF TokenInv, Holding
    <3> QED BY <1>0, <3>1, <3>2, <3>3
  <2>4. CASE Reread(p) /\ ~Leave(p)
    BY <1>0, <2>4 DEF Reread, GoTo, TypeOK
  <2>5. CASE Leave(p)
    BY <2>5, LeaveStep
  <2> QED
    BY <2>1, <2>2, <2>3, <2>4, <2>5
       DEF Step, Acquire, Release, Begin, OpenExclusive, OpenFindsFile, WritePayload,
           UnlinkStale, EndBody, VerifyOwnership, RemoveLock, Crash, ReusePid, GoTo, TypeOK
<1> QED BY <1>2, <1>3 DEF ContenderInv

LEMMA NamesStep ==
    ASSUME IInv, NEW p \in Procs, Step(p)
    PROVE  Names(lock)' /\ \A q \in Procs : Names(seen[q])'
<1> USE DEF IInv
<1>1. NamesLater(lock) /\ \A q \in Procs : NamesLater(seen[q])
  BY NamesPersist
<1>2. \A q \in Procs : seen'[q] \in {seen[q], lock, NoFile}
  <2>1. seen'[p] \in {seen[p], lock, NoFile}
    BY DEF Step, Acquire, Release, Begin, OpenExclusive, OpenFindsFile, WritePayload,
           ReadLock, ProbeOwner, Reread, UnlinkStale, EndBody, VerifyOwnership,
           RemoveLock, Crash, ReusePid, Leave, GoTo, TypeOK
  <2> QED BY <2>1, OthersUnchanged
<1>3. ASSUME NEW q \in Procs PROVE Names(seen[q])'
  <2>1. CASE seen'[q] = NoFile
    BY <2>1 DEF Names
  <2>2. CASE seen'[q] = lock \/ seen'[q] = seen[q]
    BY <1>1, <2>2 DEF NamesLater, Names, HoldingLater, Holding
  <2> QED BY <1>2, <2>1, <2>2
<1>4. Names(lock)'
  <2>1. CASE lock' = lock
    BY <1>1, <2>1 DEF NamesLater, Names, HoldingLater, Holding
  <2>2. CASE lock' = NoFile
    BY <2>2 DEF Names
  <2>3. CASE OpenExclusive(p)
    <3>1. /\ lock'.tok = token[p] /\ lock'.pid = p /\ token' = token /\ issued' = issued
          /\ pc'[p] = "write" /\ token[p] \in 1..issued
      BY <2>3 DEF OpenExclusive, GoTo, TypeOK, TokenInv
    <3>2. \A r \in Procs : token[r] = token[p] => r = p
      BY <3>1, MaxTokensType DEF TokenInv, TypeOK
    <3> QED BY <3>1, <3>2 DEF Names, Holding
  <2>4. CASE WritePayload(p) /\ lock' # lock
    <3>1. lock' = [lock EXCEPT !.written = TRUE] /\ lock.tok = token[p]
      BY <2>4 DEF WritePayload
    <3>2. lock # NoFile
      BY <2>4, <3>1, FileTypes, MaxTokensType DEF WritePayload, TokenInv, TypeOK
    <3>3. lock'.tok = lock.tok /\ lock'.pid = lock.pid
      BY <3>1, <3>2 DEF TypeOK, Files
    <3> QED BY <1>1, <3>2, <3>3 DEF NamesLater, Names, HoldingLater, Holding
  <2> QED
    BY <2>1, <2>2, <2>3, <2>4
       DEF Step, Acquire, Release, Begin, OpenFindsFile, ReadLock, ProbeOwner, Reread,
           UnlinkStale, EndBody, VerifyOwnership, RemoveLock, Crash, ReusePid
<1> QED BY <1>3, <1>4

LEMMA InvariantIInv == ASSUME AtMostTwoPerHost PROVE Spec => []IInv
<1>1. Init => IInv
  BY FileTypes, MaxTokensType
     DEF Init, IInv, TypeOK, TokenInv, HolderOwnsFile, ContenderInv, Names, Holding,
         Steps, Attempts
<1>2. IInv /\ [Next]_vars => IInv'
  <2> SUFFICES ASSUME IInv, [Next]_vars PROVE IInv'
    OBVIOUS
  <2>1. CASE UNCHANGED vars
    BY <2>1 DEF vars, IInv, TypeOK, TokenInv, HolderOwnsFile, ContenderInv, Names, Holding
  <2>2. ASSUME NEW p \in Procs, Step(p) PROVE IInv'
    <3>1. TypeOK' /\ TokenInv'
      BY TypeStep DEF IInv
    <3> QED BY <2>2, <3>1, HolderStep, ContenderStep, NamesStep DEF IInv
  <2> QED BY <2>1, <2>2 DEF Next, Step
<1> QED BY <1>1, <1>2, PTL DEF Spec

-----------------------------------------------------------------------------

\* The lease is exclusive as long as no more than two processes share a host.
THEOREM MutualExclusionHolds ==
    ASSUME AtMostTwoPerHost PROVE Spec => []MutualExclusion
<1>1. IInv => MutualExclusion
  BY DEF IInv, HolderOwnsFile, MutualExclusion
<1> QED BY <1>1, InvariantIInv, PTL

\* Under the same assumption a holder's file stays its own until it gives the
\* lease back, so the release neither fails nor removes another's lock.
THEOREM HolderOwnsFileHolds ==
    ASSUME AtMostTwoPerHost PROVE Spec => []HolderOwnsFile
<1>1. IInv => HolderOwnsFile
  BY DEF IInv
<1> QED BY <1>1, InvariantIInv, PTL

\* Under the same assumption a holder is alone and owns the file: the two above.
THEOREM SoleHolderHolds ==
    ASSUME AtMostTwoPerHost PROVE Spec => []SoleHolder
<1>1. IInv => SoleHolder
  BY DEF IInv, HolderOwnsFile, MutualExclusion, SoleHolder
<1> QED BY <1>1, InvariantIInv, PTL

\* A lock without a payload is never cleared by a contender.
THEOREM UnverifiableNeverClearedHolds ==
    ASSUME AtMostTwoPerHost PROVE Spec => UnverifiableNeverCleared
<1> DEFINE Kept == lock # NoFile /\ ~lock.written =>
                      lock' = lock \/ lock' = [lock EXCEPT !.written = TRUE]
<1>1. IInv /\ [Next]_vars => [Kept]_vars
  <2> SUFFICES ASSUME IInv, NEW p \in Procs, Step(p), lock # NoFile, ~lock.written
               PROVE  lock' = lock \/ lock' = [lock EXCEPT !.written = TRUE]
    BY DEF Next, Step
  <2>1. ~UnlinkStale(p)
    BY DEF UnlinkStale, IInv, ContenderInv
  <2>2. ~RemoveLock(p)
    BY DEF RemoveLock, IInv, HolderOwnsFile, Holding
  <2> QED
    BY <2>1, <2>2
       DEF Step, Acquire, Release, Begin, OpenExclusive, OpenFindsFile, WritePayload,
           ReadLock, ProbeOwner, Reread, EndBody, VerifyOwnership, Crash, ReusePid
<1> QED BY <1>1, InvariantIInv, PTL DEF Spec, UnverifiableNeverCleared

\* Seen from its callers the lock file is the abstract lease.
THEOREM ImplementsLease == ASSUME AtMostTwoPerHost PROVE Spec => LeaseSpec
<1>1. Init => Lease!Init
  BY DEF Init, Lease!Init, holder, Holding
<1>2. IInv /\ IInv' /\ [Next]_vars => [Lease!Next]_holder
  <2> SUFFICES ASSUME IInv, IInv', [Next]_vars PROVE [Lease!Next]_holder
    OBVIOUS
  <2>1. CASE UNCHANGED vars
    BY <2>1 DEF vars, holder, Holding
  <2>2. ASSUME NEW p \in Procs, Step(p) PROVE [Lease!Next]_holder
    <3>1. \A q \in Procs \ {p} : Holding(q)' <=> Holding(q)
      BY <2>2, OthersUnchanged DEF IInv, Holding
    <3>2. \A q, r \in Procs : Holding(q) /\ Holding(r) => q = r
      BY DEF IInv, HolderOwnsFile
    <3>3. \A q, r \in Procs : Holding(q)' /\ Holding(r)' => q = r
      BY DEF IInv, HolderOwnsFile
    <3>4. CASE Holding(p) <=> Holding(p)'
      BY <3>1, <3>4 DEF holder
    <3>5. CASE Holding(p) /\ ~Holding(p)'
      <4>1. holder = {p} /\ holder' = {}
        BY <3>1, <3>2, <3>5 DEF holder
      <4> QED BY <4>1 DEF Lease!Next, Lease!Give
    <3>6. CASE ~Holding(p) /\ Holding(p)'
      <4>1. holder = {} /\ holder' = {p}
        BY <3>1, <3>3, <3>6 DEF holder
      <4> QED BY <4>1 DEF Lease!Next, Lease!Take
    <3> QED BY <3>4, <3>5, <3>6
  <2> QED BY <2>1, <2>2 DEF Next, Step
<1> QED BY <1>1, <1>2, InvariantIInv, PTL DEF Spec, LeaseSpec, Lease!Spec

-----------------------------------------------------------------------------
(* Shadow operations.  The stages of an operation are files, and a process  *)
(* knows of its operation what it last read or wrote.  What a journal holds *)
(* is well made at every stage (Entry), whoever wrote it, and so is every   *)
(* receipt; while no two processes met at an operation, what the process    *)
(* has in memory is what the journal holds (AloneInv), which is why the     *)
(* receipt agrees with the journal.                                         *)

Total == Len(Observations)
ResultOf(id, a) == Execute(Request(id), ObservationOf(id), a)
AccountingOf(id, a) == Accounting(Request(id), ResultOf(id, a), ObservationOf(id).close)
Allowed == {[allowed |-> TRUE, reasons |-> {}, at |-> t] : t \in 0..MaxRuns}
Registered(c) == Rank(c.state) >= Rank("PREREGISTERED")

\* An entry of a journal, in a state with these receipts and this capability.
Entry(id, m, rs, c) ==
  /\ m = [stage |-> m.stage, input |-> m.input, assumptions |-> m.assumptions,
           authorization |-> m.authorization, result |-> m.result, accounting |-> m.accounting]
  /\ m.stage \in {"PREPARED", "AUTHORIZED", "EXECUTED", "ACCOUNTED", "FINALIZED"}
  /\ m.assumptions \in Assumptions /\ m.input = InputHash(id, m.assumptions)
  /\ m.stage # "PREPARED" /\ m.authorization.allowed => m.authorization \in Allowed /\ Registered(c)
  /\ m.stage \in {"EXECUTED", "ACCOUNTED", "FINALIZED"} =>
       m.authorization.allowed /\ m.result = ResultOf(id, m.assumptions)
  /\ m.stage \in {"ACCOUNTED", "FINALIZED"} => m.accounting = AccountingOf(id, m.assumptions)
  /\ m.stage = "FINALIZED" => rs[id] # Nil

\* A state of a replay that has passed the first k observations.
ProperAt(state, k, rs) ==
  /\ DOMAIN state = {"status", "ordered", "processed", "paths", "gaps"}
  /\ state.ordered = OrderedIds
  /\ state.processed = [i \in 1..k |-> OrderedIds[i]]
  /\ state.paths = {OrderedIds[i] : i \in 1..k} \cap Decided
  /\ state.status = "COMPLETE" => k = Total
  /\ \A id \in state.paths : rs[id] # Nil
Proper(state, rs) == \E k \in 0..Total : ProperAt(state, k, rs)

\* Steps with an operation in memory, and with an operation at all.
Loaded == {"run", "receipt", "finalize", "record"}
Busy == Loaded \cup {"prepare"}

ProcessStep(s, rs, c) ==
  /\ DOMAIN s = {"at", "id", "assumptions", "stamp", "memory", "replay"}
  /\ s.stamp \in 0..MaxRuns /\ s.at \in Busy \cup {"idle", "create", "next"}
  /\ s.at # "idle" => s.assumptions \in Assumptions
  /\ s.at \notin Busy => s.id = Nil
  /\ s.at \in Busy => s.id \in Decided
  /\ s.at \in Loaded => Entry(s.id, s.memory, rs, c) /\ s.memory.assumptions = s.assumptions
  /\ s.at \in {"receipt", "finalize"} => s.memory.stage = "ACCOUNTED" /\ s.memory.authorization.allowed
  /\ s.at \in {"finalize", "record"} => rs[s.id] # Nil
  /\ s.at = "next" => Proper(s.replay, rs)
  /\ s.at = "record" => s.replay # Nil
  /\ s.at \in Busy /\ s.replay # Nil =>
       \E k \in 0..(Total - 1) : ProperAt(s.replay, k, rs) /\ s.id = OrderedIds[k + 1]

ShapeInv ==
  /\ DOMAIN proc = Processes /\ DOMAIN journal = Decided /\ DOMAIN receipts = Decided
  /\ runs \in 0..MaxRuns
  /\ DOMAIN capability = {"id", "state", "status", "evidence"}
  /\ capability.state \in ToSet(CAPABILITY_STATES)
EntriesInv == \A id \in Decided : journal[id] # Nil => Entry(id, journal[id], receipts, capability)
EarnedInv ==
  \A id \in Decided : receipts[id] # Nil =>
    /\ \E m \in FinishedJournals(id) : receipts[id] = ReceiptOf(id, m)
    /\ Registered(capability)
StepsInv == \A p \in Processes : ProcessStep(proc[p], receipts, capability)
CheckpointInv == checkpoint # Nil => Proper(checkpoint, receipts)

\* Two processes at one operation have been noticed; and what a process that
\* met nobody knows of the journal is still so.
MetInv == \A p, q \in Processes : p # q /\ proc[p].id = proc[q].id => proc[p].id \in shared \cup {Nil}
AloneInv ==
  \A p \in Processes : proc[p].id \notin shared =>
    /\ proc[p].at = "prepare" => journal[proc[p].id] = Nil
    /\ proc[p].at \in Loaded => proc[p].memory = journal[proc[p].id]
AgreeInv ==
  \A id \in Decided \ shared : receipts[id] # Nil =>
    journal[id] \in FinishedJournals(id) /\ receipts[id] = ReceiptOf(id, journal[id])

\* The log of the capability: promotions rise, other records carry their place.
CapabilityStates == ToSet(CAPABILITY_STATES)
Promotions == [id : {<<s>> : s \in CapabilityStates}, at : Nat, previous : CapabilityStates,
               new : CapabilityStates, outcome : {"PROMOTED"}, evidence : {{"E"}}]
Withdrawals == [id : NonSuccess \X Nat, at : Nat, previous : CapabilityStates,
                new : CapabilityStates, outcome : NonSuccess, evidence : {{"E"}}]
LogInv ==
  /\ transitions \in Seq(Promotions \cup Withdrawals)
  /\ \A i \in DOMAIN transitions :
       /\ transitions[i].outcome = "PROMOTED" =>
            /\ transitions[i].id = <<transitions[i].new>>
            /\ transitions[i].new \notin {"CAPITAL_ELIGIBLE", "LIVE"}
            /\ Rank(transitions[i].new) = Rank(transitions[i].previous) + 1
            /\ Rank(transitions[i].new) <= Rank(capability.state)
       /\ transitions[i].outcome # "PROMOTED" => transitions[i].id = <<transitions[i].outcome, i - 1>>
  /\ \A i, k \in DOMAIN transitions :
       i < k /\ transitions[i].outcome = "PROMOTED" /\ transitions[k].outcome = "PROMOTED" =>
         Rank(transitions[i].new) < Rank(transitions[k].new)

ShadowInv ==
  /\ ShapeInv /\ EntriesInv /\ EarnedInv /\ StepsInv /\ CheckpointInv
  /\ MetInv /\ AloneInv /\ AgreeInv /\ LogInv

-----------------------------------------------------------------------------

\* The order of a replay: every observation has a place of its own.
LEMMA PlaceIsPlace ==
  /\ IsFiniteSet(ToSet(Observations)) /\ Cardinality(ToSet(Observations)) = Total /\ Total \in Nat
  /\ \A o \in ToSet(Observations) : {o.id, o.instrument, o.at} \subseteq Nat
  /\ \A o, q \in ToSet(Observations) : o.id = q.id => o = q
<1>1. Total \in Nat /\ DOMAIN Observations = 1..Total
  BY ObservationsAssumption DEF Total
<1>2. \A i \in 1..Total : {Observations[i].id, Observations[i].instrument, Observations[i].at} \subseteq Nat
  <2>1. PICK R : R = [id : Nat, instrument : Nat, at : Nat, close : Nat]
    OBVIOUS
  <2>2. \A i \in 1..Total : Observations[i] \in R
    <3>1. Observations \in Seq(R)
      BY <2>1, ObservationsAssumption
    <3>2. QED
      BY <1>1, <3>1
  <2>3. \A o \in R : {o.id, o.instrument, o.at} \subseteq Nat
    BY <2>1
  <2>4. QED
    BY <2>2, <2>3
<1>3. \A i, k \in 1..Total : Observations[i].id = Observations[k].id => i = k
  BY <1>1, ObservationsAssumption
<1>4. PICK S : S = ToSet(Observations)
  OBVIOUS
<1>5. S = {Observations[i] : i \in 1..Total}
  BY <1>1, <1>4 DEF ToSet
<1>6. PICK f : f = [i \in 1..Total |-> Observations[i]]
  OBVIOUS
<1>13. f \in Bijection(1..Total, S)
  <2>4. f \in [1..Total -> S] /\ \A i \in 1..Total : f[i] = Observations[i]
    BY <1>5, <1>6
  <2>5. \A i, k \in 1..Total : f[i] = f[k] => i = k
    BY <1>3, <2>4
  <2>1. f \in Injection(1..Total, S)
    BY <2>4, <2>5 DEF Injection, IsInjective
  <2>2. f \in Surjection(1..Total, S)
    BY <1>5, <2>4 DEF Surjection
  <2>3. QED
    BY <2>1, <2>2 DEF Bijection
<1>7. ExistsBijection(1..Total, S)
  BY <1>13 DEF ExistsBijection
<1>8. IsFiniteSet(1..Total) /\ Cardinality(1..Total) = Total
  BY <1>1, FS_Interval
<1>9. IsFiniteSet(S) /\ Cardinality(S) = Total
  BY <1>7, <1>8, FS_Bijection
<1>10. \A o \in S : {o.id, o.instrument, o.at} \subseteq Nat
  BY <1>2, <1>5
<1>11. \A o, q \in S : o.id = q.id => o = q
  BY <1>3, <1>5
<1>12. QED
  BY <1>1, <1>4, <1>9, <1>10, <1>11

LEMMA PrecedesOrders ==
  ASSUME NEW o \in ToSet(Observations), NEW q \in ToSet(Observations), NEW r \in ToSet(Observations)
  PROVE  /\ ~ Precedes(o, o)
         /\ o # q => Precedes(o, q) \/ Precedes(q, o)
         /\ Precedes(o, q) /\ Precedes(q, r) => Precedes(o, r)
<1>1. /\ {o.id, o.instrument, o.at} \subseteq Nat /\ {q.id, q.instrument, q.at} \subseteq Nat
      /\ {r.id, r.instrument, r.at} \subseteq Nat
  BY PlaceIsPlace
<1>2. o # q => o.id # q.id
  BY PlaceIsPlace
<1>3. QED
  BY <1>1, <1>2 DEF Precedes

LEMMA OrderIsOrder ==
  /\ Len(OrderedIds) = Total /\ DOMAIN OrderedIds = 1..Total
  /\ OrderedIds \in Seq(Nat)
  /\ \A i, k \in 1..Total : OrderedIds[i] = OrderedIds[k] => i = k
<1>1. Total \in Nat /\ DOMAIN Observations = 1..Total
  BY ObservationsAssumption DEF Total
<1>2. PICK S : S = ToSet(Observations)
  OBVIOUS
<1>3. /\ IsFiniteSet(S) /\ Cardinality(S) = Total
      /\ \A o \in S : o.id \in Nat
      /\ \A o, q \in S : o.id = q.id => o = q
  BY <1>2, PlaceIsPlace
<1>4. ASSUME NEW o \in S
      PROVE  Place(o) \in 1..Total
  <2>1. PICK B : B = {q \in S : Precedes(q, o)}
    OBVIOUS
  <2>2. B \in SUBSET S /\ o \notin B
    BY <1>2, <2>1, PrecedesOrders
  <2>3. IsFiniteSet(B) /\ Cardinality(B) <= Total /\ Cardinality(B) # Total /\ Cardinality(B) \in Nat
    BY <1>3, <1>4, <2>2, FS_Subset, FS_CardinalityType
  <2>4. Place(o) = Cardinality(B) + 1
    BY <1>2, <2>1 DEF Place
  <2>5. QED
    BY <1>1, <2>3, <2>4
<1>5. ASSUME NEW o \in S, NEW q \in S, Precedes(o, q)
      PROVE  Place(o) < Place(q)
  <2>1. PICK B : B = {r \in S : Precedes(r, o)}
    OBVIOUS
  <2>2. PICK C : C = {r \in S : Precedes(r, q)}
    OBVIOUS
  <2>3. B \subseteq C /\ o \in C /\ o \notin B
    BY <1>2, <1>5, <2>1, <2>2, PrecedesOrders
  <2>4. IsFiniteSet(C) /\ Cardinality(C) \in Nat
    BY <1>3, <2>2, FS_Subset, FS_CardinalityType
  <2>5. IsFiniteSet(B) /\ Cardinality(B) <= Cardinality(C) /\ Cardinality(B) # Cardinality(C)
    BY <2>3, <2>4, FS_Subset
  <2>6. Cardinality(B) \in Nat
    BY <2>5, FS_CardinalityType
  <2>7. Place(o) = Cardinality(B) + 1 /\ Place(q) = Cardinality(C) + 1
    BY <1>2, <2>1, <2>2 DEF Place
  <2>8. QED
    BY <2>4, <2>5, <2>6, <2>7
<1>6. \A o, q \in S : Place(o) = Place(q) => o = q
  <2>1. SUFFICES ASSUME NEW o \in S, NEW q \in S, o # q PROVE Place(o) # Place(q)
    OBVIOUS
  <2>2. Place(o) < Place(q) \/ Place(q) < Place(o)
    BY <1>2, <1>5, <2>1, PrecedesOrders
  <2>3. Place(o) \in Int /\ Place(q) \in Int
    BY <1>4
  <2>4. QED
    BY <2>2, <2>3
<1>7. ASSUME NEW i \in 1..Total
      PROVE  Ordered[i] \in S /\ Place(Ordered[i]) = i
  <2>8. PICK f : f = [o \in S |-> Place(o)]
    OBVIOUS
  <2>9. f \in [S -> 1..Total] /\ \A o \in S : f[o] = Place(o)
    BY <1>4, <2>8
  <2>10. \A o, q \in S : f[o] = f[q] => o = q
    BY <1>6, <2>9
  <2>1. f \in Injection(S, 1..Total)
    BY <2>9, <2>10 DEF Injection, IsInjective
  <2>2. IsFiniteSet(1..Total) /\ Cardinality(1..Total) = Total
    BY <1>1, FS_Interval
  <2>3. f \in Surjection(S, 1..Total)
    BY <1>3, <2>1, <2>2, FS_Injection
  <2>4. \E o \in S : f[o] = i
    BY <2>3 DEF Surjection
  <2>5. \E o \in S : Place(o) = i
    BY <2>4, <2>9
  <2>6. Ordered[i] = CHOOSE o \in S : Place(o) = i
    BY <1>1, <1>2 DEF Ordered
  <2>7. QED
    BY <2>5, <2>6
<1>8. DOMAIN Ordered = 1..Total
  BY <1>1 DEF Ordered
<1>9. OrderedIds = [i \in 1..Total |-> Ordered[i].id]
  BY <1>8 DEF OrderedIds
<1>10. \A i \in 1..Total : OrderedIds[i] = Ordered[i].id /\ OrderedIds[i] \in Nat
  BY <1>3, <1>7, <1>9
<1>11. OrderedIds \in [1..Total -> Nat]
  BY <1>9, <1>10
<1>12. OrderedIds \in Seq(Nat) /\ Len(OrderedIds) = Total /\ DOMAIN OrderedIds = 1..Total
  BY <1>1, <1>11
<1>13. ASSUME NEW i \in 1..Total, NEW k \in 1..Total, OrderedIds[i] = OrderedIds[k]
       PROVE  i = k
  <2>1. Ordered[i] = Ordered[k]
    BY <1>3, <1>7, <1>10, <1>13
  <2>2. QED
    BY <1>7, <2>1
<1>14. QED
  BY <1>12, <1>13

LEMMA FirstLeft ==
  ASSUME NEW n \in Nat, NEW k \in 0..(n - 1)
  PROVE  Min((k + 1)..n) = k + 1
<1>1. (k + 1) \in (k + 1)..n /\ \A j \in (k + 1)..n : k + 1 <= j
  OBVIOUS
<1>2. \A x \in (k + 1)..n : (\A j \in (k + 1)..n : x <= j) => x = k + 1
  BY <1>1
<1>3. QED
  BY <1>1, <1>2 DEF Min

\* What a replay goes on with.
LEMMA NextIs ==
  ASSUME NEW state, NEW rs, NEW k \in 0..Total, ProperAt(state, k, rs)
  PROVE  /\ Unprocessed(state) = {} <=> k = Total
         /\ k # Total => NextOf(state) = OrderedIds[k + 1] /\ k \in 0..(Total - 1)
<1>1. Total \in Nat
  BY PlaceIsPlace
<1>2. state.ordered = OrderedIds /\ state.processed = [i \in 1..k |-> OrderedIds[i]]
  BY DEF ProperAt
<1>3. ToSet(state.processed) = {OrderedIds[i] : i \in 1..k}
  BY <1>2 DEF ToSet
<1>4. Unprocessed(state) = {i \in 1..Total : OrderedIds[i] \notin {OrderedIds[m] : m \in 1..k}}
  BY <1>2, <1>3, OrderIsOrder DEF Unprocessed
<1>5. Unprocessed(state) = (k + 1)..Total
  <2>1. ASSUME NEW i \in 1..Total
        PROVE  OrderedIds[i] \in {OrderedIds[m] : m \in 1..k} <=> i <= k
    <3>1. 1..k \subseteq 1..Total
      BY <1>1
    <3>2. QED
      BY <1>1, <3>1, OrderIsOrder
  <2>2. QED
    BY <1>1, <1>4, <2>1
<1>6. ASSUME k # Total PROVE k \in 0..(Total - 1) /\ NextOf(state) = OrderedIds[k + 1]
  <2>1. k \in 0..(Total - 1)
    BY <1>1, <1>6
  <2>2. NextOf(state) = OrderedIds[Min((k + 1)..Total)]
    BY <1>2, <1>5 DEF NextOf
  <2>3. QED
    BY <1>1, <2>1, <2>2, FirstLeft
<1>7. (k + 1)..Total = {} <=> k = Total
  BY <1>1
<1>8. QED
  BY <1>5, <1>6, <1>7

\* Passing the next observation, with its receipt if it was decided about.
LEMMA Advances ==
  ASSUME NEW state, NEW rs, NEW k \in 0..(Total - 1), ProperAt(state, k, rs),
         NEW id, id = OrderedIds[k + 1], NEW after,
         \/ /\ id \notin Decided
            /\ after = [state EXCEPT !.processed = Append(@, id)]
         \/ /\ id \in Decided /\ rs[id] # Nil
            /\ after = [state EXCEPT !.processed = Append(@, id), !.paths = @ \cup {id}]
  PROVE  Proper(after, rs)
<1>1. Total \in Nat /\ k \in Nat /\ k + 1 \in 0..Total /\ k # Total
  BY PlaceIsPlace
<1>2. /\ DOMAIN state = {"status", "ordered", "processed", "paths", "gaps"}
      /\ state.ordered = OrderedIds /\ state.processed = [i \in 1..k |-> OrderedIds[i]]
      /\ state.paths = {OrderedIds[i] : i \in 1..k} \cap Decided
      /\ state.status # "COMPLETE"
      /\ \A d \in state.paths : rs[d] # Nil
  BY <1>1 DEF ProperAt
<1>3. Append(state.processed, id) = [i \in 1..(k + 1) |-> OrderedIds[i]]
  <2>1. state.processed \in Seq(Nat) /\ Len(state.processed) = k
    <3>1. \A i \in 1..k : OrderedIds[i] \in Nat
      BY <1>1, OrderIsOrder
    <3>2. state.processed \in [1..k -> Nat]
      BY <1>2, <3>1
    <3>3. QED
      BY <1>1, <3>2
  <2>2. id \in Nat
    BY <1>1, OrderIsOrder
  <2>3. PICK s : s = Append(state.processed, id)
    OBVIOUS
  <2>4. /\ s \in Seq(Nat) /\ Len(s) = k + 1
        /\ \A i \in 1..k : s[i] = state.processed[i]
        /\ s[k + 1] = id
    BY <2>1, <2>2, <2>3, AppendProperties
  <2>5. DOMAIN s = 1..(k + 1) /\ s = [i \in DOMAIN s |-> s[i]]
    BY <2>4
  <2>6. \A i \in 1..(k + 1) : s[i] = OrderedIds[i]
    <3>1. \A i \in 1..(k + 1) : i \in 1..k \/ i = k + 1
      BY <1>1
    <3>2. QED
      BY <1>2, <2>4, <3>1
  <2>7. QED
    BY <2>3, <2>5, <2>6
<1>4. {OrderedIds[i] : i \in 1..(k + 1)} = {OrderedIds[i] : i \in 1..k} \cup {id}
  <2>1. 1..(k + 1) = (1..k) \cup {k + 1}
    BY <1>1
  <2>2. QED
    BY <2>1
<1>5. /\ DOMAIN after = DOMAIN state /\ after.ordered = state.ordered /\ after.status = state.status
      /\ after.processed = Append(state.processed, id)
      /\ after.paths = {OrderedIds[i] : i \in 1..(k + 1)} \cap Decided
  <2>1. CASE id \notin Decided
    <3>1. after = [state EXCEPT !.processed = Append(@, id)]
      BY <2>1
    <3>2. after.paths = state.paths
      BY <1>2, <3>1
    <3>3. QED
      BY <1>2, <1>4, <2>1, <3>1, <3>2
  <2>2. CASE id \in Decided
    <3>1. after = [state EXCEPT !.processed = Append(@, id), !.paths = @ \cup {id}]
      BY <2>2
    <3>2. after.paths = state.paths \cup {id}
      BY <1>2, <3>1
    <3>3. QED
      BY <1>2, <1>4, <2>2, <3>1, <3>2
  <2>3. QED
    BY <2>1, <2>2
<1>6. \A d \in after.paths : rs[d] # Nil
  BY <1>2, <1>4, <1>5
<1>7. ProperAt(after, k + 1, rs)
  BY <1>2, <1>3, <1>5, <1>6 DEF ProperAt
<1>8. QED
  BY <1>1, <1>7 DEF Proper

LEMMA Begins == \A rs : Proper(Running, rs)
<1>1. 0 \in 0..Total
  BY PlaceIsPlace
<1>2. ASSUME NEW rs PROVE ProperAt(Running, 0, rs)
  <2>1. 1..0 = {}
    OBVIOUS
  <2>2. [i \in 1..0 |-> OrderedIds[i]] = <<>>
    BY <2>1
  <2>3. {OrderedIds[i] : i \in 1..0} = {}
    BY <2>1
  <2>4. /\ DOMAIN Running = {"status", "ordered", "processed", "paths", "gaps"}
        /\ Running.ordered = OrderedIds /\ Running.processed = <<>> /\ Running.paths = {}
        /\ Running.status # "COMPLETE"
    BY DEF Running
  <2>5. QED
    BY <2>2, <2>3, <2>4 DEF ProperAt
<1>3. QED
  BY <1>1, <1>2 DEF Proper

LEMMA Completes ==
  ASSUME NEW state, NEW rs, Proper(state, rs), Unprocessed(state) = {}
  PROVE  Proper([state EXCEPT !.status = "COMPLETE"], rs)
<1>1. PICK k \in 0..Total : ProperAt(state, k, rs)
  BY DEF Proper
<1>2. k = Total
  BY <1>1, NextIs
<1>3. ProperAt([state EXCEPT !.status = "COMPLETE"], k, rs)
  BY <1>1, <1>2 DEF ProperAt
<1>4. QED
  BY <1>3 DEF Proper

-----------------------------------------------------------------------------

LEMMA RankType == \A s \in CapabilityStates : Rank(s) \in 1..10
<1>1. DOMAIN CAPABILITY_STATES = 1..10
  BY DEF CAPABILITY_STATES
<1>2. \A s \in CapabilityStates : \E i \in 1..10 : CAPABILITY_STATES[i] = s
  BY <1>1 DEF CapabilityStates, ToSet
<1>3. QED
  BY <1>1, <1>2 DEF Rank

LEMMA PreregisteredIsState == "PREREGISTERED" \in CapabilityStates
<1>1. DOMAIN CAPABILITY_STATES = 1..10 /\ CAPABILITY_STATES[3] = "PREREGISTERED"
  BY DEF CAPABILITY_STATES
<1>2. QED
  BY <1>1 DEF CapabilityStates, ToSet

\* Rounding down to a step.
LEMMA FloorIs ==
  ASSUME NEW x \in Int, NEW s \in Nat \ {0}
  PROVE  Floor(x, s) \in Int /\ Floor(x, s) <= x /\ Floor(x, s) % s = 0
<1>1. Floor(x, s) \in Int
  BY DEF Floor
<1>2. Floor(x, s) <= x
  BY DEF Floor
<1>3. Floor(x, s) % s = 0
  BY DEF Floor
<1>4. QED
  BY <1>1, <1>2, <1>3

\* What is filled is neither beyond what was asked nor beyond the capacity.
LEMMA FillIs ==
  ASSUME NEW id \in Decided, NEW a \in Assumptions
  PROVE  /\ FillQuantity(Request(id), a) \in Int
         /\ FillQuantity(Request(id), a) <= Request(id).quantity
         /\ FillQuantity(Request(id), a) <= a.capacity
         /\ FillQuantity(Request(id), a) % a.quantity_step = 0
<1>1. PICK q \in Nat \ {0} : q = Request(id).quantity
  BY DecisionsAssumption DEF Request
<1>2. a.capacity \in Nat /\ a.quantity_step \in Nat \ {0} /\ a.fill_ratio \in 0..100
  BY ExecutionAssumption
<1>3. PICK c \in Nat : c = a.capacity
  BY <1>2
<1>4. PICK f \in 0..100 : f = a.fill_ratio
  BY <1>2
<1>5. PICK w \in Nat : w = q * f
  <2>1. q * f \in Nat
    OBVIOUS
  <2>2. QED
    BY <2>1
<1>6. w <= q * 100
  BY <1>5
<1>7. PICK m \in Nat : m = IF w < c * 100 THEN w ELSE c * 100
  OBVIOUS
<1>8. m <= q * 100 /\ m <= c * 100
  BY <1>6, <1>7
<1>9. m \div 100 \in Int /\ m \div 100 <= q /\ m \div 100 <= c
  BY <1>8
<1>10. FillQuantity(Request(id), a) = Floor(m \div 100, a.quantity_step)
  BY <1>1, <1>3, <1>4, <1>5, <1>7 DEF FillQuantity
<1>11. PICK x \in Int : x = m \div 100
  BY <1>9
<1>12. /\ Floor(x, a.quantity_step) \in Int /\ Floor(x, a.quantity_step) <= x
       /\ Floor(x, a.quantity_step) % a.quantity_step = 0
  BY <1>2, FloorIs
<1>13. QED
  BY <1>1, <1>3, <1>9, <1>10, <1>11, <1>12

LEMMA PriceIs ==
  ASSUME NEW id \in Decided, NEW a \in Assumptions
  PROVE  ModeledPrice(Request(id), ObservationOf(id).close, a) \in Int
<1>1. ObservationOf(id).close \in Nat
  <2>1. PICK R : R = [id : Nat, instrument : Nat, at : Nat, close : Nat]
    OBVIOUS
  <2>2. Observations \in Seq(R)
    BY <2>1, ObservationsAssumption
  <2>3. ToSet(Observations) \subseteq R
    BY <2>2 DEF ToSet
  <2>4. \E o \in ToSet(Observations) : o.id = id
    BY ObservationsAssumption DEF ToSet, Ids
  <2>5. ObservationOf(id) \in ToSet(Observations)
    BY <2>4 DEF ObservationOf
  <2>6. \A o \in R : o.close \in Nat
    BY <2>1
  <2>7. QED
    BY <2>3, <2>5, <2>6
<1>2. a.penalty_bps \in Nat /\ a.price_step \in Nat \ {0}
  BY ExecutionAssumption
<1>3. PICK c \in Nat : c = ObservationOf(id).close
  BY <1>1
<1>4. PICK d \in Int : d = Direction(Request(id).side)
  BY DEF Direction
<1>5. PICK b \in Nat : b = a.penalty_bps
  BY <1>2
<1>6. PICK x \in Int : x = 10000 + d * b
  OBVIOUS
<1>7. PICK y \in Int : y = c * x
  OBVIOUS
<1>8. PICK z \in Int : z = y \div 10000
  OBVIOUS
<1>9. ModeledPrice(Request(id), ObservationOf(id).close, a) = Floor(z, a.price_step)
  BY <1>3, <1>4, <1>5, <1>6, <1>7, <1>8 DEF ModeledPrice
<1>10. QED
  BY <1>2, <1>9, FloorIs

\* The adapter fills within the request and the assumptions, or not at all.
LEMMA AdapterRespects ==
  ASSUME NEW id \in Decided, NEW a \in Assumptions
  PROVE  Respects(Request(id), ResultOf(id, a), a)
<1>1. PICK q : q = FillQuantity(Request(id), a)
  OBVIOUS
<1>2. PICK price : price = ModeledPrice(Request(id), ObservationOf(id).close, a)
  OBVIOUS
<1>3. q \in Int /\ q <= Request(id).quantity /\ q <= a.capacity /\ q % a.quantity_step = 0
  BY <1>1, FillIs
<1>4. price \in Int
  BY <1>2, PriceIs
<1>5. PICK notional \in Int : notional = q * price
  BY <1>3, <1>4
<1>6. a.minimum_notional \in Nat /\ Request(id).quantity \in Nat
  BY ExecutionAssumption, DecisionsAssumption DEF Request
<1>7. PICK fill : fill = [side |-> Request(id).side, quantity |-> q, price |-> price,
                         notional |-> notional, fee |-> notional * a.fee_bps]
  OBVIOUS
<1>8. PICK filled : filled = [status |-> IF q = Request(id).quantity THEN "FILLED" ELSE "PARTIALLY_FILLED",
                              fills |-> <<fill>>, reason |-> "none"]
  OBVIOUS
<1>9. PICK marketable \in BOOLEAN : marketable <=> Marketable(Request(id), price)
  OBVIOUS
<1>10. ResultOf(id, a) =
         CASE ~ marketable -> NoFill(Request(id), "limit_not_marketable")
           [] q <= 0 -> NoFill(Request(id), "quantity_below_precision_or_capacity")
           [] q > 0 /\ marketable /\ notional < a.minimum_notional ->
                NoFill(Request(id), "minimum_notional_not_met")
           [] OTHER -> filled
  BY <1>1, <1>2, <1>5, <1>7, <1>8, <1>9 DEF ResultOf, Execute
<1>11. \/ \E reason : ResultOf(id, a) = NoFill(Request(id), reason)
       \/ /\ marketable /\ ~ (q <= 0) /\ ~ (notional < a.minimum_notional)
          /\ ResultOf(id, a) = filled
  BY <1>3, <1>10
<1>12. CASE \E reason : ResultOf(id, a) = NoFill(Request(id), reason)
  <2>1. ResultOf(id, a).fills = <<>>
    BY <1>12 DEF NoFill
  <2>2. DOMAIN ResultOf(id, a).fills = {}
    BY <2>1
  <2>3. QED
    BY <2>2 DEF Respects
<1>13. CASE /\ marketable /\ ~ (q <= 0) /\ ~ (notional < a.minimum_notional)
            /\ ResultOf(id, a) = filled
  <2>1. /\ fill.quantity = q /\ fill.price = price /\ fill.notional = notional
    BY <1>7
  <2>2. filled.fills = <<fill>> /\ (filled.status = "FILLED" => q = Request(id).quantity)
    BY <1>8
  <2>3. DOMAIN filled.fills = {1} /\ filled.fills[1] = fill
    BY <2>2
  <2>4. q \in 1..Request(id).quantity /\ notional >= a.minimum_notional
    BY <1>3, <1>5, <1>6, <1>13
  <2>5. Marketable(Request(id), fill.price)
    BY <1>9, <1>13, <2>1
  <2>6. \A i \in DOMAIN filled.fills : filled.fills[i] = fill
    BY <2>3
  <2>7. Respects(Request(id), filled, a)
    BY <1>3, <2>1, <2>2, <2>4, <2>5, <2>6 DEF Respects
  <2>8. QED
    BY <1>13, <2>7
<1>14. QED
  BY <1>11, <1>12, <1>13

\* What an entry says stands when receipts are added and the capability rises.
Grown(rs, after) == \A id \in Decided : rs[id] # Nil => after[id] # Nil
Risen(c, after) == Registered(c) => Registered(after)

LEMMA EntryStands ==
  ASSUME NEW id \in Decided, NEW m, NEW rs, NEW c, Entry(id, m, rs, c),
         NEW rs2, NEW c2, Grown(rs, rs2), Risen(c, c2)
  PROVE  Entry(id, m, rs2, c2)
<1>1. rs[id] # Nil => rs2[id] # Nil
  BY DEF Grown
<1>2. Registered(c) => Registered(c2)
  BY DEF Risen
<1>3. QED
  BY <1>1, <1>2 DEF Entry

LEMMA ProperStands ==
  ASSUME NEW state, NEW rs, NEW k, ProperAt(state, k, rs), NEW rs2, NEW c, NEW c2, Grown(rs, rs2)
  PROVE  ProperAt(state, k, rs2)
<1>1. state.paths \subseteq Decided
  BY DEF ProperAt
<1>2. QED
  BY <1>1 DEF ProperAt, Grown

LEMMA StepStands ==
  ASSUME NEW s, NEW rs, NEW c, ProcessStep(s, rs, c),
         NEW rs2, NEW c2, Grown(rs, rs2), Risen(c, c2)
  PROVE  ProcessStep(s, rs2, c2)
<1>1. s.at \in Busy => s.id \in Decided
  BY DEF ProcessStep
<1>2. Loaded \subseteq Busy /\ {"receipt", "finalize"} \subseteq Busy /\ {"finalize", "record"} \subseteq Busy
  BY DEF Busy, Loaded
<1>3. s.at \in Loaded => Entry(s.id, s.memory, rs2, c2)
  BY <1>1, <1>2, EntryStands DEF ProcessStep
<1>4. s.at \in {"finalize", "record"} => rs2[s.id] # Nil
  BY <1>1, <1>2 DEF ProcessStep, Grown
<1>5. s.at = "next" => Proper(s.replay, rs2)
  BY ProperStands DEF ProcessStep, Proper
<1>6. s.at \in Busy /\ s.replay # Nil =>
        \E k \in 0..(Total - 1) : ProperAt(s.replay, k, rs2) /\ s.id = OrderedIds[k + 1]
  BY ProperStands DEF ProcessStep
<1>7. QED
  BY <1>3, <1>4, <1>5, <1>6 DEF ProcessStep

\* An entry that is accounted for and allowed is one of those it may be.
LEMMA EntryIsFinished ==
  ASSUME NEW id \in Decided, NEW m, NEW rs, NEW c, Entry(id, m, rs, c),
         m.stage \in {"ACCOUNTED", "FINALIZED"}
  PROVE  m \in FinishedJournals(id)
<1>1. m.authorization \in Allowed /\ m.assumptions \in Assumptions
  BY DEF Entry
<1>2. PICK t \in 0..MaxRuns : m.authorization = [allowed |-> TRUE, reasons |-> {}, at |-> t]
  BY <1>1 DEF Allowed
<1>3. PICK e : e = <<m.stage, m.assumptions, t>>
  OBVIOUS
<1>4. e \in {"ACCOUNTED", "FINALIZED"} \X Assumptions \X (0..MaxRuns) /\ e[1] = m.stage /\ e[2] = m.assumptions /\ e[3] = t
  BY <1>1, <1>2, <1>3
<1>5. m = [stage |-> m.stage, input |-> m.input, assumptions |-> m.assumptions,
           authorization |-> m.authorization, result |-> m.result, accounting |-> m.accounting]
  BY DEF Entry
<1>6. /\ m.input = InputHash(id, e[2]) /\ m.result = Execute(Request(id), ObservationOf(id), e[2])
      /\ m.accounting = Accounting(Request(id), Execute(Request(id), ObservationOf(id), e[2]), ObservationOf(id).close)
  BY <1>4 DEF Entry, ResultOf, AccountingOf
<1>7. m = [stage |-> e[1], input |-> InputHash(id, e[2]), assumptions |-> e[2],
    authorization |-> [allowed |-> TRUE, reasons |-> {}, at |-> e[3]],
    result |-> Execute(Request(id), ObservationOf(id), e[2]),
    accounting |-> Accounting(Request(id), Execute(Request(id), ObservationOf(id), e[2]),
                              ObservationOf(id).close)]
  BY <1>2, <1>4, <1>5, <1>6
<1>8. QED
  BY <1>4, <1>7 DEF FinishedJournals

LEMMA FinishedIs ==
  ASSUME NEW id \in Decided, NEW m \in FinishedJournals(id)
  PROVE  /\ m # Nil /\ ReceiptOf(id, m) # Nil
         /\ m.stage \in {"ACCOUNTED", "FINALIZED"}
         /\ m.assumptions \in Assumptions /\ m.authorization.allowed
         /\ m.result = ResultOf(id, m.assumptions)
         /\ m.accounting = AccountingOf(id, m.assumptions)
<1>1. m # Nil /\ ReceiptOf(id, m) # Nil
  BY NilAssumption
<1>2. PICK e \in {"ACCOUNTED", "FINALIZED"} \X Assumptions \X (0..MaxRuns) :
        m = [stage |-> e[1], input |-> InputHash(id, e[2]), assumptions |-> e[2],
             authorization |-> [allowed |-> TRUE, reasons |-> {}, at |-> e[3]],
             result |-> Execute(Request(id), ObservationOf(id), e[2]),
             accounting |-> Accounting(Request(id), Execute(Request(id), ObservationOf(id), e[2]),
                                       ObservationOf(id).close)]
  BY DEF FinishedJournals
<1>3. e[1] \in {"ACCOUNTED", "FINALIZED"} /\ e[2] \in Assumptions
  OBVIOUS
<1>4. m.stage = e[1] /\ m.assumptions = e[2] /\ m.authorization.allowed
  BY <1>2
<1>5. m.result = ResultOf(id, e[2]) /\ m.accounting = AccountingOf(id, e[2])
  BY <1>2 DEF ResultOf, AccountingOf
<1>6. QED
  BY <1>1, <1>3, <1>4, <1>5

\* What is allowed was allowed to a capability that was registered by then.
LEMMA AllowedIs ==
  ASSUME NEW request, NEW c, NEW g, NEW t \in 0..MaxRuns, c.state \in CapabilityStates,
         Authorize(request, c, g, t).allowed
  PROVE  Authorize(request, c, g, t) \in Allowed /\ Registered(c)
<1> DEFINE reasons ==
        (IF request.capability # c.id THEN {"capability_mismatch"} ELSE {})
        \cup (IF Rank(c.state) < Rank("PREREGISTERED")
                THEN {"capability_not_preregistered"} ELSE {})
        \cup (IF ZeroExposure(g) THEN {} ELSE {"governor_snapshot_unexpected"})
<1>2. Authorize(request, c, g, t) = [allowed |-> reasons = {}, reasons |-> reasons, at |-> t]
  BY Zenon DEF Authorize
<1>9. ASSUME NEW x, NEW y, x = [allowed |-> y = {}, reasons |-> y, at |-> t], x.allowed PROVE y = {}
  BY <1>9
<1>3. reasons = {}
  <2> HIDE DEF reasons
  <2>1. QED
    BY <1>2, <1>9
<1>4. ~ (Rank(c.state) < Rank("PREREGISTERED"))
  BY <1>3
<1>5. Registered(c)
  BY <1>4, RankType, PreregisteredIsState DEF Registered
<1>6. (reasons = {}) = TRUE
  BY <1>3
<1>7. Authorize(request, c, g, t) = [allowed |-> TRUE, reasons |-> {}, at |-> t]
  <2> HIDE DEF reasons
  <2>1. QED
    BY <1>2, <1>3, <1>6, Zenon
<1>8. QED
  BY <1>5, <1>7 DEF Allowed

-----------------------------------------------------------------------------

LEMMA NilIsNone == Nil \notin Decided /\ Loaded \subseteq Busy
  BY NilAssumption, ObservationsAssumption DEF Busy

LEMMA Going ==
  ASSUME ShapeInv, NEW p \in Processes, NEW s, Goes(p, s)
  PROVE  /\ DOMAIN proc' = Processes /\ proc'[p] = s
         /\ \A q \in Processes \ {p} : proc'[q] = proc[q]
BY DEF ShapeInv, Goes

LEMMA LogStands ==
  ASSUME LogInv, UNCHANGED <<transitions, capability>>
  PROVE  LogInv'
BY DEF LogInv

\* A process goes on with its operation, or leaves it.
LEMMA Works ==
  ASSUME ShadowInv, NEW p \in Processes, NEW s, Goes(p, s),
         ProcessStep(s, receipts', capability),
         UNCHANGED <<capability, transitions, shared>>, runs' \in 0..MaxRuns,
         checkpoint' # Nil => Proper(checkpoint', receipts'),
         NEW id, id = proc[p].id,
         \/ s.id = Nil /\ UNCHANGED <<journal, receipts>>
         \/ /\ s.id = id /\ id \in Decided /\ s.at \in Loaded
            /\ \/ journal' = [journal EXCEPT ![id] = s.memory]
               \/ journal' = journal /\ proc[p].at \in Loaded /\ s.memory = proc[p].memory
            /\ \/ receipts' = receipts
               \/ /\ Registered(capability)
                  /\ \E m \in FinishedJournals(id) : receipts' = [receipts EXCEPT ![id] = ReceiptOf(id, m)]
            /\ id \notin shared /\ receipts'[id] # Nil =>
                 s.memory \in FinishedJournals(id) /\ receipts'[id] = ReceiptOf(id, s.memory)
  PROVE  ShadowInv'
<1>1. /\ ShapeInv /\ EntriesInv /\ EarnedInv /\ StepsInv /\ CheckpointInv
      /\ MetInv /\ AloneInv /\ AgreeInv /\ LogInv
  BY DEF ShadowInv
<1>2. /\ DOMAIN proc' = Processes /\ proc'[p] = s
      /\ \A q \in Processes \ {p} : proc'[q] = proc[q]
  BY <1>1, Going
<1>3. /\ DOMAIN journal = Decided /\ DOMAIN receipts = Decided
  BY <1>1 DEF ShapeInv
<1>4. /\ DOMAIN journal' = Decided /\ DOMAIN receipts' = Decided
      /\ \A d \in Decided : d # id => journal'[d] = journal[d] /\ receipts'[d] = receipts[d]
  BY <1>3
<1>5. Grown(receipts, receipts') /\ Risen(capability, capability')
  <2>1. ASSUME receipts[id] # Nil, id \in Decided PROVE receipts'[id] # Nil
    BY <1>3, <2>1, FinishedIs
  <2>2. QED
    BY <1>4, <2>1 DEF Grown, Risen
<1>6. ShapeInv'
  BY <1>1, <1>2, <1>4 DEF ShapeInv
<1>7. EntriesInv'
  <2>1. SUFFICES ASSUME NEW d \in Decided, journal'[d] # Nil
                 PROVE  Entry(d, journal'[d], receipts', capability')
    BY DEF EntriesInv
  <2>2. CASE journal'[d] = journal[d]
    BY <1>1, <1>5, <2>1, <2>2, EntryStands DEF EntriesInv
  <2>3. CASE journal'[d] # journal[d]
    <3>1. d = id /\ journal'[d] = s.memory /\ s.at \in Loaded /\ s.id = id
      BY <1>3, <1>4, <2>3
    <3>2. Entry(s.id, s.memory, receipts', capability)
      BY <3>1 DEF ProcessStep
    <3>3. QED
      BY <3>1, <3>2
  <2>4. QED
    BY <2>2, <2>3
<1>8. EarnedInv'
  <2>1. SUFFICES ASSUME NEW d \in Decided, receipts'[d] # Nil
                 PROVE  /\ \E m \in FinishedJournals(d) : receipts'[d] = ReceiptOf(d, m)
                        /\ Registered(capability)
    BY DEF EarnedInv, Registered
  <2>2. CASE receipts'[d] = receipts[d]
    BY <1>1, <2>1, <2>2 DEF EarnedInv
  <2>3. CASE receipts'[d] # receipts[d]
    <3>1. d = id /\ id \in Decided /\ Registered(capability)
      BY <1>3, <1>4, <2>3
    <3>2. \E m \in FinishedJournals(id) : receipts' = [receipts EXCEPT ![id] = ReceiptOf(id, m)]
      BY <2>3, <3>1
    <3>3. QED
      BY <1>3, <3>1, <3>2
  <2>4. QED
    BY <2>2, <2>3
<1>9. StepsInv'
  <2>1. ASSUME NEW q \in Processes PROVE ProcessStep(proc'[q], receipts', capability')
    <3>1. CASE q = p
      BY <1>2, <3>1
    <3>2. CASE q # p
      BY <1>1, <1>2, <1>5, <3>2, StepStands DEF StepsInv
    <3>3. QED
      BY <3>1, <3>2
  <2>2. QED
    BY <2>1 DEF StepsInv
<1>10. CheckpointInv'
  BY DEF CheckpointInv
<1>11. s.id \in {id, Nil}
  OBVIOUS
<1>12. MetInv'
  <2>1. SUFFICES ASSUME NEW q \in Processes, NEW r \in Processes, q # r, proc'[q].id = proc'[r].id
                 PROVE  proc'[q].id \in shared \cup {Nil}
    BY DEF MetInv
  <2>2. SUFFICES ASSUME proc'[q].id # Nil PROVE proc'[q].id \in shared
    OBVIOUS
  <2>3. proc'[q].id = proc[q].id /\ proc'[r].id = proc[r].id
    BY <1>2, <1>11, <2>1, <2>2
  <2>4. QED
    BY <1>1, <2>1, <2>2, <2>3 DEF MetInv
<1>13. AloneInv'
  <2>1. SUFFICES ASSUME NEW q \in Processes, proc'[q].id \notin shared
                 PROVE  /\ proc'[q].at = "prepare" => journal'[proc'[q].id] = Nil
                        /\ proc'[q].at \in Loaded => proc'[q].memory = journal'[proc'[q].id]
    BY DEF AloneInv
  <2>2. CASE q = p /\ s.id = Nil
    <3>1. s.at \notin Busy
      BY <2>2, NilIsNone DEF ProcessStep
    <3>2. s.at # "prepare" /\ s.at \notin Loaded
      BY <3>1 DEF Busy
    <3>3. QED
      BY <1>2, <2>2, <3>2
  <2>3. CASE q = p /\ s.id # Nil
    <3>1. s.id = id /\ id \in Decided /\ s.at \in Loaded /\ id \notin shared
      BY <1>2, <2>1, <2>3
    <3>2. s.at # "prepare"
      BY <3>1 DEF Loaded
    <3>3. CASE journal' = [journal EXCEPT ![id] = s.memory]
      BY <1>2, <1>3, <2>3, <3>1, <3>2, <3>3
    <3>4. CASE journal' = journal /\ proc[p].at \in Loaded /\ s.memory = proc[p].memory
      <4>1. proc[p].memory = journal[id]
        BY <1>1, <3>1, <3>4 DEF AloneInv
      <4>2. QED
        BY <1>2, <2>3, <3>1, <3>2, <3>4, <4>1
    <3>5. QED
      BY <2>3, <3>3, <3>4
  <2>4. CASE q # p
    <3>1. proc'[q] = proc[q]
      BY <1>2, <2>4
    <3>2. SUFFICES ASSUME proc[q].at \in Busy PROVE journal'[proc[q].id] = journal[proc[q].id]
      BY <1>1, <2>1, <3>1 DEF AloneInv, Busy
    <3>3. proc[q].id \in Decided
      BY <1>1, <3>2 DEF StepsInv, ProcessStep
    <3>4. proc[q].id # id
      BY <1>1, <2>1, <2>4, <3>1, <3>3, NilIsNone DEF MetInv
    <3>5. QED
      BY <1>4, <3>3, <3>4
  <2>5. QED
    BY <2>2, <2>3, <2>4
<1>14. AgreeInv'
  <2>1. SUFFICES ASSUME NEW d \in Decided \ shared, receipts'[d] # Nil
                 PROVE  journal'[d] \in FinishedJournals(d) /\ receipts'[d] = ReceiptOf(d, journal'[d])
    BY DEF AgreeInv
  <2>2. CASE d # id \/ s.id = Nil
    <3>1. journal'[d] = journal[d] /\ receipts'[d] = receipts[d]
      BY <1>4, <2>2, NilIsNone
    <3>2. QED
      BY <1>1, <2>1, <3>1 DEF AgreeInv
  <2>3. CASE d = id /\ s.id # Nil
    <3>1. s.id = id /\ s.at \in Loaded
      BY <2>3
    <3>2. s.memory \in FinishedJournals(id) /\ receipts'[id] = ReceiptOf(id, s.memory)
      BY <2>1, <2>3
    <3>3. s.memory = journal'[id]
      BY <1>2, <1>13, <2>1, <2>3, <3>1 DEF AloneInv
    <3>4. QED
      BY <2>3, <3>2, <3>3
  <2>4. QED
    BY <2>2, <2>3
<1>15. LogInv'
  BY <1>1, LogStands
<1>16. QED
  BY <1>6, <1>7, <1>8, <1>9, <1>10, <1>12, <1>13, <1>14, <1>15 DEF ShadowInv

\* A process that has no operation begins or resumes one, or is refused.
LEMMA Looks ==
  ASSUME ShadowInv, NEW p \in Processes, NEW step, NEW id \in Decided, NEW a \in Assumptions,
         Look(p, step, id, a),
         DOMAIN step = {"at", "id", "assumptions", "stamp", "memory", "replay"},
         step.stamp \in 0..MaxRuns,
         step.replay # Nil =>
           \E k \in 0..(Total - 1) : ProperAt(step.replay, k, receipts) /\ id = OrderedIds[k + 1],
         UNCHANGED <<journal, receipts, checkpoint, capability, transitions>>, runs' \in 0..MaxRuns
  PROVE  ShadowInv'
<1>1. /\ ShapeInv /\ EntriesInv /\ EarnedInv /\ StepsInv /\ CheckpointInv
      /\ MetInv /\ AloneInv /\ AgreeInv /\ LogInv
  BY DEF ShadowInv
<1>2. PICK s : s = IF id \in unfit THEN Idle
                   ELSE IF journal[id] = Nil
                     THEN [step EXCEPT !.at = "prepare", !.id = id, !.assumptions = a]
                     ELSE IF journal[id].input = InputHash(id, a)
                            THEN [step EXCEPT !.at = "run", !.id = id, !.assumptions = a,
                                              !.memory = journal[id]]
                            ELSE Idle
  OBVIOUS
<1>3. Goes(p, s)
  BY <1>2 DEF Look
<1>4. \/ /\ journal[id] = Nil /\ s.at = "prepare" /\ s.id = id /\ s.assumptions = a
         /\ DOMAIN s = DOMAIN step /\ s.stamp = step.stamp /\ s.replay = step.replay
      \/ /\ journal[id] # Nil /\ journal[id].input = InputHash(id, a)
         /\ s.at = "run" /\ s.id = id /\ s.assumptions = a /\ s.memory = journal[id]
         /\ DOMAIN s = DOMAIN step /\ s.stamp = step.stamp /\ s.replay = step.replay
      \/ s = Idle
  BY <1>2
<1>5. ProcessStep(s, receipts, capability)
  <2>1. CASE s.at = "prepare" /\ s.id = id /\ s.assumptions = a
             /\ DOMAIN s = DOMAIN step /\ s.stamp = step.stamp /\ s.replay = step.replay
    BY <2>1 DEF ProcessStep, Busy, Loaded
  <2>2. CASE /\ journal[id] # Nil /\ journal[id].input = InputHash(id, a)
             /\ s.at = "run" /\ s.id = id /\ s.assumptions = a /\ s.memory = journal[id]
             /\ DOMAIN s = DOMAIN step /\ s.stamp = step.stamp /\ s.replay = step.replay
    <3>1. Entry(id, journal[id], receipts, capability)
      BY <1>1, <2>2 DEF EntriesInv
    <3>2. journal[id].assumptions = a
      BY <2>2, <3>1 DEF Entry, InputHash
    <3>3. QED
      BY <2>2, <3>1, <3>2 DEF ProcessStep, Busy, Loaded
  <2>3. CASE s = Idle
    <3>1. /\ DOMAIN s = {"at", "id", "assumptions", "stamp", "memory", "replay"}
          /\ s.at = "idle" /\ s.id = Nil /\ s.stamp = 0 /\ s.replay = Nil
      BY <2>3 DEF Idle
    <3>2. QED
      BY <3>1, BoundsAssumption DEF ProcessStep, Busy, Loaded
  <2>4. QED
    BY <1>4, <2>1, <2>2, <2>3
<1>6. /\ DOMAIN proc' = Processes /\ proc'[p] = s
      /\ \A q \in Processes \ {p} : proc'[q] = proc[q]
  BY <1>1, <1>3, Going
<1>7. s.id \in {id, Nil} /\ (s.id = Nil => s.at = "idle")
  BY <1>4, NilIsNone DEF Idle
<1>8. shared \subseteq shared' /\ \A q \in Processes \ {p} : proc[q].id = id => id \in shared'
  BY DEF Look, Others
<1>9. ShapeInv'
  BY <1>1, <1>6 DEF ShapeInv
<1>10. EntriesInv' /\ EarnedInv' /\ CheckpointInv'
  BY <1>1 DEF EntriesInv, EarnedInv, CheckpointInv, Registered
<1>11. StepsInv'
  BY <1>1, <1>5, <1>6 DEF StepsInv
<1>12. MetInv'
  <2>1. SUFFICES ASSUME NEW q \in Processes, NEW r \in Processes, q # r, proc'[q].id = proc'[r].id,
                        proc'[q].id # Nil
                 PROVE  proc'[q].id \in shared'
    BY DEF MetInv
  <2>2. CASE q = p \/ r = p
    BY <1>6, <1>7, <1>8, <2>1, <2>2
  <2>3. CASE q # p /\ r # p
    BY <1>1, <1>6, <1>8, <2>1, <2>3 DEF MetInv
  <2>4. QED
    BY <2>2, <2>3
<1>13. AloneInv'
  <2>1. SUFFICES ASSUME NEW q \in Processes, proc'[q].id \notin shared'
                 PROVE  /\ proc'[q].at = "prepare" => journal[proc'[q].id] = Nil
                        /\ proc'[q].at \in Loaded => proc'[q].memory = journal[proc'[q].id]
    BY DEF AloneInv
  <2>2. CASE q = p
    BY <1>4, <1>6, <2>2 DEF Loaded, Idle
  <2>3. CASE q # p
    BY <1>1, <1>6, <1>8, <2>1, <2>3 DEF AloneInv
  <2>4. QED
    BY <2>2, <2>3
<1>14. AgreeInv'
  BY <1>1, <1>8 DEF AgreeInv
<1>15. LogInv'
  BY <1>1, LogStands
<1>16. QED
  BY <1>9, <1>10, <1>11, <1>12, <1>13, <1>14, <1>15 DEF ShadowInv

-----------------------------------------------------------------------------

LEMMA IdleIs == \A rs, c : ProcessStep(Idle, rs, c)
<1>1. /\ DOMAIN Idle = {"at", "id", "assumptions", "stamp", "memory", "replay"}
      /\ Idle.at = "idle" /\ Idle.id = Nil /\ Idle.stamp = 0 /\ Idle.replay = Nil
  BY DEF Idle
<1>2. QED
  BY <1>1, BoundsAssumption DEF ProcessStep, Busy, Loaded

LEMMA Leaving ==
  ASSUME ShadowInv, NEW p \in Processes, Goes(p, Idle),
         UNCHANGED <<journal, receipts, capability, transitions, runs, shared>>,
         checkpoint' # Nil => Proper(checkpoint', receipts)
  PROVE  ShadowInv'
<1>1. ProcessStep(Idle, receipts', capability) /\ Idle.id = Nil
  BY IdleIs DEF Idle
<1>2. runs' \in 0..MaxRuns
  BY DEF ShadowInv, ShapeInv
<1>3. checkpoint' # Nil => Proper(checkpoint', receipts')
  OBVIOUS
<1>4. PICK id : id = proc[p].id
  OBVIOUS
<1>5. QED
  BY <1>1, <1>2, <1>3, <1>4, Works

LEMMA Saving ==
  ASSUME ShadowInv, NEW p \in Processes, NEW state, Proper(state, receipts), Save(p, state, "next"),
         proc[p].at # "idle"
  PROVE  ShadowInv'
<1>1. ProcessStep(proc[p], receipts, capability) /\ runs \in 0..MaxRuns
  BY DEF ShadowInv, StepsInv, ShapeInv
<1>2. PICK s : s = [proc[p] EXCEPT !.at = "next", !.replay = state, !.id = Nil, !.memory = Nil]
  OBVIOUS
<1>3. Goes(p, s) /\ checkpoint' = state
      /\ UNCHANGED <<journal, receipts, capability, governor, transitions, runs, crashes, shared>>
  BY <1>2 DEF Save
<1>4. /\ DOMAIN s = {"at", "id", "assumptions", "stamp", "memory", "replay"}
      /\ s.at = "next" /\ s.id = Nil /\ s.replay = state
      /\ s.stamp = proc[p].stamp /\ s.assumptions = proc[p].assumptions
  BY <1>1, <1>2 DEF ProcessStep
<1>5. ProcessStep(s, receipts', capability)
  BY <1>1, <1>3, <1>4 DEF ProcessStep, Busy, Loaded
<1>6. PICK id : id = proc[p].id
  OBVIOUS
<1>7. QED
  BY <1>1, <1>3, <1>4, <1>5, <1>6, Works

\* Nothing was received while the journal has not come to be accounted for.
LEMMA EarlyIsUnreceived ==
  ASSUME ShadowInv, NEW p \in Processes, proc[p].id \in Decided, proc[p].id \notin shared,
         \/ proc[p].at = "prepare"
         \/ proc[p].at \in Loaded /\ proc[p].memory.stage \notin {"ACCOUNTED", "FINALIZED"}
  PROVE  receipts[proc[p].id] = Nil
<1>1. AloneInv /\ AgreeInv
  BY DEF ShadowInv
<1>2. SUFFICES ASSUME receipts[proc[p].id] # Nil PROVE FALSE
  OBVIOUS
<1>3. journal[proc[p].id] \in FinishedJournals(proc[p].id)
  BY <1>1, <1>2 DEF AgreeInv
<1>4. journal[proc[p].id] # Nil /\ journal[proc[p].id].stage \in {"ACCOUNTED", "FINALIZED"}
  BY <1>3, FinishedIs
<1>5. QED
  BY <1>1, <1>4 DEF AloneInv

LEMMA Storing ==
  ASSUME ShadowInv, NEW p \in Processes, proc[p].at \in {"prepare", "run", "finalize"},
         NEW id, id = proc[p].id, NEW m, Store(p, m, "run"),
         Entry(id, m, receipts, capability), m.assumptions = proc[p].assumptions,
         UNCHANGED <<receipts, checkpoint, capability, transitions, runs, shared>>,
         id \notin shared /\ receipts[id] # Nil =>
           m \in FinishedJournals(id) /\ receipts[id] = ReceiptOf(id, m)
  PROVE  ShadowInv'
<1>1. ProcessStep(proc[p], receipts, capability) /\ runs \in 0..MaxRuns /\ CheckpointInv
  BY DEF ShadowInv, StepsInv, ShapeInv
<1>2. PICK s : s = [proc[p] EXCEPT !.memory = m, !.at = "run"]
  OBVIOUS
<1>3. Goes(p, s) /\ journal' = [journal EXCEPT ![id] = m]
  BY <1>2 DEF Store
<1>4. /\ DOMAIN s = {"at", "id", "assumptions", "stamp", "memory", "replay"}
      /\ s.at = "run" /\ s.id = id /\ s.memory = m /\ s.replay = proc[p].replay
      /\ s.stamp = proc[p].stamp /\ s.assumptions = proc[p].assumptions
  BY <1>1, <1>2 DEF ProcessStep
<1>5. id \in Decided /\ s.at \in Loaded /\ s.at \in Busy /\ proc[p].at \in Busy /\ proc[p].at # "idle"
  BY <1>1, <1>4 DEF ProcessStep, Busy, Loaded
<1>6. ProcessStep(s, receipts', capability)
  BY <1>1, <1>4, <1>5 DEF ProcessStep
<1>7. checkpoint' # Nil => Proper(checkpoint', receipts')
  BY <1>1 DEF CheckpointInv
<1>8. runs' \in 0..MaxRuns
  BY <1>1
<1>9. id \notin shared /\ receipts'[id] # Nil =>
        s.memory \in FinishedJournals(id) /\ receipts'[id] = ReceiptOf(id, s.memory)
  BY <1>4
<1>10. journal' = [journal EXCEPT ![id] = s.memory]
  BY <1>3, <1>4
<1>11. UNCHANGED <<capability, transitions, shared>> /\ receipts' = receipts
  OBVIOUS
<1>12. /\ s.id = id /\ id \in Decided /\ s.at \in Loaded
       /\ \/ journal' = [journal EXCEPT ![id] = s.memory]
          \/ journal' = journal /\ proc[p].at \in Loaded /\ s.memory = proc[p].memory
       /\ \/ receipts' = receipts
          \/ /\ Registered(capability)
             /\ \E f \in FinishedJournals(id) : receipts' = [receipts EXCEPT ![id] = ReceiptOf(id, f)]
       /\ id \notin shared /\ receipts'[id] # Nil =>
            s.memory \in FinishedJournals(id) /\ receipts'[id] = ReceiptOf(id, s.memory)
  BY <1>4, <1>5, <1>9, <1>10, <1>11
<1>13. QED
  BY <1>3, <1>6, <1>7, <1>8, <1>11, <1>12, Works

LEMMA PrepareStep ==
  ASSUME ShadowInv, NEW p \in Processes, Prepare(p)
  PROVE  ShadowInv'
<1>1. ProcessStep(proc[p], receipts, capability) /\ proc[p].at = "prepare"
  BY DEF ShadowInv, StepsInv, Prepare
<1>2. PICK id : id = proc[p].id
  OBVIOUS
<1>3. PICK m : m = Prepared(id, proc[p].assumptions)
  OBVIOUS
<1>4. id \in Decided /\ proc[p].assumptions \in Assumptions
  BY <1>1, <1>2 DEF ProcessStep, Busy
<1>5. Entry(id, m, receipts, capability) /\ m.assumptions = proc[p].assumptions
  <2>1. /\ m = [stage |-> m.stage, input |-> m.input, assumptions |-> m.assumptions,
                authorization |-> m.authorization, result |-> m.result, accounting |-> m.accounting]
        /\ m.stage = "PREPARED" /\ m.assumptions = proc[p].assumptions
        /\ m.input = InputHash(id, proc[p].assumptions)
    BY <1>3 DEF Prepared
  <2>2. QED
    BY <1>4, <2>1 DEF Entry
<1>6. id \notin shared => receipts[id] = Nil
  BY <1>1, <1>2, <1>4, EarlyIsUnreceived
<1>7. Store(p, m, "run") /\ UNCHANGED <<receipts, checkpoint, capability, transitions, runs, shared>>
  BY <1>2, <1>3 DEF Prepare
<1>8. QED
  BY <1>1, <1>2, <1>5, <1>6, <1>7, Storing

\* At a stage before the last two, whatever the process goes on to write.
LEMMA StageStep ==
  ASSUME ShadowInv, NEW p \in Processes, NEW stage \in {"PREPARED", "AUTHORIZED", "EXECUTED"},
         AtStage(p, stage), NEW m, Store(p, m, "run"),
         Entry(proc[p].id, m, receipts, capability), m.assumptions = proc[p].memory.assumptions,
         UNCHANGED <<receipts, checkpoint, capability, transitions, runs, shared>>
  PROVE  ShadowInv'
<1>1. ProcessStep(proc[p], receipts, capability) /\ proc[p].at = "run" /\ proc[p].memory.stage = stage
  BY DEF ShadowInv, StepsInv, AtStage
<1>2. proc[p].at \in Loaded /\ proc[p].at \in Busy
  BY <1>1 DEF Busy, Loaded
<1>3. proc[p].id \in Decided /\ m.assumptions = proc[p].assumptions
  BY <1>1, <1>2 DEF ProcessStep
<1>4. PICK id : id = proc[p].id
  OBVIOUS
<1>5. id \notin shared => receipts[id] = Nil
  BY <1>1, <1>2, <1>3, <1>4, EarlyIsUnreceived
<1>6. QED
  BY <1>1, <1>3, <1>4, <1>5, Storing

LEMMA LoadedIs ==
  ASSUME ShadowInv, NEW p \in Processes, proc[p].at \in Loaded
  PROVE  /\ ProcessStep(proc[p], receipts, capability)
         /\ Entry(proc[p].id, proc[p].memory, receipts, capability) /\ proc[p].id \in Decided
         /\ proc[p].memory.assumptions = proc[p].assumptions
         /\ proc[p].stamp \in 0..MaxRuns /\ capability.state \in CapabilityStates
<1>1. ProcessStep(proc[p], receipts, capability) /\ capability.state \in CapabilityStates
  BY DEF ShadowInv, StepsInv, ShapeInv, CapabilityStates
<1>2. QED
  BY <1>1, NilIsNone DEF ProcessStep

LEMMA AuthorizeStep ==
  ASSUME ShadowInv, NEW p \in Processes, AuthorizeStage(p)
  PROVE  ShadowInv'
<1>1. AtStage(p, "PREPARED") /\ proc[p].at \in Loaded
  BY DEF AuthorizeStage, AtStage, Loaded
<1>2. PICK decided : decided = Authorize(Request(proc[p].id), capability, governor, proc[p].stamp)
  OBVIOUS
<1>3. PICK m : m = [proc[p].memory EXCEPT !.authorization = decided, !.stage = "AUTHORIZED"]
  OBVIOUS
<1>4. Store(p, m, "run")
  BY <1>2, <1>3 DEF AuthorizeStage
<1>5. decided.allowed => decided \in Allowed /\ Registered(capability)
  BY <1>1, <1>2, AllowedIs, LoadedIs
<1>6. Entry(proc[p].id, proc[p].memory, receipts, capability)
  BY <1>1, LoadedIs
<1>7. /\ m = [stage |-> m.stage, input |-> m.input, assumptions |-> m.assumptions,
              authorization |-> m.authorization, result |-> m.result, accounting |-> m.accounting]
      /\ m.stage = "AUTHORIZED" /\ m.authorization = decided
      /\ m.assumptions = proc[p].memory.assumptions /\ m.input = proc[p].memory.input
  BY <1>3, <1>6 DEF Entry
<1>8. Entry(proc[p].id, m, receipts, capability)
  BY <1>5, <1>6, <1>7 DEF Entry
<1>9. UNCHANGED <<receipts, checkpoint, capability, transitions, runs, shared>>
  BY DEF AuthorizeStage
<1>10. QED
  BY <1>1, <1>4, <1>7, <1>8, <1>9, StageStep

LEMMA ExecuteStep ==
  ASSUME ShadowInv, NEW p \in Processes, ExecuteStage(p)
  PROVE  ShadowInv'
<1>1. AtStage(p, "AUTHORIZED") /\ proc[p].at \in Loaded /\ proc[p].memory.authorization.allowed
      /\ proc[p].memory.stage = "AUTHORIZED"
  BY DEF ExecuteStage, AtStage, Loaded
<1>2. PICK result : result = Execute(Request(proc[p].id), ObservationOf(proc[p].id), proc[p].assumptions)
  OBVIOUS
<1>3. PICK m : m = [proc[p].memory EXCEPT !.result = result, !.stage = "EXECUTED"]
  OBVIOUS
<1>4. Store(p, m, "run")
  BY <1>2, <1>3 DEF ExecuteStage
<1>5. Entry(proc[p].id, proc[p].memory, receipts, capability) /\ proc[p].memory.assumptions = proc[p].assumptions
  BY <1>1, LoadedIs
<1>6. /\ m = [stage |-> m.stage, input |-> m.input, assumptions |-> m.assumptions,
              authorization |-> m.authorization, result |-> m.result, accounting |-> m.accounting]
      /\ m.stage = "EXECUTED" /\ m.authorization = proc[p].memory.authorization
      /\ m.assumptions = proc[p].memory.assumptions /\ m.input = proc[p].memory.input
      /\ m.result = result
  BY <1>3, <1>5 DEF Entry
<1>7. result = ResultOf(proc[p].id, m.assumptions)
  BY <1>2, <1>5, <1>6 DEF ResultOf
<1>8. Entry(proc[p].id, m, receipts, capability)
  BY <1>1, <1>5, <1>6, <1>7 DEF Entry
<1>9. UNCHANGED <<receipts, checkpoint, capability, transitions, runs, shared>>
  BY DEF ExecuteStage
<1>10. QED
  BY <1>1, <1>4, <1>6, <1>8, <1>9, StageStep

LEMMA AccountStep ==
  ASSUME ShadowInv, NEW p \in Processes, AccountStage(p)
  PROVE  ShadowInv'
<1>1. AtStage(p, "EXECUTED") /\ proc[p].at \in Loaded /\ proc[p].memory.stage = "EXECUTED"
  BY DEF AccountStage, AtStage, Loaded
<1>2. PICK accounting : accounting = Accounting(Request(proc[p].id), proc[p].memory.result, ObservationOf(proc[p].id).close)
  OBVIOUS
<1>3. PICK m : m = [proc[p].memory EXCEPT !.accounting = accounting, !.stage = "ACCOUNTED"]
  OBVIOUS
<1>4. Store(p, m, "run")
  BY <1>2, <1>3 DEF AccountStage
<1>5. Entry(proc[p].id, proc[p].memory, receipts, capability)
  BY <1>1, LoadedIs
<1>6. /\ m = [stage |-> m.stage, input |-> m.input, assumptions |-> m.assumptions,
              authorization |-> m.authorization, result |-> m.result, accounting |-> m.accounting]
      /\ m.stage = "ACCOUNTED" /\ m.authorization = proc[p].memory.authorization
      /\ m.assumptions = proc[p].memory.assumptions /\ m.input = proc[p].memory.input
      /\ m.result = proc[p].memory.result /\ m.accounting = accounting
  BY <1>3, <1>5 DEF Entry
<1>7. m.result = ResultOf(proc[p].id, m.assumptions)
  BY <1>1, <1>5, <1>6 DEF Entry
<1>8. accounting = AccountingOf(proc[p].id, m.assumptions)
  BY <1>2, <1>6, <1>7 DEF AccountingOf
<1>9. Entry(proc[p].id, m, receipts, capability)
  BY <1>1, <1>5, <1>6, <1>7, <1>8 DEF Entry
<1>10. UNCHANGED <<receipts, checkpoint, capability, transitions, runs, shared>>
  BY DEF AccountStage
<1>11. QED
  BY <1>1, <1>4, <1>6, <1>9, <1>10, StageStep

LEMMA FinalizeStep ==
  ASSUME ShadowInv, NEW p \in Processes, Finalize(p)
  PROVE  ShadowInv'
<1>1. proc[p].at = "finalize" /\ proc[p].at \in Loaded
  BY DEF Finalize, Loaded
<1>2. PICK id : id = proc[p].id
  OBVIOUS
<1>3. PICK m : m = [proc[p].memory EXCEPT !.stage = "FINALIZED"]
  OBVIOUS
<1>4. Store(p, m, "run")
  BY <1>3 DEF Finalize
<1>5. /\ Entry(id, proc[p].memory, receipts, capability) /\ proc[p].memory.assumptions = proc[p].assumptions
      /\ proc[p].memory.stage = "ACCOUNTED" /\ receipts[id] # Nil /\ id \in Decided
  BY <1>1, <1>2, LoadedIs DEF ProcessStep
<1>6. /\ m = [stage |-> m.stage, input |-> m.input, assumptions |-> m.assumptions,
              authorization |-> m.authorization, result |-> m.result, accounting |-> m.accounting]
      /\ m.stage = "FINALIZED" /\ m.authorization = proc[p].memory.authorization
      /\ m.assumptions = proc[p].memory.assumptions /\ m.input = proc[p].memory.input
      /\ m.result = proc[p].memory.result /\ m.accounting = proc[p].memory.accounting
  BY <1>3, <1>5 DEF Entry
<1>7. Entry(id, m, receipts, capability)
  BY <1>5, <1>6 DEF Entry
<1>8. m \in FinishedJournals(id)
  BY <1>5, <1>6, <1>7, EntryIsFinished
<1>9. ReceiptOf(id, m) = ReceiptOf(id, proc[p].memory)
  BY <1>6 DEF ReceiptOf
<1>10. id \notin shared => receipts[id] = ReceiptOf(id, m)
  BY <1>1, <1>2, <1>5, <1>9 DEF ShadowInv, AloneInv, AgreeInv
<1>11. UNCHANGED <<receipts, checkpoint, capability, transitions, runs, shared>>
  BY DEF Finalize
<1>12. QED
  BY <1>1, <1>2, <1>4, <1>5, <1>6, <1>7, <1>8, <1>10, <1>11, Storing

\* A receipt that is in the way is that of the request, and the journal's if
\* nobody else was at the operation.
LEMMA LookReceiptStep ==
  ASSUME ShadowInv, NEW p \in Processes, LookReceipt(p)
  PROVE  ShadowInv'
<1>1. /\ proc[p].at = "run" /\ proc[p].at \in Loaded /\ proc[p].memory.stage = "ACCOUNTED"
      /\ UNCHANGED <<journal, receipts, checkpoint, capability, transitions, runs, shared>>
  BY DEF LookReceipt, AtStage, Loaded
<1>2. PICK id : id = proc[p].id
  OBVIOUS
<1>3. PICK at \in {"receipt", "finalize"} :
        Goes(p, [proc[p] EXCEPT !.at = at]) /\ (at = "finalize" => receipts[id] # Nil)
  BY <1>2 DEF LookReceipt
<1>4. PICK s : s = [proc[p] EXCEPT !.at = at]
  OBVIOUS
<1>5. /\ ProcessStep(proc[p], receipts, capability)
      /\ Entry(id, proc[p].memory, receipts, capability) /\ id \in Decided
  BY <1>1, <1>2, LoadedIs
<1>6. /\ DOMAIN s = {"at", "id", "assumptions", "stamp", "memory", "replay"}
      /\ s.at = at /\ s.id = id /\ s.memory = proc[p].memory /\ s.replay = proc[p].replay
      /\ s.stamp = proc[p].stamp /\ s.assumptions = proc[p].assumptions
  BY <1>2, <1>4, <1>5 DEF ProcessStep
<1>7. s.at \in Loaded /\ s.at \in Busy /\ proc[p].at \in Busy /\ s.at \notin {"idle", "record", "next"}
  BY <1>1, <1>6 DEF Busy, Loaded
<1>8. proc[p].memory.authorization.allowed
  BY <1>1, <1>5 DEF Entry
<1>9. ProcessStep(s, receipts', capability)
  BY <1>1, <1>2, <1>3, <1>5, <1>6, <1>7, <1>8 DEF ProcessStep
<1>10. id \notin shared /\ receipts'[id] # Nil =>
         s.memory \in FinishedJournals(id) /\ receipts'[id] = ReceiptOf(id, s.memory)
  BY <1>1, <1>2, <1>5, <1>6 DEF ShadowInv, AloneInv, AgreeInv
<1>11. (checkpoint' # Nil => Proper(checkpoint', receipts')) /\ runs' \in 0..MaxRuns
  BY <1>1 DEF ShadowInv, CheckpointInv, ShapeInv
<1>12. Goes(p, s)
  BY <1>3, <1>4
<1>13. /\ s.id = id /\ id \in Decided /\ s.at \in Loaded
       /\ journal' = journal /\ proc[p].at \in Loaded /\ s.memory = proc[p].memory
       /\ receipts' = receipts
  BY <1>1, <1>5, <1>6, <1>7
<1>14. QED
  BY <1>1, <1>2, <1>9, <1>10, <1>11, <1>12, <1>13, Works

LEMMA WriteReceiptStep ==
  ASSUME ShadowInv, NEW p \in Processes, WriteReceipt(p)
  PROVE  ShadowInv'
<1>1. /\ proc[p].at = "receipt" /\ proc[p].at \in Loaded
      /\ UNCHANGED <<journal, checkpoint, capability, transitions, runs, shared>>
  BY DEF WriteReceipt, Loaded
<1>2. PICK id : id = proc[p].id
  OBVIOUS
<1>3. receipts' = [receipts EXCEPT ![id] = ReceiptOf(id, proc[p].memory)]
      /\ Goes(p, [proc[p] EXCEPT !.at = "finalize"])
  BY <1>2 DEF WriteReceipt, Receipt
<1>4. PICK s : s = [proc[p] EXCEPT !.at = "finalize"]
  OBVIOUS
<1>5. /\ ProcessStep(proc[p], receipts, capability)
      /\ Entry(id, proc[p].memory, receipts, capability) /\ id \in Decided
  BY <1>1, <1>2, LoadedIs
<1>6. proc[p].memory.stage = "ACCOUNTED"
  BY <1>1, <1>5 DEF ProcessStep
<1>7. proc[p].memory \in FinishedJournals(id) /\ Registered(capability)
      /\ proc[p].memory.authorization.allowed
  BY <1>5, <1>6, EntryIsFinished DEF Entry
<1>8. DOMAIN receipts = Decided
  BY DEF ShadowInv, ShapeInv
<1>9. receipts'[id] = ReceiptOf(id, proc[p].memory) /\ receipts'[id] # Nil
  BY <1>3, <1>5, <1>7, <1>8, FinishedIs
<1>10. Grown(receipts, receipts') /\ Risen(capability, capability)
  BY <1>3, <1>8, <1>9 DEF Grown, Risen
<1>11. ProcessStep(proc[p], receipts', capability)
  BY <1>5, <1>10, StepStands
<1>12. /\ DOMAIN s = {"at", "id", "assumptions", "stamp", "memory", "replay"}
       /\ s.at = "finalize" /\ s.id = id /\ s.memory = proc[p].memory /\ s.replay = proc[p].replay
       /\ s.stamp = proc[p].stamp /\ s.assumptions = proc[p].assumptions
  BY <1>2, <1>4, <1>5 DEF ProcessStep
<1>13. s.at \in Loaded /\ s.at \in Busy /\ proc[p].at \in Busy /\ s.at \notin {"idle", "record", "next"}
       /\ proc[p].at # "idle"
  BY <1>1, <1>12 DEF Busy, Loaded
<1>14. ProcessStep(s, receipts', capability)
  BY <1>1, <1>2, <1>6, <1>7, <1>9, <1>11, <1>12, <1>13 DEF ProcessStep
<1>15. checkpoint' # Nil => Proper(checkpoint', receipts')
  BY <1>1, <1>10, ProperStands DEF ShadowInv, CheckpointInv, Proper
<1>16. runs' \in 0..MaxRuns
  BY <1>1 DEF ShadowInv, ShapeInv
<1>17. Goes(p, s)
  BY <1>3, <1>4
<1>18. /\ s.id = id /\ id \in Decided /\ s.at \in Loaded
       /\ journal' = journal /\ proc[p].at \in Loaded /\ s.memory = proc[p].memory
       /\ Registered(capability)
       /\ \E m \in FinishedJournals(id) : receipts' = [receipts EXCEPT ![id] = ReceiptOf(id, m)]
       /\ s.memory \in FinishedJournals(id) /\ receipts'[id] = ReceiptOf(id, s.memory)
  BY <1>1, <1>3, <1>5, <1>7, <1>9, <1>12, <1>13
<1>19. QED
  BY <1>1, <1>2, <1>14, <1>15, <1>16, <1>17, <1>18, Works

LEMMA ReturnStep ==
  ASSUME ShadowInv, NEW p \in Processes, Return(p)
  PROVE  ShadowInv'
<1>1. /\ proc[p].at = "run" /\ proc[p].at \in Loaded /\ proc[p].memory.stage = "FINALIZED"
      /\ UNCHANGED <<journal, receipts, checkpoint, capability, transitions, runs, shared>>
  BY DEF Return, AtStage, Loaded
<1>2. (checkpoint' # Nil => Proper(checkpoint', receipts')) /\ runs' \in 0..MaxRuns
  BY <1>1 DEF ShadowInv, CheckpointInv, ShapeInv
<1>3. CASE proc[p].replay = Nil
  <2>1. Goes(p, Idle)
    BY <1>3 DEF Return
  <2>2. QED
    BY <1>1, <1>2, <2>1, Leaving
<1>4. CASE proc[p].replay # Nil
  <2>1. PICK s : s = [proc[p] EXCEPT !.at = "record"]
    OBVIOUS
  <2>2. Goes(p, s)
    BY <1>4, <2>1 DEF Return
  <2>3. PICK id : id = proc[p].id
    OBVIOUS
  <2>4. /\ ProcessStep(proc[p], receipts, capability)
        /\ Entry(id, proc[p].memory, receipts, capability) /\ id \in Decided
    BY <1>1, <2>3, LoadedIs
  <2>5. receipts[id] # Nil
    BY <1>1, <2>4 DEF Entry
  <2>6. /\ DOMAIN s = {"at", "id", "assumptions", "stamp", "memory", "replay"}
        /\ s.at = "record" /\ s.id = id /\ s.memory = proc[p].memory /\ s.replay = proc[p].replay
        /\ s.stamp = proc[p].stamp /\ s.assumptions = proc[p].assumptions
    BY <2>1, <2>3, <2>4 DEF ProcessStep
  <2>7. s.at \in Loaded /\ s.at \in Busy /\ proc[p].at \in Busy /\ s.at \notin {"idle", "receipt", "next"}
    BY <1>1, <2>6 DEF Busy, Loaded
  <2>8. ProcessStep(s, receipts', capability)
    BY <1>1, <1>4, <2>3, <2>4, <2>5, <2>6, <2>7 DEF ProcessStep
  <2>9. id \notin shared /\ receipts'[id] # Nil =>
          s.memory \in FinishedJournals(id) /\ receipts'[id] = ReceiptOf(id, s.memory)
    BY <1>1, <2>3, <2>4, <2>6 DEF ShadowInv, AloneInv, AgreeInv
  <2>10. /\ s.id = id /\ id \in Decided /\ s.at \in Loaded
         /\ journal' = journal /\ proc[p].at \in Loaded /\ s.memory = proc[p].memory
         /\ receipts' = receipts
    BY <1>1, <2>4, <2>6, <2>7
  <2>11. QED
    BY <1>1, <1>2, <2>2, <2>3, <2>8, <2>9, <2>10, Works
<1>5. QED
  BY <1>3, <1>4

LEMMA DeniedStep ==
  ASSUME ShadowInv, NEW p \in Processes, Denied(p) \/ Dies(p)
  PROVE  ShadowInv'
<1>1. Goes(p, Idle) /\ UNCHANGED <<journal, receipts, checkpoint, capability, transitions, runs, shared>>
  BY DEF Denied, Dies
<1>2. checkpoint' # Nil => Proper(checkpoint', receipts)
  BY <1>1 DEF ShadowInv, CheckpointInv
<1>3. QED
  BY <1>1, <1>2, Leaving

LEMMA RunStep ==
  ASSUME ShadowInv, NEW p \in Processes, NEW id \in Decided, NEW a \in Assumptions, Run(p, id, a)
  PROVE  ShadowInv'
<1>1. /\ runs \in 0..MaxRuns /\ runs < MaxRuns /\ runs' = runs + 1
      /\ UNCHANGED <<journal, receipts, checkpoint, capability, transitions>>
  BY DEF ShadowInv, ShapeInv, Run
<1>2. runs' \in 0..MaxRuns
  BY <1>1, BoundsAssumption
<1>3. PICK step : step = [Idle EXCEPT !.stamp = runs']
  OBVIOUS
<1>4. Look(p, step, id, a)
  BY <1>3 DEF Run
<1>5. /\ DOMAIN step = {"at", "id", "assumptions", "stamp", "memory", "replay"}
      /\ step.stamp = runs' /\ step.replay = Nil
  BY <1>3 DEF Idle
<1>6. step.stamp \in 0..MaxRuns
  BY <1>2, <1>5
<1>7. QED
  BY <1>1, <1>2, <1>4, <1>5, <1>6, Looks

LEMMA ReplayStep ==
  ASSUME ShadowInv, NEW p \in Processes, NEW a \in Assumptions, Replay(p, a)
  PROVE  ShadowInv'
<1>1. /\ runs \in 0..MaxRuns /\ runs' = (IF runs < MaxRuns THEN runs + 1 ELSE runs)
      /\ UNCHANGED <<journal, receipts, checkpoint, capability, transitions, shared>>
  BY DEF ShadowInv, ShapeInv, Replay
<1>2. runs' \in 0..MaxRuns
  BY <1>1, BoundsAssumption
<1>3. PICK step : step = [Idle EXCEPT !.stamp = runs', !.assumptions = a]
  OBVIOUS
<1>4. PICK s : s = IF checkpoint = Nil THEN [step EXCEPT !.at = "create"]
                   ELSE [step EXCEPT !.at = "next", !.replay = checkpoint]
  OBVIOUS
<1>5. Goes(p, s)
  BY <1>3, <1>4 DEF Replay
<1>6. /\ DOMAIN step = {"at", "id", "assumptions", "stamp", "memory", "replay"}
      /\ step.stamp = runs' /\ step.replay = Nil /\ step.id = Nil /\ step.assumptions = a
  BY <1>3 DEF Idle
<1>7. /\ DOMAIN s = {"at", "id", "assumptions", "stamp", "memory", "replay"}
      /\ s.stamp = runs' /\ s.id = Nil /\ s.assumptions = a
      /\ \/ s.at = "create"
         \/ s.at = "next" /\ s.replay = checkpoint /\ checkpoint # Nil
  BY <1>4, <1>6
<1>8. CheckpointInv
  BY DEF ShadowInv
<1>9. ProcessStep(s, receipts', capability)
  BY <1>1, <1>2, <1>7, <1>8 DEF ProcessStep, CheckpointInv, Busy, Loaded
<1>10. checkpoint' # Nil => Proper(checkpoint', receipts')
  BY <1>1, <1>8 DEF CheckpointInv
<1>11. PICK id : id = proc[p].id
  OBVIOUS
<1>12. s.id = Nil /\ UNCHANGED <<journal, receipts>>
  BY <1>1, <1>7
<1>13. QED
  BY <1>1, <1>2, <1>5, <1>9, <1>10, <1>11, <1>12, Works

LEMMA CreateStep ==
  ASSUME ShadowInv, NEW p \in Processes, CreateCheckpoint(p)
  PROVE  ShadowInv'
<1>1. Save(p, Running, "next") /\ proc[p].at # "idle"
  BY DEF CreateCheckpoint
<1>2. QED
  BY <1>1, Begins, Saving

LEMMA NextObservationStep ==
  ASSUME ShadowInv, NEW p \in Processes, NextObservation(p)
  PROVE  ShadowInv'
<1>1. proc[p].at = "next" /\ Unprocessed(proc[p].replay) # {}
  BY DEF NextObservation
<1>2. PICK state : state = proc[p].replay
  OBVIOUS
<1>3. PICK id : id = NextOf(state)
  OBVIOUS
<1>4. ProcessStep(proc[p], receipts, capability)
  BY DEF ShadowInv, StepsInv
<1>5. PICK k \in 0..Total : ProperAt(state, k, receipts)
  BY <1>1, <1>2, <1>4 DEF ProcessStep, Proper
<1>6. k \in 0..(Total - 1) /\ id = OrderedIds[k + 1]
  BY <1>1, <1>2, <1>3, <1>5, NextIs
<1>7. CASE id \notin Decided
  <2>1. PICK after : after = [state EXCEPT !.processed = Append(@, id)]
    OBVIOUS
  <2>2. Save(p, after, "next")
    BY <1>2, <1>3, <1>7, <2>1 DEF NextObservation
  <2>3. Proper(after, receipts)
    BY <1>5, <1>6, <1>7, <2>1, Advances
  <2>4. QED
    BY <1>1, <2>2, <2>3, Saving
<1>8. CASE id \in Decided
  <2>1. /\ Look(p, proc[p], id, proc[p].assumptions)
        /\ UNCHANGED <<journal, receipts, checkpoint, capability, transitions, runs>>
    BY <1>2, <1>3, <1>8 DEF NextObservation
  <2>2. proc[p].assumptions \in Assumptions /\ proc[p].stamp \in 0..MaxRuns
        /\ DOMAIN proc[p] = {"at", "id", "assumptions", "stamp", "memory", "replay"}
    BY <1>1, <1>4 DEF ProcessStep
  <2>3. \E j \in 0..(Total - 1) : ProperAt(proc[p].replay, j, receipts) /\ id = OrderedIds[j + 1]
    BY <1>2, <1>5, <1>6
  <2>4. runs' \in 0..MaxRuns
    BY <2>1 DEF ShadowInv, ShapeInv
  <2>5. QED
    BY <1>8, <2>1, <2>2, <2>3, <2>4, Looks
<1>9. QED
  BY <1>7, <1>8

LEMMA RecordReceiptStep ==
  ASSUME ShadowInv, NEW p \in Processes, RecordReceipt(p)
  PROVE  ShadowInv'
<1>1. proc[p].at = "record" /\ proc[p].at \in Busy
  BY DEF RecordReceipt, Busy, Loaded
<1>2. ProcessStep(proc[p], receipts, capability)
  BY DEF ShadowInv, StepsInv
<1>3. PICK id : id = proc[p].id
  OBVIOUS
<1>4. PICK state : state = proc[p].replay
  OBVIOUS
<1>5. id \in Decided /\ receipts[id] # Nil /\ state # Nil
  BY <1>1, <1>2, <1>3, <1>4 DEF ProcessStep
<1>6. PICK k \in 0..(Total - 1) : ProperAt(state, k, receipts) /\ id = OrderedIds[k + 1]
  BY <1>1, <1>2, <1>3, <1>4, <1>5 DEF ProcessStep
<1>7. PICK after : after = [state EXCEPT !.processed = Append(@, id), !.paths = @ \cup {id}]
  OBVIOUS
<1>8. Save(p, after, "next")
  BY <1>3, <1>4, <1>7 DEF RecordReceipt
<1>9. Proper(after, receipts)
  BY <1>5, <1>6, <1>7, Advances
<1>10. QED
  BY <1>1, <1>8, <1>9, Saving

LEMMA CompleteStep ==
  ASSUME ShadowInv, NEW p \in Processes, Complete(p)
  PROVE  ShadowInv'
<1>1. /\ proc[p].at = "next" /\ Unprocessed(proc[p].replay) = {}
      /\ checkpoint' = [proc[p].replay EXCEPT !.status = "COMPLETE"] /\ Goes(p, Idle)
      /\ UNCHANGED <<journal, receipts, capability, transitions, runs, shared>>
  BY DEF Complete
<1>2. Proper(proc[p].replay, receipts)
  BY <1>1 DEF ShadowInv, StepsInv, ProcessStep
<1>3. Proper(checkpoint', receipts)
  BY <1>1, <1>2, Completes
<1>4. QED
  BY <1>1, <1>3, Leaving

-----------------------------------------------------------------------------

\* The capability only rises, and everything else looks at it from below.
LEMMA Rising ==
  ASSUME ShadowInv, DOMAIN capability' = DOMAIN capability, capability'.state \in CapabilityStates,
         Rank(capability'.state) >= Rank(capability.state),
         UNCHANGED <<journal, receipts, checkpoint, proc, runs, shared>>, LogInv'
  PROVE  ShadowInv'
<1>1. /\ ShapeInv /\ EntriesInv /\ EarnedInv /\ StepsInv /\ CheckpointInv
      /\ MetInv /\ AloneInv /\ AgreeInv
  BY DEF ShadowInv
<1>2. capability.state \in CapabilityStates
  BY <1>1 DEF ShapeInv, CapabilityStates
<1>3. Risen(capability, capability') /\ Grown(receipts, receipts)
  BY <1>2, RankType, PreregisteredIsState DEF Risen, Registered, Grown
<1>4. ShapeInv'
  BY <1>1 DEF ShapeInv, CapabilityStates
<1>5. EntriesInv'
  BY <1>1, <1>3, EntryStands DEF EntriesInv
<1>6. EarnedInv'
  <2>1. SUFFICES ASSUME NEW d \in Decided, receipts[d] # Nil
                 PROVE  /\ \E m \in FinishedJournals(d) : receipts[d] = ReceiptOf(d, m)
                        /\ Registered(capability')
    BY DEF EarnedInv, Registered
  <2>2. QED
    BY <1>1, <1>3, <2>1 DEF EarnedInv, Risen
<1>7. StepsInv'
  BY <1>1, <1>3, StepStands DEF StepsInv
<1>8. CheckpointInv' /\ MetInv' /\ AloneInv' /\ AgreeInv'
  BY <1>1 DEF CheckpointInv, MetInv, AloneInv, AgreeInv
<1>9. QED
  BY <1>4, <1>5, <1>6, <1>7, <1>8 DEF ShadowInv

\* What the log says after one more record.
LEMMA Logged ==
  ASSUME LogInv, NEW record \in Promotions \cup Withdrawals, NEW log, log = Append(transitions, record)
  PROVE  /\ log \in Seq(Promotions \cup Withdrawals) /\ DOMAIN log = 1..(Len(transitions) + 1)
         /\ Len(transitions) \in Nat /\ DOMAIN transitions = 1..Len(transitions)
         /\ \A i \in DOMAIN transitions : log[i] = transitions[i]
         /\ log[Len(transitions) + 1] = record
<1>1. PICK R : R = Promotions \cup Withdrawals
  OBVIOUS
<1>2. transitions \in Seq(R) /\ record \in R
  BY <1>1 DEF LogInv
<1>3. /\ log \in Seq(R) /\ Len(log) = Len(transitions) + 1
      /\ \A i \in 1..Len(transitions) : log[i] = transitions[i]
      /\ log[Len(transitions) + 1] = record
  BY <1>2, AppendProperties
<1>4. Len(transitions) \in Nat /\ DOMAIN transitions = 1..Len(transitions) /\ DOMAIN log = 1..Len(log)
  BY <1>2, <1>3
<1>5. QED
  BY <1>1, <1>3, <1>4

LEMMA PromoteStep ==
  ASSUME ShadowInv, NEW new \in CapabilityStates, PromoteCapability(new)
  PROVE  ShadowInv'
<1>1. /\ MayPromote(capability, new, {"E"})
      /\ capability' = Promoted(capability, new, {"E"})
      /\ transitions' = Append(transitions, PromotionRecord(capability, new, {"E"}, Len(transitions)))
      /\ UNCHANGED <<journal, receipts, checkpoint, proc, runs, shared>>
  BY DEF PromoteCapability, Transition
<1>2. /\ DOMAIN capability = {"id", "state", "status", "evidence"}
      /\ capability.state \in CapabilityStates /\ LogInv
  BY DEF ShadowInv, ShapeInv, CapabilityStates
<1>3. DOMAIN capability' = DOMAIN capability /\ capability'.state = new
  BY <1>1, <1>2 DEF Promoted
<1>4. Rank(new) = Rank(capability.state) + 1 /\ new \notin {"CAPITAL_ELIGIBLE", "LIVE"}
      /\ Rank(new) \in Int /\ Rank(capability.state) \in Int
  BY <1>1, <1>2, RankType DEF MayPromote
<1>5. Rank(capability'.state) >= Rank(capability.state)
  BY <1>3, <1>4
<1>6. PICK record : record = PromotionRecord(capability, new, {"E"}, Len(transitions))
  OBVIOUS
<1>7. Len(transitions) \in Nat
  BY <1>2 DEF LogInv
<1>8. /\ record = [id |-> <<new>>, at |-> Len(transitions), previous |-> capability.state, new |-> new,
                   outcome |-> "PROMOTED", evidence |-> {"E"}]
  BY <1>6 DEF PromotionRecord
<1>9. record \in Promotions \cup Withdrawals
  BY <1>2, <1>7, <1>8 DEF Promotions
<1>10. PICK log : log = Append(transitions, record)
  OBVIOUS
<1>11. transitions' = log
  BY <1>1, <1>6, <1>10
<1>12. PICK n \in Nat : n = Len(transitions)
  BY <1>7
<1>13. /\ log \in Seq(Promotions \cup Withdrawals) /\ DOMAIN log = 1..(n + 1)
       /\ DOMAIN transitions = 1..n
       /\ \A i \in 1..n : log[i] = transitions[i]
       /\ log[n + 1] = record
  <2>1. LogInv /\ record \in Promotions \cup Withdrawals
    BY <1>2, <1>9
  <2>2. /\ log \in Seq(Promotions \cup Withdrawals) /\ DOMAIN log = 1..(Len(transitions) + 1)
        /\ DOMAIN transitions = 1..Len(transitions)
        /\ \A i \in DOMAIN transitions : log[i] = transitions[i]
        /\ log[Len(transitions) + 1] = record
    BY <2>1, <1>10, Logged
  <2>3. QED
    BY <1>12, <2>2
<1>14. \A i \in 1..n : transitions[i].outcome = "PROMOTED" =>
         transitions[i].new \in CapabilityStates /\ Rank(transitions[i].new) \in Int
  <2>1. \A i \in 1..n : transitions[i] \in Promotions \cup Withdrawals
    BY <1>2, <1>13 DEF LogInv
  <2>2. \A r \in Promotions \cup Withdrawals : r.new \in CapabilityStates
    BY DEF Promotions, Withdrawals
  <2>3. QED
    BY <2>1, <2>2, RankType
<1>15. ASSUME NEW i \in 1..(n + 1)
       PROVE  /\ log[i].outcome = "PROMOTED" =>
                   /\ log[i].id = <<log[i].new>>
                   /\ log[i].new \notin {"CAPITAL_ELIGIBLE", "LIVE"}
                   /\ Rank(log[i].new) = Rank(log[i].previous) + 1
                   /\ Rank(log[i].new) <= Rank(capability'.state)
              /\ log[i].outcome # "PROMOTED" => log[i].id = <<log[i].outcome, i - 1>>
  <2>1. CASE i = n + 1
    BY <1>3, <1>4, <1>8, <1>13, <2>1
  <2>2. CASE i # n + 1
    <3>1. i \in 1..n
      BY <2>2
    <3>2. log[i] = transitions[i]
      BY <1>13, <3>1
    <3>3. transitions[i].outcome = "PROMOTED" => Rank(transitions[i].new) <= Rank(capability.state)
      BY <1>2, <1>13, <3>1 DEF LogInv
    <3>4. transitions[i].outcome = "PROMOTED" => Rank(transitions[i].new) <= Rank(capability'.state)
      BY <1>3, <1>4, <1>14, <3>1, <3>3
    <3>5. QED
      BY <1>2, <1>13, <3>1, <3>2, <3>4 DEF LogInv
  <2>3. QED
    BY <2>1, <2>2
<1>16. ASSUME NEW i \in 1..(n + 1), NEW k \in 1..(n + 1), i < k,
              log[i].outcome = "PROMOTED", log[k].outcome = "PROMOTED"
       PROVE  Rank(log[i].new) < Rank(log[k].new)
  <2>1. i \in 1..n /\ log[i] = transitions[i]
    BY <1>13, <1>16
  <2>2. CASE k = n + 1
    <3>1. Rank(transitions[i].new) <= Rank(capability.state) /\ Rank(transitions[i].new) \in Int
      BY <1>2, <1>13, <1>14, <1>16, <2>1 DEF LogInv
    <3>2. log[k].new = new
      BY <1>8, <1>13, <2>2
    <3>3. QED
      BY <1>4, <2>1, <3>1, <3>2
  <2>3. CASE k # n + 1
    <3>1. k \in 1..n
      BY <2>3
    <3>2. QED
      BY <1>2, <1>13, <1>16, <2>1, <3>1 DEF LogInv
  <2>4. QED
    BY <2>2, <2>3
<1>17. LogInv'
  BY <1>11, <1>13, <1>15, <1>16 DEF LogInv
<1>18. QED
  BY <1>1, <1>3, <1>5, <1>17, Rising

LEMMA NonSuccessStep ==
  ASSUME ShadowInv, NEW outcome \in NonSuccess, CapabilityNonSuccess(outcome)
  PROVE  ShadowInv'
<1>1. /\ capability' = [capability EXCEPT !.status = outcome]
      /\ transitions' = Append(transitions, NonSuccessRecord(capability, outcome, {"E"}, Len(transitions)))
      /\ UNCHANGED <<journal, receipts, checkpoint, proc, runs, shared>>
  BY DEF CapabilityNonSuccess, Transition
<1>2. /\ DOMAIN capability = {"id", "state", "status", "evidence"}
      /\ capability.state \in CapabilityStates /\ LogInv
  BY DEF ShadowInv, ShapeInv, CapabilityStates
<1>3. DOMAIN capability' = DOMAIN capability /\ capability'.state = capability.state
  BY <1>1, <1>2
<1>4. Rank(capability'.state) >= Rank(capability.state)
  BY <1>2, <1>3, RankType
<1>5. PICK record : record = NonSuccessRecord(capability, outcome, {"E"}, Len(transitions))
  OBVIOUS
<1>6. PICK n \in Nat : n = Len(transitions)
  BY <1>2 DEF LogInv
<1>7. record = [id |-> <<outcome, n>>, at |-> n, previous |-> capability.state, new |-> capability.state,
                outcome |-> outcome, evidence |-> {"E"}]
  BY <1>5, <1>6 DEF NonSuccessRecord
<1>8. record \in Promotions \cup Withdrawals
  BY <1>2, <1>7 DEF Withdrawals
<1>9. PICK log : log = Append(transitions, record)
  OBVIOUS
<1>10. transitions' = log
  BY <1>1, <1>5, <1>9
<1>11. /\ log \in Seq(Promotions \cup Withdrawals) /\ DOMAIN log = 1..(n + 1)
       /\ DOMAIN transitions = 1..n
       /\ \A i \in 1..n : log[i] = transitions[i]
       /\ log[n + 1] = record
  <2>1. LogInv /\ record \in Promotions \cup Withdrawals
    BY <1>2, <1>8
  <2>2. /\ log \in Seq(Promotions \cup Withdrawals) /\ DOMAIN log = 1..(Len(transitions) + 1)
        /\ DOMAIN transitions = 1..Len(transitions)
        /\ \A i \in DOMAIN transitions : log[i] = transitions[i]
        /\ log[Len(transitions) + 1] = record
    BY <2>1, <1>9, Logged
  <2>3. QED
    BY <1>6, <2>2
<1>12. outcome # "PROMOTED"
  BY DEF NonSuccess
<1>13. ASSUME NEW i \in 1..(n + 1)
       PROVE  \/ i = n + 1 /\ log[i].outcome = outcome /\ log[i].id = <<outcome, i - 1>>
              \/ i \in 1..n /\ log[i] = transitions[i]
  <2>1. (n + 1) - 1 = n
    OBVIOUS
  <2>2. i = n + 1 \/ i \in 1..n
    OBVIOUS
  <2>3. QED
    BY <1>7, <1>11, <2>1, <2>2
<1>14. ASSUME NEW i \in 1..(n + 1)
       PROVE  /\ log[i].outcome = "PROMOTED" =>
                   /\ log[i].id = <<log[i].new>>
                   /\ log[i].new \notin {"CAPITAL_ELIGIBLE", "LIVE"}
                   /\ Rank(log[i].new) = Rank(log[i].previous) + 1
                   /\ Rank(log[i].new) <= Rank(capability'.state)
              /\ log[i].outcome # "PROMOTED" => log[i].id = <<log[i].outcome, i - 1>>
  <2>1. CASE i \in 1..n /\ log[i] = transitions[i]
    BY <1>2, <1>3, <1>11, <2>1 DEF LogInv
  <2>2. CASE i = n + 1 /\ log[i].outcome = outcome /\ log[i].id = <<outcome, i - 1>>
    BY <1>12, <2>2
  <2>3. QED
    BY <1>13, <2>1, <2>2
<1>15. ASSUME NEW i \in 1..(n + 1), NEW k \in 1..(n + 1), i < k,
              log[i].outcome = "PROMOTED", log[k].outcome = "PROMOTED"
       PROVE  Rank(log[i].new) < Rank(log[k].new)
  <2>1. i \in 1..n /\ log[i] = transitions[i] /\ k \in 1..n /\ log[k] = transitions[k]
    BY <1>12, <1>13, <1>15
  <2>2. QED
    BY <1>2, <1>11, <1>15, <2>1 DEF LogInv
<1>16. LogInv'
  BY <1>10, <1>11, <1>14, <1>15 DEF LogInv
<1>17. QED
  BY <1>1, <1>2, <1>3, <1>4, <1>16, Rising

LEMMA ShadowStands ==
  ASSUME ShadowInv, GovernorChanges \/ UNCHANGED shadowVars
  PROVE  ShadowInv'
<1>1. UNCHANGED <<journal, receipts, checkpoint, proc, capability, transitions, runs, shared>>
  BY DEF GovernorChanges, shadowVars
<1>2. capability.state \in CapabilityStates /\ LogInv
  BY DEF ShadowInv, ShapeInv, CapabilityStates
<1>3. Rank(capability'.state) >= Rank(capability.state)
  BY <1>1, <1>2, RankType
<1>4. LogInv'
  BY <1>1, <1>2, LogStands
<1>5. QED
  BY <1>1, <1>2, <1>3, <1>4, Rising

LEMMA ShadowStart == ShadowInit => ShadowInv
<1> SUFFICES ASSUME ShadowInit PROVE ShadowInv
  OBVIOUS
<1>1. /\ \A p \in Processes : proc[p] = Idle
      /\ \A id \in Decided : journal[id] = Nil /\ receipts[id] = Nil
      /\ DOMAIN proc = Processes /\ DOMAIN journal = Decided /\ DOMAIN receipts = Decided
      /\ checkpoint = Nil /\ runs = 0 /\ transitions = <<>> /\ shared = {}
  BY DEF ShadowInit
<1>2. /\ DOMAIN capability = {"id", "state", "status", "evidence"}
      /\ capability.state \in {"HYPOTHESIS", "PREREGISTERED"}
  BY DEF ShadowInit
<1>3. capability.state \in ToSet(CAPABILITY_STATES)
  <2>1. DOMAIN CAPABILITY_STATES = 1..10 /\ CAPABILITY_STATES[2] = "HYPOTHESIS"
        /\ CAPABILITY_STATES[3] = "PREREGISTERED"
    BY DEF CAPABILITY_STATES
  <2>2. QED
    BY <1>2, <2>1 DEF ToSet
<1>4. ShapeInv
  BY <1>1, <1>2, <1>3, BoundsAssumption DEF ShapeInv
<1>5. EntriesInv /\ EarnedInv /\ CheckpointInv /\ AgreeInv
  BY <1>1 DEF EntriesInv, EarnedInv, CheckpointInv, AgreeInv
<1>6. StepsInv
  BY <1>1, IdleIs DEF StepsInv
<1>7. MetInv /\ AloneInv
  BY <1>1 DEF MetInv, AloneInv, Idle, Loaded
<1>8. LogInv
  <2>1. transitions = <<>> /\ DOMAIN transitions = {}
    BY <1>1
  <2>2. transitions \in Seq(Promotions \cup Withdrawals)
    BY <2>1
  <2>3. QED
    BY <2>1, <2>2 DEF LogInv
<1>9. QED
  BY <1>4, <1>5, <1>6, <1>7, <1>8 DEF ShadowInv

LEMMA ShadowStep == ShadowInv /\ [ShadowNext]_shadowVars => ShadowInv'
<1> SUFFICES ASSUME ShadowInv, [ShadowNext]_shadowVars PROVE ShadowInv'
  OBVIOUS
<1>1. ASSUME NEW p \in Processes, Continue(p) PROVE ShadowInv'
  <2>1. CASE Prepare(p) \/ AuthorizeStage(p) \/ ExecuteStage(p) \/ AccountStage(p) \/ Finalize(p)
    BY <2>1, PrepareStep, AuthorizeStep, ExecuteStep, AccountStep, FinalizeStep
  <2>2. CASE Denied(p) \/ LookReceipt(p) \/ WriteReceipt(p) \/ Return(p)
    BY <2>2, DeniedStep, LookReceiptStep, WriteReceiptStep, ReturnStep
  <2>3. CASE CreateCheckpoint(p) \/ NextObservation(p) \/ RecordReceipt(p) \/ Complete(p)
    BY <2>3, CreateStep, NextObservationStep, RecordReceiptStep, CompleteStep
  <2>4. QED
    BY <1>1, <2>1, <2>2, <2>3 DEF Continue
<1>2. ASSUME NEW p \in Processes, Dies(p) PROVE ShadowInv'
  BY <1>2, DeniedStep
<1>3. ASSUME NEW p \in Processes, NEW a \in Assumptions, (\E id \in Decided : Run(p, id, a)) \/ Replay(p, a)
      PROVE  ShadowInv'
  BY <1>3, RunStep, ReplayStep
<1>4. ASSUME NEW new \in ToSet(CAPABILITY_STATES), PromoteCapability(new) PROVE ShadowInv'
  BY <1>4, PromoteStep DEF CapabilityStates
<1>5. ASSUME NEW outcome \in NonSuccess, CapabilityNonSuccess(outcome) PROVE ShadowInv'
  BY <1>5, NonSuccessStep
<1>6. CASE GovernorChanges \/ UNCHANGED shadowVars
  BY <1>6, ShadowStands
<1>7. QED
  BY <1>1, <1>2, <1>3, <1>4, <1>5, <1>6 DEF ShadowNext

LEMMA ShadowInvHolds == ShadowSpec => []ShadowInv
BY ShadowStart, ShadowStep, PTL DEF ShadowSpec

\* An operation is begun and a receipt is written of VALID observations only.
FitInv ==
  /\ Nil \notin unfit
  /\ \A id \in Decided : receipts[id] # Nil => id \notin unfit
  /\ \A p \in Processes : proc[p].id \notin unfit

LEMMA FitGoes ==
  ASSUME ShadowInv, FitInv, NEW p \in Processes, NEW s, Goes(p, s), s.id \notin unfit, unfit' = unfit,
         receipts' = receipts \/ \E r : receipts' = [receipts EXCEPT ![proc[p].id] = r]
  PROVE  FitInv'
<1>1. /\ DOMAIN proc' = Processes /\ proc'[p] = s
      /\ \A q \in Processes \ {p} : proc'[q] = proc[q]
  BY Going DEF ShadowInv
<1>2. \A id \in Decided : id # proc[p].id => receipts'[id] = receipts[id]
  BY DEF ShadowInv, ShapeInv
<1>3. proc[p].id \notin unfit
  BY DEF FitInv
<1>4. \A id \in Decided : receipts'[id] # Nil => id \notin unfit
  BY <1>2, <1>3 DEF FitInv
<1>5. QED
  BY <1>1, <1>4 DEF FitInv

LEMMA FitLook ==
  ASSUME ShadowInv, FitInv, NEW p \in Processes, NEW step, NEW id, NEW a, Look(p, step, id, a),
         DOMAIN step = {"at", "id", "assumptions", "stamp", "memory", "replay"},
         UNCHANGED <<receipts, unfit>>
  PROVE  FitInv'
<1>1. PICK s : s = IF id \in unfit THEN Idle
                   ELSE IF journal[id] = Nil
                     THEN [step EXCEPT !.at = "prepare", !.id = id, !.assumptions = a]
                     ELSE IF journal[id].input = InputHash(id, a)
                            THEN [step EXCEPT !.at = "run", !.id = id, !.assumptions = a,
                                              !.memory = journal[id]]
                            ELSE Idle
  OBVIOUS
<1>2. Goes(p, s)
  BY <1>1 DEF Look
<1>3. Idle.id = Nil /\ Nil \notin unfit
  BY DEF Idle, FitInv
<1>4. s.id \notin unfit
  BY <1>1, <1>3
<1>5. QED
  BY <1>2, <1>4, FitGoes

LEMMA FitStep == ShadowInv /\ FitInv /\ [ShadowNext]_shadowVars => FitInv'
<1> SUFFICES ASSUME ShadowInv, FitInv, [ShadowNext]_shadowVars PROVE FitInv'
  OBVIOUS
<1>1. Idle.id = Nil /\ Nil \notin unfit
  BY DEF Idle, FitInv
<1>2. \A p \in Processes : /\ DOMAIN proc[p] = {"at", "id", "assumptions", "stamp", "memory", "replay"}
                           /\ proc[p].id \notin unfit
  BY DEF ShadowInv, StepsInv, ProcessStep, FitInv
<1>3. ASSUME NEW p \in Processes, Continue(p) PROVE FitInv'
  <2>1. CASE Denied(p) \/ Return(p) \/ Complete(p) \/ LookReceipt(p) \/ WriteReceipt(p)
    <3>1. /\ unfit' = unfit
          /\ receipts' = receipts \/ \E r : receipts' = [receipts EXCEPT ![proc[p].id] = r]
      BY <2>1 DEF Denied, Return, Complete, LookReceipt, WriteReceipt
    <3>2. PICK s : Goes(p, s) /\ (s = Idle \/ \E at : s = [proc[p] EXCEPT !.at = at])
      BY <2>1 DEF Denied, Return, Complete, LookReceipt, WriteReceipt
    <3>3. s.id \notin unfit
      BY <1>1, <1>2, <3>2
    <3>4. QED
      BY <3>1, <3>2, <3>3, FitGoes
  <2>2. CASE Prepare(p) \/ AuthorizeStage(p) \/ ExecuteStage(p) \/ AccountStage(p) \/ Finalize(p)
    <3>1. unfit' = unfit /\ receipts' = receipts
      BY <2>2 DEF Prepare, AuthorizeStage, ExecuteStage, AccountStage, Finalize
    <3>2. PICK m, at : Store(p, m, at)
      BY <2>2 DEF Prepare, AuthorizeStage, ExecuteStage, AccountStage, Finalize
    <3>3. PICK s : s = [proc[p] EXCEPT !.memory = m, !.at = at]
      OBVIOUS
    <3>4. Goes(p, s)
      BY <3>2, <3>3 DEF Store
    <3>5. s.id \notin unfit
      BY <1>2, <3>3
    <3>6. QED
      BY <3>1, <3>4, <3>5, FitGoes
  <2>3. ASSUME NEW state, Save(p, state, "next") PROVE FitInv'
    <3>1. unfit' = unfit /\ receipts' = receipts
      BY <2>3 DEF Save
    <3>2. PICK s : Goes(p, s) /\ s = [proc[p] EXCEPT !.at = "next", !.replay = state, !.id = Nil, !.memory = Nil]
      BY <2>3 DEF Save
    <3>3. s.id \notin unfit
      BY <1>1, <1>2, <3>2
    <3>4. QED
      BY <3>1, <3>2, <3>3, FitGoes
  <2>4. CASE CreateCheckpoint(p) \/ RecordReceipt(p)
    <3>1. \E state : Save(p, state, "next")
      BY <2>4 DEF CreateCheckpoint, RecordReceipt
    <3>2. QED
      BY <2>3, <3>1
  <2>5. CASE NextObservation(p)
    <3>1. CASE \E state : Save(p, state, "next")
      BY <2>3, <3>1
    <3>2. CASE \E id : /\ Look(p, proc[p], id, proc[p].assumptions)
                       /\ UNCHANGED <<receipts, unfit>>
      <4>1. PICK id : /\ Look(p, proc[p], id, proc[p].assumptions)
                      /\ UNCHANGED <<receipts, unfit>>
        BY <3>2
      <4>2. QED
        BY <1>2, <4>1, FitLook
    <3>3. QED
      BY <2>5, <3>1, <3>2 DEF NextObservation
  <2>6. QED
    BY <1>3, <2>1, <2>2, <2>4, <2>5 DEF Continue
<1>4. ASSUME NEW p \in Processes, NEW a \in Assumptions,
             Dies(p) \/ Replay(p, a) \/ \E id \in Decided : Run(p, id, a)
      PROVE  FitInv'
  <2>1. unfit' = unfit /\ receipts' = receipts
    BY <1>4 DEF Dies, Replay, Run
  <2>2. CASE Dies(p) \/ Replay(p, a)
    <3>1. CASE Dies(p)
      <4>1. Goes(p, Idle)
        BY <3>1 DEF Dies
      <4>2. QED
        BY <1>1, <2>1, <4>1, FitGoes
    <3>2. CASE Replay(p, a)
      <4>1. PICK step : step = [Idle EXCEPT !.stamp = runs', !.assumptions = a]
        OBVIOUS
      <4>2. /\ DOMAIN step = {"at", "id", "assumptions", "stamp", "memory", "replay"}
            /\ step.id = Nil
        BY <4>1 DEF Idle
      <4>3. PICK s : s = IF checkpoint = Nil THEN [step EXCEPT !.at = "create"]
                         ELSE [step EXCEPT !.at = "next", !.replay = checkpoint]
        OBVIOUS
      <4>4. Goes(p, s)
        BY <3>2, <4>1, <4>3 DEF Replay
      <4>5. s.id \notin unfit
        BY <1>1, <4>2, <4>3
      <4>6. QED
        BY <2>1, <4>4, <4>5, FitGoes
    <3>3. QED
      BY <2>2, <3>1, <3>2
  <2>3. CASE \E id \in Decided : Run(p, id, a)
    <3>1. PICK id, step : Look(p, step, id, a) /\ step = [Idle EXCEPT !.stamp = runs']
      BY <2>3 DEF Run
    <3>2. DOMAIN step = {"at", "id", "assumptions", "stamp", "memory", "replay"}
      BY <3>1 DEF Idle
    <3>3. QED
      BY <2>1, <3>1, <3>2, FitLook
  <2>4. QED
    BY <1>4, <2>2, <2>3
<1>5. ASSUME UNCHANGED <<unfit, receipts, proc>> PROVE FitInv'
  BY <1>5 DEF FitInv
<1>6. CASE \E new \in ToSet(CAPABILITY_STATES) : PromoteCapability(new)
  BY <1>5, <1>6 DEF PromoteCapability, Transition
<1>7. CASE \E outcome \in NonSuccess : CapabilityNonSuccess(outcome)
  BY <1>5, <1>7 DEF CapabilityNonSuccess, Transition
<1>8. CASE GovernorChanges \/ UNCHANGED shadowVars
  BY <1>5, <1>8 DEF GovernorChanges, shadowVars
<1>9. ASSUME NEW p \in Processes, Dies(p) PROVE FitInv'
  BY <1>4, <1>9, SettledAssumption
<1>10. QED
  BY <1>3, <1>4, <1>6, <1>7, <1>8, <1>9 DEF ShadowNext

LEMMA FitInvHolds == ShadowSpec => []FitInv
<1>1. ShadowInit => FitInv
  <2> SUFFICES ASSUME ShadowInit PROVE FitInv
    OBVIOUS
  <2>1. Nil \notin unfit
    BY NilAssumption DEF ShadowInit
  <2>2. \A p \in Processes : proc[p].id = Nil
    BY DEF ShadowInit, Idle
  <2>3. \A id \in Decided : receipts[id] = Nil
    BY DEF ShadowInit
  <2>4. QED
    BY <2>1, <2>2, <2>3 DEF FitInv
<1>2. QED
  BY <1>1, FitStep, ShadowInvHolds, PTL DEF ShadowSpec

-----------------------------------------------------------------------------

\* A replay's state, as the validator reads it.
LEMMA ProperValidates ==
  ASSUME NEW state, NEW rs, Proper(state, rs)
  PROVE  /\ Len(state.ordered) = Cardinality(ToSet(state.ordered))
         /\ ToSet(state.processed) \subseteq ToSet(state.ordered)
         /\ state.status = "COMPLETE" => state.processed = state.ordered
         /\ \A id \in state.paths : rs[id] # Nil
         /\ IsPrefix(state.processed, state.ordered)
         /\ ToSet(state.processed) \cap Decided = state.paths
<1>1. PICK k \in 0..Total : ProperAt(state, k, rs)
  BY DEF Proper
<1>2. Total \in Nat /\ k \in Nat /\ k <= Total
  BY PlaceIsPlace
<1>3. /\ state.ordered = OrderedIds /\ state.processed = [i \in 1..k |-> OrderedIds[i]]
      /\ state.paths = {OrderedIds[i] : i \in 1..k} \cap Decided
      /\ state.status = "COMPLETE" => k = Total
      /\ \A id \in state.paths : rs[id] # Nil
  BY <1>1 DEF ProperAt
<1>4. /\ OrderedIds \in Seq(Nat) /\ Len(OrderedIds) = Total /\ DOMAIN OrderedIds = 1..Total
      /\ \A i, j \in 1..Total : OrderedIds[i] = OrderedIds[j] => i = j
  BY OrderIsOrder
<1>5. ToSet(OrderedIds) = {OrderedIds[i] : i \in 1..Total}
  BY <1>4 DEF ToSet
<1>6. Cardinality(ToSet(OrderedIds)) = Total
  <2>1. PICK S : S = ToSet(OrderedIds)
    OBVIOUS
  <2>2. PICK f : f = [i \in 1..Total |-> OrderedIds[i]]
    OBVIOUS
  <2>3. f \in [1..Total -> S] /\ \A i \in 1..Total : f[i] = OrderedIds[i]
    BY <1>5, <2>1, <2>2
  <2>4. \A i, j \in 1..Total : f[i] = f[j] => i = j
    BY <1>4, <2>3
  <2>5. f \in Injection(1..Total, S)
    BY <2>3, <2>4 DEF Injection, IsInjective
  <2>6. f \in Surjection(1..Total, S)
    BY <1>5, <2>1, <2>3 DEF Surjection
  <2>7. f \in Bijection(1..Total, S)
    BY <2>5, <2>6 DEF Bijection
  <2>8. ExistsBijection(1..Total, S)
    BY <2>7 DEF ExistsBijection
  <2>9. IsFiniteSet(1..Total) /\ Cardinality(1..Total) = Total
    BY <1>2, FS_Interval
  <2>10. QED
    BY <2>1, <2>8, <2>9, FS_Bijection
<1>7. ToSet(state.processed) = {OrderedIds[i] : i \in 1..k}
  BY <1>3 DEF ToSet
<1>8. 1..k \subseteq 1..Total
  BY <1>2
<1>9. OrderedIds = [i \in 1..Total |-> OrderedIds[i]]
  BY <1>4
<1>10. IsPrefix(state.processed, OrderedIds)
  <2>1. state.processed \in Seq(Nat) /\ Len(state.processed) = k
    <3>1. \A i \in 1..k : OrderedIds[i] \in Nat
      BY <1>4, <1>8
    <3>2. state.processed \in [1..k -> Nat]
      BY <1>3, <3>1
    <3>3. QED
      BY <1>2, <3>2
  <2>2. SubSeq(state.processed, 1, k) = [i \in 1..k |-> state.processed[i]]
    BY <1>2, <2>1
  <2>3. SubSeq(OrderedIds, 1, k) = [i \in 1..k |-> OrderedIds[i]]
    BY <1>2, <1>4
  <2>4. SubSeq(state.processed, 1, k) = SubSeq(OrderedIds, 1, k)
    BY <1>3, <2>2, <2>3
  <2>5. QED
    BY <1>2, <1>4, <2>1, <2>4 DEF IsPrefix
<1>11. ToSet(state.processed) \subseteq ToSet(state.ordered)
  BY <1>3, <1>5, <1>7, <1>8
<1>12. state.status = "COMPLETE" => state.processed = state.ordered
  BY <1>3, <1>9
<1>13. Len(state.ordered) = Cardinality(ToSet(state.ordered)) /\ IsPrefix(state.processed, state.ordered)
  BY <1>3, <1>4, <1>6, <1>10
<1>14. ToSet(state.processed) \cap Decided = state.paths /\ \A id \in state.paths : rs[id] # Nil
  BY <1>3, <1>7
<1>15. QED
  BY <1>11, <1>12, <1>13, <1>14

LEMMA LogValidates == LogInv => ValidTransitions(transitions, {"E"})
<1> SUFFICES ASSUME LogInv PROVE ValidTransitions(transitions, {"E"})
  OBVIOUS
<1>1. PICK n \in Nat : DOMAIN transitions = 1..n
  BY DEF LogInv
<1>2. \A i \in 1..n : transitions[i] \in Promotions \cup Withdrawals
  BY <1>1 DEF LogInv
<1>3. \A r \in Promotions \cup Withdrawals :
        /\ r.outcome = "PROMOTED" \/ r.outcome \in NonSuccess
        /\ r.evidence = {"E"} /\ r.new \in CapabilityStates
  BY DEF Promotions, Withdrawals
<1>4. ASSUME NEW i \in 1..n, NEW k \in 1..n, i < k PROVE transitions[i].id # transitions[k].id
  <2>1. /\ transitions[i].outcome = "PROMOTED" => transitions[i].id = <<transitions[i].new>>
        /\ transitions[k].outcome = "PROMOTED" => transitions[k].id = <<transitions[k].new>>
        /\ transitions[i].outcome # "PROMOTED" => transitions[i].id = <<transitions[i].outcome, i - 1>>
        /\ transitions[k].outcome # "PROMOTED" => transitions[k].id = <<transitions[k].outcome, k - 1>>
    BY <1>1 DEF LogInv
  <2>2. CASE transitions[i].outcome = "PROMOTED" /\ transitions[k].outcome = "PROMOTED"
    <3>1. Rank(transitions[i].new) < Rank(transitions[k].new)
      BY <1>1, <1>4, <2>2 DEF LogInv
    <3>2. Rank(transitions[i].new) \in Int /\ Rank(transitions[k].new) \in Int
      BY <1>2, <1>3, RankType
    <3>3. transitions[i].new # transitions[k].new
      BY <3>1, <3>2
    <3>4. QED
      BY <2>1, <2>2, <3>3
  <2>3. CASE transitions[i].outcome # "PROMOTED" /\ transitions[k].outcome # "PROMOTED"
    <3>1. i - 1 # k - 1
      BY <1>4
    <3>2. QED
      BY <2>1, <2>3, <3>1
  <2>4. ASSUME NEW x, NEW y, NEW z PROVE <<x>> # <<y, z>>
    <3>1. Len(<<x>>) = 1 /\ Len(<<y, z>>) = 2
      OBVIOUS
    <3>2. QED
      BY <3>1
  <2>5. QED
    BY <2>1, <2>2, <2>3, <2>4
<1>5. ASSUME NEW i \in 1..n, NEW k \in 1..n, i # k PROVE transitions[i].id # transitions[k].id
  <2>1. i < k \/ k < i
    BY <1>5
  <2>2. QED
    BY <1>4, <2>1
<1>6. ASSUME NEW i \in 1..n
      PROVE  IF transitions[i].outcome = "PROMOTED"
               THEN /\ Rank(transitions[i].new) = Rank(transitions[i].previous) + 1
                    /\ transitions[i].new \notin {"CAPITAL_ELIGIBLE", "LIVE"}
                    /\ transitions[i].evidence \subseteq {"E"}
               ELSE transitions[i].outcome \in NonSuccess
  BY <1>1, <1>2, <1>3 DEF LogInv
<1>7. QED
  BY <1>1, <1>5, <1>6 DEF ValidTransitions

\* However processes overlap and die, and whatever is observed, decided and
\* assumed, the validators find no error, a replay records observations in
\* their order and after their receipts, and the log of the capability is a
\* legal history (validate_shadow_runtime, validate_capability_transitions).
THEOREM RuntimeIsValid == ShadowSpec => []RuntimeValidates
<1>1. ShadowInv => RuntimeValidates
  <2> SUFFICES ASSUME ShadowInv PROVE RuntimeValidates
    OBVIOUS
  <2>1. EntriesInv /\ CheckpointInv /\ LogInv
    BY DEF ShadowInv
  <2>2. \A id \in Decided : (journal[id] # Nil /\ journal[id].stage = "FINALIZED") => receipts[id] # Nil
    BY <2>1 DEF EntriesInv, Entry
  <2>3. checkpoint # Nil =>
          /\ Len(checkpoint.ordered) = Cardinality(ToSet(checkpoint.ordered))
          /\ ToSet(checkpoint.processed) \subseteq ToSet(checkpoint.ordered)
          /\ checkpoint.status = "COMPLETE" => checkpoint.processed = checkpoint.ordered
          /\ \A id \in checkpoint.paths : receipts[id] # Nil
          /\ IsPrefix(checkpoint.processed, checkpoint.ordered)
          /\ ToSet(checkpoint.processed) \cap Decided = checkpoint.paths
    BY <2>1, ProperValidates DEF CheckpointInv
  <2>4. ValidTransitions(transitions, {"E"})
    BY <2>1, LogValidates
  <2>5. QED
    BY <2>2, <2>3, <2>4 DEF RuntimeValidates, ValidShadowRuntime
<1>2. QED
  BY <1>1, ShadowInvHolds, PTL

\* A receipt is of a VALID observation and was allowed, to a capability that was
\* preregistered by then; its fills are within the request and the assumptions of its operation and its
\* accounting is theirs; and as long as no two processes were at the operation
\* at once it is what the journal says (ShadowLifecycle.run, ReceiptStore).
THEOREM ReceiptsStandUp == ShadowSpec => []ReceiptsAgree
<1>1. ShadowInv /\ FitInv => ReceiptsAgree
  <2> SUFFICES ASSUME ShadowInv, FitInv PROVE ReceiptsAgree
    OBVIOUS
  <2>1. EarnedInv /\ AgreeInv
    BY DEF ShadowInv
  <2>2. JournalAgrees
    <3>1. SUFFICES ASSUME NEW id \in Decided \ shared, receipts[id] # Nil
                   PROVE  /\ journal[id].stage \in {"ACCOUNTED", "FINALIZED"}
                          /\ receipts[id] = ReceiptOf(id, journal[id])
      BY DEF JournalAgrees
    <3>2. journal[id] \in FinishedJournals(id) /\ receipts[id] = ReceiptOf(id, journal[id])
      BY <2>1, <3>1 DEF AgreeInv
    <3>3. QED
      BY <3>2, FinishedIs
  <2>3. ReceiptsAreEarned
    <3>1. SUFFICES ASSUME NEW id \in Decided, receipts[id] # Nil
                   PROVE  /\ id \notin unfit
                          /\ receipts[id].authorization.allowed
                          /\ Rank(capability.state) >= Rank("PREREGISTERED")
                          /\ \E a \in Assumptions : /\ id \notin shared => a = journal[id].assumptions
                                                  /\ Respects(Request(id), receipts[id].result, a)
                          /\ receipts[id].accounting =
                               Accounting(Request(id), receipts[id].result, ObservationOf(id).close)
      BY DEF ReceiptsAreEarned
    <3>2. PICK m \in FinishedJournals(id) :
            receipts[id] = ReceiptOf(id, m) /\ (id \notin shared => m = journal[id])
      <4>1. CASE id \in shared
        BY <2>1, <3>1, <4>1 DEF EarnedInv
      <4>2. CASE id \notin shared
        BY <2>1, <3>1, <4>2 DEF AgreeInv
      <4>3. QED
        BY <4>1, <4>2
    <3>3. /\ m.assumptions \in Assumptions /\ m.authorization.allowed
          /\ m.result = ResultOf(id, m.assumptions)
          /\ m.accounting = AccountingOf(id, m.assumptions)
      BY FinishedIs
    <3>4. /\ receipts[id].authorization = m.authorization /\ receipts[id].result = m.result
          /\ receipts[id].accounting = m.accounting
      BY <3>2 DEF ReceiptOf
    <3>5. Respects(Request(id), m.result, m.assumptions)
      BY <3>3, AdapterRespects
    <3>6. Rank(capability.state) >= Rank("PREREGISTERED")
      BY <2>1, <3>1 DEF EarnedInv, Registered
    <3>7. m.accounting = Accounting(Request(id), m.result, ObservationOf(id).close)
      BY <3>3 DEF AccountingOf
    <3>8. id \notin unfit
      BY <3>1 DEF FitInv
    <3>9. QED
      BY <3>2, <3>3, <3>4, <3>5, <3>6, <3>7, <3>8
  <2>4. QED
    BY <2>2, <2>3 DEF ReceiptsAgree
<1>2. QED
  BY <1>1, ShadowInvHolds, FitInvHolds, PTL
=============================================================================
