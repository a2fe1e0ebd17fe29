----------------------------- MODULE OwnerProofs ------------------------------
(***************************************************************************)
(* Proofs about Owner, for any number of processes and ids.                *)
(***************************************************************************)
EXTENDS Owner, LeastNumber

(***************************************************************************)
(* The inductive invariant.                                                *)
(***************************************************************************)

Typed ==
    /\ table \in [Pids -> Procs \cup {None}]
    /\ parent \in [Procs -> Pids \cup {1}] /\ ended \subseteq Procs
    /\ step \in {"ident", "parent", "info", "leased", "none", "closed"}
    /\ pid \in Pids \cup {1} /\ ppid \in Pids \cup {1}
    /\ owner \in [pid : Pids \cup {0}, start : Procs \cup {None}]

\* The walk stops at a process that is there, and a lease is for an id.
Placed ==
    /\ step = "info" /\ source = "harness" => pid \in Pids
    /\ step = "leased" => owner.pid \in Pids

\* As long as the owner runs its id is its own, and so is the start time.
Meant ==
    claimed \notin ended \cup {None} =>
        /\ step = "info" /\ source = "harness" => Holder(pid) = claimed
        /\ step = "leased" => Holder(owner.pid) = claimed /\ owner.start \in {None, claimed}

\* The process of a start time has been started.
Started == owner.start \in Known \cup ended \cup {None}

IInv == Typed /\ Placed /\ Meant /\ Started /\ LiveOwnerIsKept

-----------------------------------------------------------------------------
(***************************************************************************)
(* Every step keeps it.                                                    *)
(***************************************************************************)

\* An exit leaves the table alone.
LEMMA ExitKeeps == ASSUME IInv, NEW p \in Procs, Exit(p) PROVE IInv'
BY DEF Exit, IInv, Typed, Placed, Meant, Started, Known, Holder, LiveOwnerIsKept, walkVars

\* Only processes that have exited lose their ids.
LEMMA WaitKeeps == ASSUME IInv, NEW n \in Pids, Wait(n) PROVE IInv'
<1> USE DEF Wait, walkVars
<1>1. Typed' BY DEF IInv, Typed
<1>2. \A m \in Pids : table'[m] = table[m] \/ table[m] \in ended
  BY DEF IInv, Typed
<1>3. Meant' BY <1>2 DEF IInv, Placed, Meant, Holder
<1>4. Started' BY <1>2 DEF IInv, Started, Known
<1>5. QED BY <1>1, <1>3, <1>4 DEF IInv, Placed, LiveOwnerIsKept

\* An id is given out only when it is free.
LEMMA ForkKeeps == ASSUME IInv, NEW m \in Pids, NEW n \in Pids, NEW q \in Procs, Fork(m, n, q)
                   PROVE IInv'
<1> USE DEF Fork, walkVars
<1>1. Typed' BY DEF IInv, Typed
<1>2. \A i \in Pids : table'[i] = table[i] \/ table[i] = None
  BY DEF IInv, Typed
<1>3. Meant' BY <1>2 DEF IInv, Placed, Meant, Holder
<1>4. Started' BY <1>2 DEF IInv, Started, Known
<1>5. QED BY <1>1, <1>3, <1>4 DEF IInv, Placed, LiveOwnerIsKept

\* What a look finds.
LEMMA LookFinds ==
    ASSUME Typed, NEW n \in Pids, NEW look \in procInfo(n)
    PROVE  /\ look.start \in {Holder(n), None} /\ look.start \in Procs \cup {None}
           /\ look.alive => Holder(n) # None
           /\ ~look.alive => Holder(n) \in Unreadable \cup {None}
<1>1. Holder(n) \in Procs \cup {None} BY DEF Holder, Typed
<1>2. QED BY <1>1 DEF procInfo

\* The walk and its end.
LEMMA ResolveKeeps == ASSUME IInv, Ident \/ Parent \/ Info \/ ownerFrom PROVE IInv'
<1> USE OwnerAssumption DEF tableVars, walkVars
<1>1. ASSUME Ident PROVE IInv'
  BY <1>1
     DEF Ident, IInv, Typed, Placed, Meant, Started, Known, Holder, LiveOwnerIsKept,
         identifiesHarness
<1>2. ASSUME Parent PROVE IInv'
  BY <1>2 DEF Parent, IInv, Typed, Placed, Meant, Started, Known, Holder, LiveOwnerIsKept
<1>3. ASSUME Info PROVE IInv'
  <2>1. PICK look \in procInfo(pid) : owner' = [pid |-> pid, start |-> look.start]
    BY <1>3 DEF Info
  <2>2. pid \in Pids BY <1>3 DEF Info, IInv, Placed
  <2>3. look.start \in {Holder(pid), None} /\ look.start \in Procs \cup {None}
    BY <2>2, LookFinds DEF IInv
  <2>4. QED
    BY <1>3, <2>1, <2>2, <2>3
       DEF Info, IInv, Typed, Placed, Meant, Started, Known, Holder, LiveOwnerIsKept
<1>4. ASSUME ownerFrom PROVE IInv'
  <2>1. CASE step' = "none" /\ UNCHANGED <<owner, claimed>>
    BY <1>4, <2>1
       DEF ownerFrom, IInv, Typed, Placed, Meant, Started, Known, Holder, LiveOwnerIsKept
  <2>2. ASSUME NEW n \in Pids, NEW look \in procInfo(n), step' = "leased",
               owner' = [pid |-> n, start |-> look.start], claimed' = Holder(n)
        PROVE  IInv'
    <3>1. look.start \in {Holder(n), None} /\ look.start \in Procs \cup {None}
      BY LookFinds DEF IInv
    <3>2. QED
      BY <1>4, <2>2, <3>1
         DEF ownerFrom, IInv, Typed, Placed, Meant, Started, Known, Holder, LiveOwnerIsKept
  <2>3. QED BY <1>4, <2>1, <2>2 DEF ownerFrom
<1>5. QED BY <1>1, <1>2, <1>3, <1>4

\* The reaper.
LEMMA ReapKeeps == ASSUME IInv, Reap PROVE IInv'
<1>1. PICK look \in procInfo(owner.pid) : ownerDead(owner, look)
  BY DEF Reap
<1>2. owner.pid \in Pids BY DEF Reap, IInv, Placed
<1>3. /\ look.start \in {Holder(owner.pid), None}
      /\ ~look.alive => Holder(owner.pid) \in Unreadable \cup {None}
  BY <1>2, LookFinds DEF IInv
<1>4. claimed \in ended \cup Unreadable \cup {None}
  BY <1>1, <1>3 DEF Reap, ownerDead, IInv, Meant
<1>5. QED
  BY <1>4 DEF Reap, IInv, Typed, Placed, Meant, Started, Known, LiveOwnerIsKept, tableVars,
              walkVars

\* Every step keeps the invariant.
LEMMA StepKeeps == IInv /\ [OwnerNext]_ownerVars => IInv'
<1> SUFFICES ASSUME IInv, [OwnerNext]_ownerVars PROVE IInv'
  OBVIOUS
<1>1. CASE UNCHANGED ownerVars
  BY <1>1
     DEF ownerVars, tableVars, walkVars, IInv, Typed, Placed, Meant, Started, Known, Holder,
         LiveOwnerIsKept
<1>2. CASE System
  BY <1>2, ExitKeeps, WaitKeeps, ForkKeeps DEF System
<1>3. QED BY <1>1, <1>2, ResolveKeeps, ReapKeeps DEF OwnerNext

\* The invariant holds in every state of resolveOwner and of the lease (owner.go).
THEOREM Invariance == OwnerSpec => []IInv
<1>1. OwnerInit => IInv
  BY OwnerAssumption
     DEF OwnerInit, IInv, Typed, Placed, Meant, Started, LiveOwnerIsKept
<1>2. QED BY <1>1, StepKeeps, PTL DEF OwnerSpec

-----------------------------------------------------------------------------
(***************************************************************************)
(* The properties.                                                         *)
(***************************************************************************)

\* reapDeadOwners never closes a session whose owner runs (owner.go:10), unless the
\* owner is a process that a look may fail to see (proc_linux.go:14, proc_darwin.go:8).
THEOREM LiveOwnersAreKept == OwnerSpec => []LiveOwnerIsKept
<1>1. IInv => LiveOwnerIsKept BY DEF IInv
<1>2. QED BY <1>1, Invariance, PTL

\* Whom a lease is for, when the reaper looks.
LEMMA AliveMeans ==
    Typed /\ owner.pid \in Pids /\ owner.start # None =>
        /\ Alive => Holder(owner.pid) \in {owner.start} \cup Opaque
        /\ Holder(owner.pid) = owner.start => Alive
<1> SUFFICES ASSUME Typed, owner.pid \in Pids, owner.start # None
             PROVE  /\ Alive => Holder(owner.pid) \in {owner.start} \cup Opaque
                    /\ Holder(owner.pid) = owner.start => Alive
  OBVIOUS
<1>1. owner.pid > 0
  <2>1. \A n \in Pids : n > 0 BY SMT, OwnerAssumption
  <2>2. QED BY <2>1
<1>2. ASSUME Alive PROVE Holder(owner.pid) \in {owner.start} \cup Opaque
  <2>1. PICK look \in procInfo(owner.pid) : ~ownerDead(owner, look)
    BY <1>2 DEF Alive
  <2>2. look.alive /\ look.start \in {None, owner.start}
    BY <1>1, <2>1 DEF ownerDead
  <2>3. Holder(owner.pid) # None BY <2>2, LookFinds
  <2>4. look.start = Holder(owner.pid) \/ Holder(owner.pid) \in Opaque
    BY <2>1, <2>2 DEF procInfo
  <2>5. QED BY <2>2, <2>3, <2>4
<1>3. ASSUME Holder(owner.pid) = owner.start PROVE Alive
  <2>1. [alive |-> TRUE, start |-> owner.start] \in procInfo(owner.pid)
    BY <1>3 DEF procInfo
  <2>2. ~ownerDead(owner, [alive |-> TRUE, start |-> owner.start])
    BY DEF ownerDead
  <2>3. QED BY <2>1, <2>2 DEF Alive
<1>4. QED BY <1>2, <1>3

\* No id is given to a process that was started before.
LEMMA NoneComesBack ==
    ASSUME Typed, OwnerNext, NEW n \in Pids
    PROVE  table'[n] \in {table[n], None} \/ table'[n] \notin Known \cup ended
<1>1. ASSUME NEW i \in Pids, Wait(i) PROVE table'[n] \in {table[n], None}
  BY <1>1 DEF Wait, Typed
<1>2. ASSUME NEW m \in Pids, NEW i \in Pids, NEW q \in Procs, Fork(m, i, q)
      PROVE  table'[n] = table[n] \/ table'[n] \notin Known \cup ended
  BY <1>2 DEF Fork, Typed
<1>3. ASSUME NEW p \in Procs, Exit(p) PROVE table'[n] = table[n]
  BY <1>3 DEF Exit
<1>4. Ident \/ Parent \/ Info \/ ownerFrom \/ Reap => table'[n] = table[n]
  BY DEF Ident, Parent, Info, ownerFrom, Reap, tableVars
<1>5. QED BY <1>1, <1>2, <1>3, <1>4 DEF OwnerNext, System

\* A lease that was found dead is not alive again.
LEMMA DeathStep ==
    ASSUME IInv, IInv', [OwnerNext]_ownerVars, step = "leased", owner.start # None, ~Alive
    PROVE  ~Alive' \/ Holder(owner.pid)' \in Opaque
<1>1. owner.pid \in Pids /\ Typed /\ Started BY DEF IInv, Placed
<1>2. Holder(owner.pid) # owner.start BY <1>1, AliveMeans
<1>3. owner' = owner
  BY DEF OwnerNext, System, Exit, Wait, Fork, Ident, Parent, Info, ownerFrom, Reap, ownerVars
<1>4. owner.start \in Known \cup ended BY <1>1 DEF Started
<1>5. Holder(owner.pid)' # owner.start
  <2>1. CASE UNCHANGED ownerVars
    BY <1>2, <2>1 DEF ownerVars, tableVars, Holder
  <2>2. CASE OwnerNext
    <3>1. table'[owner.pid] # owner.start
      BY <1>1, <1>2, <1>4, <2>2, NoneComesBack DEF Holder
    <3>2. QED BY <1>1, <1>3, <3>1 DEF Holder
  <2>3. QED BY <2>1, <2>2
<1>6. (Typed /\ owner.pid \in Pids /\ owner.start # None)'
  BY <1>1, <1>3 DEF IInv
<1>7. (Alive => Holder(owner.pid) \in {owner.start} \cup Opaque)'
  <2>1. (Typed /\ owner.pid \in Pids /\ owner.start # None =>
             (Alive => Holder(owner.pid) \in {owner.start} \cup Opaque))'
    BY AliveMeans, PTL
  <2>2. QED BY <1>6, <2>1
<1>8. QED BY <1>3, <1>5, <1>7

\* A dead owner stays dead, whoever is given its id (main.go:70).
THEOREM DeadStayDead == OwnerSpec => DeathIsStable
<1>1. IInv /\ IInv' /\ [OwnerNext]_ownerVars =>
        [step = "leased" /\ owner.start # None /\ ~Alive =>
             ~Alive' \/ Holder(owner.pid)' \in Opaque]_ownerVars
  BY DeathStep
<1>2. QED BY <1>1, Invariance, PTL DEF OwnerSpec, DeathIsStable

-----------------------------------------------------------------------------
(***************************************************************************)
(* The walk.  The invariant says of every line of ancestors how far the    *)
(* walk has come on it, so that nothing has to be said of how a line       *)
(* changes; that there is one, Ancestor, is shown at the end.              *)
(***************************************************************************)

\* up is the line of ancestors that Ancestor walks along.
IsChain(up) ==
    /\ up \in [0 .. maxAncestorWalk -> Pids \cup {1}] /\ up[0] = ppid
    /\ \A i \in 0 .. maxAncestorWalk - 1 :
           up[i + 1] = IF Holder(up[i]) = None THEN 1 ELSE parent[Holder(up[i])]

\* As long as nobody has exited every parent is init or is there.
Rooted ==
    ended = {} =>
        /\ ppid = 1 \/ Holder(ppid) # None
        /\ \A p \in Known \ {None} : parent[p] = 1 \/ Holder(parent[p]) # None

\* No harness among the first n of the line.
NoneBefore(up, n) == \A j \in 0 .. n - 1 : ~identifiesHarness(up[j])

\* The owner is the nearest of the line.
Nearest(up, n) ==
    /\ identifiesHarness(up[n]) /\ NoneBefore(up, n)
    /\ claimed = Holder(up[n])

\* Where the walk is, and what it has found.
OnTheWay(up) ==
    /\ step \in {"ident", "parent"} => pid = up[depth] /\ NoneBefore(up, depth)
    /\ step = "parent" => ~identifiesHarness(up[depth])
    /\ step = "info" => depth < maxAncestorWalk /\ pid = up[depth] /\ Nearest(up, depth)
    /\ step = "leased" =>
           owner.start \in {claimed, None} /\ \E n \in 0 .. maxAncestorWalk - 1 : Nearest(up, n)
    /\ step = "none" => NoneBefore(up, maxAncestorWalk)

Walked ==
    source = "harness" /\ ended = {} => \A up : IsChain(up) /\ Legible(up) => OnTheWay(up)

\* The walk is not longer than maxAncestorWalk, whatever it meets.
Bounded ==
    depth \in 0 .. maxAncestorWalk /\ (step = "parent" => depth < maxAncestorWalk)

WalkInv == IInv /\ Rooted /\ Bounded /\ Walked

\* As long as nobody has exited, all of a line are there, or init.
LEMMA LineIsThere ==
    ASSUME Typed, Rooted, ended = {}, NEW up, IsChain(up)
    PROVE  \A i \in 0 .. maxAncestorWalk : up[i] = 1 \/ Holder(up[i]) # None
<1> USE OwnerAssumption
<1> DEFINE S == {i \in 0 .. maxAncestorWalk : ~(up[i] = 1 \/ Holder(up[i]) # None)}
<1>1. SUFFICES ASSUME S # {} PROVE FALSE OBVIOUS
<1>2. PICK m \in S : \A k \in S : m <= k
  <2>1. S \in SUBSET Nat OBVIOUS
  <2>2. QED BY <1>1, <2>1, Least
<1>3. m # 0 BY DEF Rooted, IsChain
<1>4. m - 1 \in 0 .. maxAncestorWalk - 1 /\ m - 1 \notin S /\ (m - 1) + 1 = m
  <2>1. m \in 0 .. maxAncestorWalk OBVIOUS
  <2>2. m - 1 \in 0 .. maxAncestorWalk - 1 /\ (m - 1) + 1 = m /\ ~(m <= m - 1)
    BY <1>3, <2>1
  <2>3. QED
    <3> HIDE DEF S
    <3>1. QED BY <1>2, <2>2
<1>5. up[m] = IF Holder(up[m - 1]) = None THEN 1 ELSE parent[Holder(up[m - 1])]
  BY <1>4 DEF IsChain
<1>6. CASE Holder(up[m - 1]) = None BY <1>5, <1>6
<1>7. CASE Holder(up[m - 1]) # None
  <2>1. Holder(up[m - 1]) \in Known \ {None} BY <1>7 DEF Holder, Known
  <2>2. up[m] = 1 \/ Holder(up[m]) # None BY <1>5, <1>7, <2>1 DEF Rooted
  <2>3. QED BY <2>2
<1>8. QED BY <1>6, <1>7

\* A line that has come to init, or to an id without a process, has no harness from
\* there on.
LEMMA LineEnds ==
    ASSUME Typed, NEW up, IsChain(up), NEW n \in 0 .. maxAncestorWalk, Holder(up[n]) = None
    PROVE  \A i \in n .. maxAncestorWalk : Holder(up[i]) = None /\ ~identifiesHarness(up[i])
<1> USE OwnerAssumption
<1>1. Holder(1) = None
  <2>1. 1 \notin Pids BY OwnerAssumption
  <2>2. QED BY <2>1 DEF Holder
<1>2. \A i \in n .. maxAncestorWalk : Holder(up[i]) = None
  <2> DEFINE S == {i \in n .. maxAncestorWalk : Holder(up[i]) # None}
  <2>1. SUFFICES ASSUME S # {} PROVE FALSE OBVIOUS
  <2>2. PICK m \in S : \A k \in S : m <= k
    <3>1. S \in SUBSET Nat OBVIOUS
    <3>2. QED BY <2>1, <3>1, Least
  <2>3. m \in n .. maxAncestorWalk /\ m # n OBVIOUS
  <2>4. m - 1 \in n .. maxAncestorWalk /\ m - 1 \in 0 .. maxAncestorWalk - 1
        /\ (m - 1) + 1 = m /\ ~(m <= m - 1)
    BY <2>3
  <2>5. Holder(up[m - 1]) = None BY <2>2, <2>4
  <2>6. up[m] = 1 BY <2>4, <2>5 DEF IsChain
  <2>7. QED BY <1>1, <2>6
<1>3. None \notin Harness \cup Mentions BY OwnerAssumption
<1>4. QED BY <1>2, <1>3 DEF identifiesHarness

\* A step under which the processes of a line stay what they are.
LEMMA LineStays ==
    ASSUME NEW up, OnTheWay(up), depth \in 0 .. maxAncestorWalk,
           \A i \in 0 .. maxAncestorWalk : Holder(up[i])' = Holder(up[i]),
           UNCHANGED <<ended, step, pid, depth, owner, claimed>>
    PROVE  OnTheWay(up)'
<1> USE OwnerAssumption
<1>1. \A i \in 0 .. maxAncestorWalk : identifiesHarness(up[i])' <=> identifiesHarness(up[i])
  BY DEF identifiesHarness
<1>2. \A n \in 0 .. maxAncestorWalk : NoneBefore(up, n)' <=> NoneBefore(up, n)
  BY <1>1 DEF NoneBefore
<1>3. \A n \in 0 .. maxAncestorWalk : Nearest(up, n)' <=> Nearest(up, n)
  BY <1>1, <1>2 DEF Nearest
<1>4. depth \in Nat /\ maxAncestorWalk \in 0 .. maxAncestorWalk OBVIOUS
<1>5. QED BY <1>1, <1>2, <1>3, <1>4 DEF OnTheWay

\* A new process is nobody's ancestor: as long as nobody has exited no id of a line is
\* free.
LEMMA ForkWalks ==
    ASSUME WalkInv, ended = {}, NEW m \in Pids, NEW n \in Pids, NEW q \in Procs, Fork(m, n, q)
    PROVE  Rooted' /\ Walked'
<1> USE OwnerAssumption DEF Fork, walkVars
<1>1. Typed BY DEF WalkInv, IInv
<1>2. \A i \in Pids : table'[i] = IF i = n THEN q ELSE table[i] BY <1>1 DEF Typed
<1>3. \A i : Holder(i) # None => Holder(i)' = Holder(i) BY <1>1, <1>2 DEF Holder
<1>4. \A p \in Procs : parent'[p] = IF p = q THEN m ELSE parent[p] BY <1>1 DEF Typed
<1>5. Known \subseteq Procs \cup {None} BY <1>1 DEF Known, Typed
<1>6. Rooted'
  <2>1. ppid' = 1 \/ Holder(ppid)' # None BY <1>3 DEF WalkInv, Rooted
  <2>2. ASSUME NEW p \in Known' \ {None} PROVE parent'[p] = 1 \/ Holder(parent[p])' # None
    <3>1. CASE p = q
      <4>1. Holder(m) # None BY DEF Holder
      <4>2. QED BY <1>3, <1>4, <3>1, <4>1
    <3>2. CASE p # q
      <4>1. p \in Known \ {None} BY <1>2, <3>2 DEF Known
      <4>2. QED BY <1>3, <1>4, <1>5, <3>2, <4>1 DEF WalkInv, Rooted
    <3>3. QED BY <3>1, <3>2
  <2>3. QED BY <2>1, <2>2 DEF Rooted
<1>7. ASSUME NEW up, IsChain(up)', Legible(up)', source = "harness" PROVE OnTheWay(up)'
  <2>1. /\ up \in [0 .. maxAncestorWalk -> Pids \cup {1}] /\ up[0] = ppid
        /\ \A i \in 0 .. maxAncestorWalk - 1 :
               up[i + 1] = IF Holder(up[i])' = None THEN 1 ELSE parent'[Holder(up[i])']
    BY <1>7 DEF IsChain
  <2>2. Holder(1) = None /\ Holder(1)' = None
    <3>1. 1 \notin Pids OBVIOUS
    <3>2. QED BY <3>1 DEF Holder
  <2> DEFINE S == {i \in 0 .. maxAncestorWalk : ~(up[i] = 1 \/ Holder(up[i]) # None)}
  <2>3. ASSUME NEW i \in 0 .. maxAncestorWalk - 1, i \notin S
        PROVE  /\ Holder(up[i])' = Holder(up[i]) /\ i + 1 \notin S
               /\ up[i + 1] = IF Holder(up[i]) = None THEN 1 ELSE parent[Holder(up[i])]
    <3>1. i \in 0 .. maxAncestorWalk OBVIOUS
    <3>2. up[i] = 1 \/ Holder(up[i]) # None BY <2>3, <3>1
    <3>3. Holder(up[i])' = Holder(up[i]) BY <1>3, <2>2, <3>2
    <3>4. CASE up[i] = 1 BY <2>1, <2>2, <3>3, <3>4
    <3>5. CASE Holder(up[i]) # None
      <4>1. Holder(up[i]) \in Known \ {None} /\ Holder(up[i]) \in Procs
        BY <1>5, <3>5 DEF Holder, Known
      <4>2. up[i + 1] = parent[Holder(up[i])] BY <1>4, <2>1, <3>3, <3>5, <4>1
      <4>3. up[i + 1] = 1 \/ Holder(up[i + 1]) # None BY <4>1, <4>2 DEF WalkInv, Rooted
      <4>4. QED BY <3>3, <3>5, <4>2, <4>3
    <3>6. QED BY <3>2, <3>4, <3>5
  <2>4. S = {}
    <3>1. SUFFICES ASSUME S # {} PROVE FALSE OBVIOUS
    <3>2. PICK l \in S : \A k \in S : l <= k
      <4>1. S \in SUBSET Nat OBVIOUS
      <4>2. QED BY <3>1, <4>1, Least
    <3>3. l # 0 BY <2>1 DEF WalkInv, Rooted
    <3>4. /\ l - 1 \in 0 .. maxAncestorWalk - 1 /\ (l - 1) + 1 = l /\ ~(l <= l - 1)
      <4>1. l \in 0 .. maxAncestorWalk OBVIOUS
      <4>2. QED BY <3>3, <4>1
    <3> HIDE DEF S
    <3>5. l - 1 \notin S BY <3>2, <3>4
    <3>6. QED BY <2>3, <3>2, <3>4, <3>5
  <2>5. IsChain(up) BY <2>1, <2>3, <2>4 DEF IsChain
  <2>6. ASSUME NEW i \in 0 .. maxAncestorWalk PROVE Holder(up[i])' = Holder(up[i])
    <3>1. i \notin S BY <2>4
    <3>2. QED BY <1>3, <2>2, <3>1
  <2>7. Legible(up)
    <3>1. \A i \in 0 .. maxAncestorWalk - 1 : i \in 0 .. maxAncestorWalk OBVIOUS
    <3>2. QED BY <1>7, <2>6, <3>1 DEF Legible
  <2>8. OnTheWay(up) /\ depth \in 0 .. maxAncestorWalk
    BY <1>7, <2>5, <2>7 DEF WalkInv, Walked, Bounded
  <2>9. QED BY <2>6, <2>8, LineStays
<1>8. QED BY <1>6, <1>7 DEF WalkInv, Walked

\* The looks of the walk leave the processes alone.
LEMMA LookWalks ==
    ASSUME WalkInv, ended = {}, Ident \/ Parent \/ Info \/ ownerFrom \/ Reap
    PROVE  Rooted' /\ Walked'
<1> USE OwnerAssumption DEF tableVars, walkVars
<1>1. /\ UNCHANGED <<table, parent, ended, source, ppid>> /\ Typed
      /\ depth \in 0 .. maxAncestorWalk /\ depth \in Nat /\ maxAncestorWalk \in Nat
  BY DEF Ident, Parent, Info, ownerFrom, Reap, WalkInv, IInv, Bounded
<1>2. \A i : Holder(i)' = Holder(i) BY <1>1 DEF Holder
<1>3. Rooted' BY <1>1, <1>2 DEF WalkInv, Rooted, Known
<1>4. \A up : (IsChain(up)' <=> IsChain(up)) /\ (Legible(up)' <=> Legible(up))
  BY <1>1, <1>2 DEF IsChain, Legible
<1>5. \A i : identifiesHarness(i)' <=> identifiesHarness(i)
  BY <1>1, <1>2 DEF identifiesHarness
<1>6. \A up, n : NoneBefore(up, n)' <=> NoneBefore(up, n) BY <1>5 DEF NoneBefore
<1>7. CASE Ident
  <2>1. ASSUME NEW up, IsChain(up), Legible(up), source = "harness" PROVE OnTheWay(up)'
    <3>1. OnTheWay(up) /\ pid = up[depth] /\ NoneBefore(up, depth)
      BY <1>1, <1>7, <2>1 DEF Ident, WalkInv, Walked, OnTheWay
    <3>2. CASE step' = "none" /\ depth = maxAncestorWalk
      BY <1>6, <3>1, <3>2 DEF OnTheWay
    <3>3. CASE step' = "none" /\ pid = 1
      <4>1. Holder(up[depth]) = None
        <5>1. 1 \notin Pids OBVIOUS
        <5>2. QED BY <3>1, <3>3, <5>1 DEF Holder
      <4>2. \A j \in depth .. maxAncestorWalk : ~identifiesHarness(up[j])
        BY <1>1, <2>1, <4>1, LineEnds
      <4>3. NoneBefore(up, maxAncestorWalk) BY <1>1, <3>1, <4>2 DEF NoneBefore
      <4>4. QED BY <1>6, <3>3, <4>3 DEF OnTheWay
    <3>4. CASE depth < maxAncestorWalk /\ identifiesHarness(pid) /\ step' = "info"
                 /\ claimed' = Holder(pid)
      <4>1. depth' = depth /\ pid' = pid BY <1>7 DEF Ident
      <4>2. Nearest(up, depth)' BY <1>2, <1>5, <1>6, <3>1, <3>4, <4>1 DEF Nearest
      <4>3. QED BY <3>1, <3>4, <4>1, <4>2 DEF OnTheWay
    <3>5. CASE depth < maxAncestorWalk /\ MayLookOtherwise(pid) /\ step' = "parent"
      <4>1. depth' = depth /\ pid' = pid BY <1>7 DEF Ident
      <4>2. depth \in 0 .. maxAncestorWalk - 1 BY <1>1, <3>5
      <4>3. ~identifiesHarness(pid) BY <2>1, <3>1, <3>5, <4>2 DEF MayLookOtherwise, Legible
      <4>4. QED BY <1>5, <1>6, <3>1, <3>5, <4>1, <4>3 DEF OnTheWay
    <3>6. QED BY <1>7, <3>2, <3>3, <3>4, <3>5 DEF Ident
  <2>2. QED BY <1>1, <1>3, <1>4, <2>1 DEF Walked
<1>8. CASE Parent
  <2>1. /\ Holder(pid) = None => step' = "none" /\ depth' = depth
        /\ Holder(pid) \notin Unreadable \cup {None} =>
               step' = "ident" /\ pid' = parent[Holder(pid)] /\ depth' = depth + 1
    BY <1>8 DEF Parent
  <2>2. ASSUME NEW up, IsChain(up), Legible(up), source = "harness"
        PROVE  OnTheWay(up)'
    <3>1. /\ pid = up[depth] /\ NoneBefore(up, depth) /\ depth < maxAncestorWalk
          /\ ~identifiesHarness(up[depth])
      BY <1>1, <1>8, <2>2 DEF Parent, WalkInv, Bounded, Walked, OnTheWay
    <3>2. CASE Holder(pid) = None
      <4>1. \A j \in depth .. maxAncestorWalk : ~identifiesHarness(up[j])
        BY <1>1, <2>2, <3>1, <3>2, LineEnds
      <4>2. NoneBefore(up, maxAncestorWalk) BY <1>1, <3>1, <4>1 DEF NoneBefore
      <4>3. QED BY <1>6, <2>1, <3>1, <3>2, <4>2 DEF OnTheWay
    <3>3. CASE Holder(pid) # None
      <4>1. up[depth + 1] = parent[Holder(pid)]
        <5>1. depth \in 0 .. maxAncestorWalk - 1 BY <1>1, <3>1
        <5>2. QED BY <2>2, <3>1, <3>3, <5>1 DEF IsChain
      <4>2. NoneBefore(up, depth + 1)
        <5>1. \A j \in 0 .. (depth + 1) - 1 : j \in 0 .. depth - 1 \/ j = depth BY <1>1
        <5>2. QED BY <3>1, <5>1 DEF NoneBefore
      <4>3. Holder(pid) \notin Unreadable
        <5>1. depth \in 0 .. maxAncestorWalk - 1 BY <1>1, <3>1
        <5>2. QED BY <2>2, <3>1, <5>1 DEF Legible
      <4>4. QED BY <1>6, <2>1, <3>1, <3>3, <4>1, <4>2, <4>3 DEF OnTheWay
    <3>4. QED BY <3>2, <3>3
  <2>3. QED BY <1>1, <1>3, <1>4, <2>2 DEF Walked
<1>9. CASE Info
  <2>1. UNCHANGED <<depth, claimed>> /\ step = "info" /\ step' = "leased" /\ pid \in Pids
    BY <1>9 DEF Info, WalkInv, IInv, Placed
  <2>2. PICK look \in procInfo(pid) : owner' = [pid |-> pid, start |-> look.start]
    BY <1>9 DEF Info
  <2>3. owner'.start \in {Holder(pid), None} BY <1>1, <2>1, <2>2, LookFinds
  <2>4. ASSUME NEW up, IsChain(up), Legible(up), source = "harness" PROVE OnTheWay(up)'
    <3>1. pid = up[depth] /\ Nearest(up, depth) /\ depth < maxAncestorWalk
      BY <1>1, <2>1, <2>4 DEF WalkInv, Walked, OnTheWay
    <3>2. Nearest(up, depth)' BY <1>2, <1>5, <1>6, <2>1, <3>1 DEF Nearest
    <3>3. depth' \in 0 .. maxAncestorWalk - 1 BY <1>1, <2>1, <3>1
    <3>4. owner'.start \in {claimed', None} BY <2>1, <2>3, <3>1 DEF Nearest
    <3>5. \E n \in 0 .. maxAncestorWalk - 1 : Nearest(up, n)' BY <2>1, <3>2, <3>3
    <3>6. QED BY <2>1, <3>4, <3>5 DEF OnTheWay
  <2>5. QED BY <1>1, <1>3, <1>4, <2>1, <2>4 DEF Walked
<1>10. CASE ownerFrom
  <2>1. source = "number" /\ depth' = depth BY <1>10 DEF ownerFrom
  <2>2. QED BY <1>1, <1>3, <2>1 DEF Walked
<1>11. CASE Reap
  <2>1. step' = "closed" /\ depth' = depth BY <1>11 DEF Reap
  <2>2. \A up : OnTheWay(up)' BY <2>1 DEF OnTheWay
  <2>3. QED BY <1>1, <1>3, <2>1, <2>2 DEF Walked
<1>12. QED BY <1>7, <1>8, <1>9, <1>10, <1>11

\* The walk counts its steps.
LEMMA BoundedKeeps == ASSUME Bounded, [OwnerNext]_ownerVars PROVE Bounded'
<1> USE OwnerAssumption DEF Bounded, tableVars, walkVars
<1>1. CASE UNCHANGED ownerVars BY <1>1 DEF ownerVars
<1>2. CASE System BY <1>2 DEF System, Exit, Wait, Fork
<1>3. CASE Ident BY <1>3 DEF Ident
<1>4. CASE Parent BY <1>4 DEF Parent
<1>5. CASE Info \/ ownerFrom \/ Reap BY <1>5 DEF Info, ownerFrom, Reap
<1>6. QED BY <1>1, <1>2, <1>3, <1>4, <1>5 DEF OwnerNext

\* Every step keeps what is known of the walk; once somebody has exited nothing is.
LEMMA WalkStep == WalkInv /\ [OwnerNext]_ownerVars => WalkInv'
<1> SUFFICES ASSUME WalkInv, [OwnerNext]_ownerVars PROVE WalkInv'
  OBVIOUS
<1>1. IInv' /\ Bounded' BY StepKeeps, BoundedKeeps DEF WalkInv
<1>2. ASSUME ended' = {} PROVE Rooted' /\ Walked'
  <2>1. CASE UNCHANGED ownerVars
    <3>1. /\ UNCHANGED <<table, parent, ended, source, step, ppid, pid, depth, owner, claimed>>
      BY <2>1 DEF ownerVars, tableVars, walkVars
    <3>2. QED
      BY <3>1 DEF WalkInv, Rooted, Walked, Known, Holder, IsChain, Legible, OnTheWay, Nearest,
                  NoneBefore, identifiesHarness
  <2>2. ASSUME NEW p \in Procs, Exit(p) PROVE FALSE
    BY <1>2, <2>2 DEF Exit
  <2>3. ASSUME NEW n \in Pids, Wait(n) PROVE FALSE
    BY <1>2, <2>3 DEF Wait
  <2>4. ASSUME NEW m \in Pids, NEW n \in Pids, NEW q \in Procs, Fork(m, n, q)
        PROVE  Rooted' /\ Walked'
    <3>1. ended = {} BY <1>2, <2>4 DEF Fork
    <3>2. QED BY <2>4, <3>1, ForkWalks
  <2>5. CASE Ident \/ Parent \/ Info \/ ownerFrom \/ Reap
    <3>1. ended = {}
      BY <1>2, <2>5 DEF Ident, Parent, Info, ownerFrom, Reap, tableVars
    <3>2. QED BY <2>5, <3>1, LookWalks
  <2>6. QED BY <2>1, <2>2, <2>3, <2>4, <2>5 DEF OwnerNext, System
<1>3. ASSUME ended' # {} PROVE Rooted' /\ Walked'
  BY <1>3 DEF Rooted, Walked
<1>4. QED BY <1>1, <1>2, <1>3 DEF WalkInv

\* The walk begins at the client's parent.
LEMMA WalkInit == OwnerInit => Rooted /\ Bounded /\ Walked
<1> SUFFICES ASSUME OwnerInit PROVE Rooted /\ Bounded /\ Walked
  OBVIOUS
<1>1. Rooted BY DEF OwnerInit, Rooted, Known
<1>2. Bounded BY OwnerAssumption DEF OwnerInit, Bounded
<1>3. ASSUME NEW up, IsChain(up), Legible(up), source = "harness" PROVE OnTheWay(up)
  <2>1. step = "ident" /\ pid = ppid /\ depth = 0 BY <1>3 DEF OwnerInit
  <2>2. NoneBefore(up, 0)
    <3>1. 0 .. 0 - 1 = {} OBVIOUS
    <3>2. QED BY <3>1 DEF NoneBefore
  <2>3. QED BY <1>3, <2>1, <2>2 DEF OnTheWay, IsChain
<1>4. QED BY <1>1, <1>2, <1>3 DEF Walked

\* There is a line of ancestors, and Ancestor is it.
LEMMA AncestorIsTheLine == ASSUME Typed PROVE IsChain(Ancestor)
<1> USE OwnerAssumption
<1> DEFINE Up(x) == IF Holder(x) = None THEN 1 ELSE parent[Holder(x)]
           A == 0 .. maxAncestorWalk
           Goes(f, n) == f[0] = ppid /\ \A i \in 0 .. n - 1 : f[i + 1] = Up(f[i])
           S == {n \in A : ~\E f \in [A -> Pids \cup {1}] : Goes(f, n)}
<1>1. \A x : Up(x) \in Pids \cup {1}
  <2>1. \A x : Holder(x) \in Procs \cup {None} BY DEF Holder, Typed
  <2>2. QED BY <2>1 DEF Typed
<1>2. S = {}
  <2>1. SUFFICES ASSUME S # {} PROVE FALSE OBVIOUS
  <2>2. PICK m \in S : \A k \in S : m <= k
    <3>1. S \in SUBSET Nat OBVIOUS
    <3> HIDE DEF S
    <3>2. QED BY <2>1, <3>1, Least
  <2>3. m \in A /\ ~\E f \in [A -> Pids \cup {1}] : Goes(f, m) OBVIOUS
  <2>4. CASE m = 0
    <3>1. [i \in A |-> ppid] \in [A -> Pids \cup {1}] BY DEF Typed
    <3>2. Goes([i \in A |-> ppid], m) BY <2>4
    <3>3. QED BY <2>3, <3>1, <3>2
  <2>5. CASE m # 0
    <3>1. m - 1 \in A /\ ~(m <= m - 1) BY <2>3, <2>5
    <3>2. m - 1 \notin S
      <4> HIDE DEF S
      <4>1. QED BY <2>2, <3>1
    <3>3. PICK f \in [A -> Pids \cup {1}] : Goes(f, m - 1) BY <3>1, <3>2
    <3> DEFINE g == [f EXCEPT ![m] = Up(f[m - 1])]
    <3>4. g \in [A -> Pids \cup {1}]
      <4> HIDE DEF Up
      <4>1. QED BY <1>1, <2>3, <3>3
    <3>5. Goes(g, m)
      <4> HIDE DEF Up
      <4>1. \A i \in A : g[i] = IF i = m THEN Up(f[m - 1]) ELSE f[i] BY <3>3
      <4>2. g[0] = ppid BY <2>5, <3>3, <4>1
      <4>3. ASSUME NEW i \in 0 .. m - 1 PROVE g[i + 1] = Up(g[i])
        <5>1. i \in A /\ i + 1 \in A /\ i # m BY <2>3
        <5>2. g[i] = f[i] BY <4>1, <5>1
        <5>3. CASE i = m - 1 BY <4>1, <5>1, <5>2, <5>3
        <5>4. CASE i # m - 1
          <6>1. i \in 0 .. (m - 1) - 1 /\ i + 1 # m BY <2>3, <5>4
          <6>2. f[i + 1] = Up(f[i]) BY <3>3, <6>1
          <6>3. QED BY <4>1, <5>1, <5>2, <6>1, <6>2
        <5>5. QED BY <5>3, <5>4
      <4>4. QED BY <4>2, <4>3
    <3>6. QED BY <2>3, <3>4, <3>5
  <2>6. QED BY <2>4, <2>5
<1> DEFINE R(f) == [i \in A |-> IF i = 0 THEN ppid
                                ELSE IF Holder(f[i - 1]) = None THEN 1
                                     ELSE parent[Holder(f[i - 1])]]
<1>3. PICK f \in [A -> Pids \cup {1}] : Goes(f, maxAncestorWalk)
  <2>1. maxAncestorWalk \in A OBVIOUS
  <2>2. maxAncestorWalk \notin S
    <3> HIDE DEF S
    <3>1. QED BY <1>2
  <2>3. QED BY <2>1, <2>2
<1>4. f = R(f)
  <2>1. ASSUME NEW i \in A PROVE f[i] = R(f)[i]
    <3>1. CASE i = 0 BY <1>3, <3>1
    <3>2. CASE i # 0
      <4>1. i - 1 \in 0 .. maxAncestorWalk - 1 /\ (i - 1) + 1 = i BY <3>2
      <4>2. f[i] = Up(f[i - 1]) BY <1>3, <4>1
      <4>3. QED BY <3>2, <4>2
    <3>3. QED BY <3>1, <3>2
  <2>2. QED BY <2>1
<1>5. Ancestor = CHOOSE g : g = R(g) BY DEF Ancestor
<1>6. Ancestor = R(Ancestor)
  <2> HIDE DEF R
  <2>1. QED BY <1>4, <1>5
<1>7. ASSUME NEW i \in 0 .. maxAncestorWalk - 1 PROVE Ancestor[i + 1] = Up(Ancestor[i])
  <2>1. i + 1 \in A /\ i + 1 # 0 /\ (i + 1) - 1 = i OBVIOUS
  <2>2. QED BY <1>6, <2>1
<1>8. Ancestor[0] = ppid BY <1>6
<1>9. Ancestor \in [A -> Pids \cup {1}]
  <2>1. \A i \in A : R(Ancestor)[i] \in Pids \cup {1} BY <1>1 DEF Typed
  <2>2. R(Ancestor) \in [A -> Pids \cup {1}] BY <2>1
  <2>3. QED BY <1>6, <2>2
<1>10. QED BY <1>7, <1>8, <1>9 DEF IsChain

-----------------------------------------------------------------------------
\* Nobody having exited, and the first maxAncestorWalk ancestors being readable,
\* resolveOwner returns the nearest of them that is a harness, and nothing only if
\* none is one (owner.go:29, 42).
THEOREM NearestIsTaken == OwnerSpec => []NearestIsOwner
<1>1. OwnerInit => WalkInv
  BY WalkInit, OwnerAssumption
     DEF OwnerInit, WalkInv, IInv, Typed, Placed, Meant, Started, LiveOwnerIsKept
<1>2. WalkInv => NearestIsOwner
  <2> SUFFICES ASSUME WalkInv, source = "harness", step \in {"leased", "none"}, ended = {},
                      Legible(Ancestor)
               PROVE  NearestIsOwner
    BY DEF NearestIsOwner
  <2> DEFINE found == {i \in 0 .. maxAncestorWalk - 1 : identifiesHarness(Ancestor[i])}
  <2>1. OnTheWay(Ancestor)
    BY AncestorIsTheLine DEF WalkInv, IInv, Walked
  <2>2. CASE step = "none"
    <3>1. found = {} BY <2>1, <2>2 DEF OnTheWay, NoneBefore
    <3>2. QED BY <2>2, <3>1 DEF NearestIsOwner
  <2>3. CASE step = "leased"
    <3>1. PICK n \in 0 .. maxAncestorWalk - 1 : Nearest(Ancestor, n)
      BY <2>1, <2>3 DEF OnTheWay
    <3>2. n \in found /\ claimed = Holder(Ancestor[n]) /\ owner.start \in {claimed, None}
      BY <2>1, <2>3, <3>1 DEF OnTheWay, Nearest
    <3>3. ASSUME NEW j \in found PROVE n <= j
      <4>1. j \notin 0 .. n - 1 BY <3>1 DEF Nearest, NoneBefore
      <4>2. QED BY <4>1
    <3>4. found # {} BY <3>2
    <3> HIDE DEF found
    <3>5. \E i \in found : /\ \A j \in found : i <= j
                           /\ claimed = Holder(Ancestor[i])
                           /\ owner.start \in {claimed, None}
      BY <3>2, <3>3
    <3>6. QED BY <3>4, <3>5 DEF NearestIsOwner, found
  <2>4. QED BY <2>2, <2>3
<1>3. QED BY <1>1, <1>2, WalkStep, PTL DEF OwnerSpec
=============================================================================
