------------------------------- MODULE Owner --------------------------------
(***************************************************************************)
(* The owner of a session: resolveOwner in the client, ownerDead in the    *)
(* daemon (go/owner.go).  procInfo, ppidOf and procIdent are looks at the  *)
(* process table of the system, each at a moment of its own, while         *)
(* processes end and their ids are given to others.                        *)
(***************************************************************************)
EXTENDS Naturals

CONSTANTS
    Procs,           \* processes; one stands for its start time, too
    Pids,            \* process ids that are given out; 1 is that of init
    maxAncestorWalk,
    Harness,         \* processes that run claude or codex
    Mentions,        \* processes with an argument whose last part reads so
    Opaque,          \* processes of which not every look can read the start time
    Unreadable,      \* processes of which not every look can read anything
    None             \* no process, no start time

ASSUME OwnerAssumption ==
    /\ Pids \subseteq Nat \ {0, 1} /\ maxAncestorWalk \in Nat
    /\ None \notin Procs /\ Harness \cup Mentions \cup Opaque \cup Unreadable \subseteq Procs

VARIABLES
    table,     \* the process an id stands for, until it has been waited for
    parent,    \* the parent's id of every process
    ended,     \* processes that have exited
    source,    \* where the client takes the owner from
    step,      \* of resolveOwner, then of the lease
    ppid,      \* the client's parent
    pid, depth,    \* of harnessPID
    owner,     \* what resolveOwner returns, 0 for no owner
    claimed    \* history: the process that was meant

tableVars == <<table, parent, ended>>
walkVars == <<source, ppid, pid, depth>>
ownerVars == <<tableVars, step, walkVars, owner, claimed>>

Holder(n) == IF n \in Pids THEN table[n] ELSE None
Known == {table[n] : n \in Pids}

OwnerTypeOK ==
    /\ table \in [Pids -> Procs \cup {None}]
    /\ parent \in [Procs -> Pids \cup {1}]
    /\ ended \subseteq Procs
    /\ source \in {"number", "harness"}
    /\ step \in {"ident", "parent", "info", "leased", "none", "closed"}
    /\ ppid \in Pids \cup {1} /\ pid \in Pids \cup {1} /\ depth \in 0 .. maxAncestorWalk
    /\ owner \in [pid : Pids \cup {0}, start : Procs \cup {None}]
    /\ claimed \in Procs \cup {None}

\* Some processes run, each younger than its parent; no id was reused so far.
OwnerInit ==
    /\ table \in [Pids -> Procs \cup {None}]
    /\ \A m, n \in Pids : table[m] = table[n] => m = n \/ table[m] = None
    /\ parent \in [Procs -> Pids \cup {1}]
    /\ \A p \in Procs \ Known : parent[p] = 1
    /\ \A n \in Pids : table[n] # None =>
           parent[table[n]] < n /\ (parent[table[n]] = 1 \/ Holder(parent[table[n]]) # None)
    /\ ended = {}
    /\ source \in {"number", "harness"}
    /\ step = IF source = "harness" THEN "ident" ELSE "info"
    /\ ppid \in Pids \cup {1}
    /\ pid = (IF source = "harness" THEN ppid ELSE 1) /\ depth = 0
    /\ ppid # 1 => Holder(ppid) # None
    /\ owner = [pid |-> 0, start |-> None] /\ claimed = None

-----------------------------------------------------------------------------
(* The system.                                                             *)

\* A process exits: its children become those of init, its entry stays.
Exit(p) ==
    /\ p \in Known \ (ended \cup {None})
    /\ ended' = ended \cup {p}
    /\ parent' = [q \in Procs |-> IF Holder(parent[q]) = p THEN 1 ELSE parent[q]]
    /\ UNCHANGED <<table, step, walkVars, owner, claimed>>

\* Somebody has waited for it, and the id is free again.
Wait(n) ==
    /\ table[n] \in ended
    /\ table' = [table EXCEPT ![n] = None]
    /\ UNCHANGED <<parent, ended, step, walkVars, owner, claimed>>

Fork(m, n, q) ==
    /\ table[m] \notin ended \cup {None} /\ table[n] = None
    /\ q \notin Known \cup ended
    /\ table' = [table EXCEPT ![n] = q] /\ parent' = [parent EXCEPT ![q] = m]
    /\ UNCHANGED <<ended, step, walkVars, owner, claimed>>

System ==
    \/ \E p \in Procs : Exit(p)
    \/ \E n \in Pids : Wait(n)
    \/ \E m, n \in Pids, q \in Procs : Fork(m, n, q)

-----------------------------------------------------------------------------
(* resolveOwner.                                                           *)

\* What a look may find.  On Linux and macOS an entry that cannot be read counts as
\* none; on Windows, where that is not so, there are no Unreadable processes.
procInfo(n) ==
    {look \in [alive : BOOLEAN, start : {Holder(n), None}] :
        IF look.alive
        THEN Holder(n) # None /\ (look.start = None => Holder(n) \in Opaque)
        ELSE Holder(n) \in Unreadable \cup {None} /\ look.start = None}

\* Every word of the command line that can be read is looked at, those of a process
\* that has exited are gone.
identifiesHarness(n) == Holder(n) \in Harness \cup (Mentions \ ended)
MayLookOtherwise(n) == ~identifiesHarness(n) \/ Holder(n) \in Unreadable

\* Fault: a process of the walk too few.
IdentOneLess ==
    /\ step = "ident"
    /\ \/ (depth + 1 >= maxAncestorWalk \/ pid = 1) /\ step' = "none" /\ UNCHANGED claimed
       \/ /\ depth + 1 < maxAncestorWalk /\ pid > 1 /\ identifiesHarness(pid)
          /\ step' = "info" /\ claimed' = Holder(pid)
       \/ /\ depth + 1 < maxAncestorWalk /\ pid > 1 /\ MayLookOtherwise(pid)
          /\ step' = "parent" /\ UNCHANGED claimed
    /\ UNCHANGED <<tableVars, walkVars, owner>>

Ident ==
    /\ step = "ident"
    /\ \/ (depth = maxAncestorWalk \/ pid = 1) /\ step' = "none" /\ UNCHANGED claimed
       \/ /\ depth < maxAncestorWalk /\ pid > 1 /\ identifiesHarness(pid)
          /\ step' = "info" /\ claimed' = Holder(pid)
       \/ /\ depth < maxAncestorWalk /\ pid > 1 /\ MayLookOtherwise(pid)
          /\ step' = "parent" /\ UNCHANGED claimed
    /\ UNCHANGED <<tableVars, walkVars, owner>>

Parent ==
    /\ step = "parent"
    /\ \/ /\ Holder(pid) \in Unreadable \cup {None}
          /\ step' = "none" /\ UNCHANGED <<pid, depth>>
       \/ /\ Holder(pid) # None
          /\ step' = "ident" /\ pid' = parent[Holder(pid)] /\ depth' = depth + 1
    /\ UNCHANGED <<tableVars, source, ppid, owner, claimed>>

\* The start time of what the walk has found.
Info ==
    /\ step = "info" /\ source = "harness" /\ step' = "leased"
    /\ \E look \in procInfo(pid) : owner' = [pid |-> pid, start |-> look.start]
    /\ UNCHANGED <<tableVars, walkVars, claimed>>

\* ownerFrom: a number from --owner-pid or REPLD_OWNER_PID, or no number.
ownerFrom ==
    /\ step = "info" /\ source = "number"
    /\ \/ step' = "none" /\ UNCHANGED <<owner, claimed>>
       \/ /\ step' = "leased"
          /\ \E n \in Pids : \E look \in procInfo(n) :
                 owner' = [pid |-> n, start |-> look.start] /\ claimed' = Holder(n)
    /\ UNCHANGED <<tableVars, walkVars>>

-----------------------------------------------------------------------------
(* The lease in the daemon.                                                *)

\* Fault: the id alone tells.
ownerDeadById(o, look) == o.pid > 0 /\ ~look.alive

\* Fault: a start time that cannot be read differs from every other.
ownerDeadUnread(o, look) == o.pid > 0 /\ (~look.alive \/ look.start # o.start)

ownerDead(o, look) ==
    /\ o.pid > 0
    /\ ~look.alive \/ (o.start # None /\ look.start \notin {None, o.start})

\* reapDeadOwners closes the session.
Reap ==
    /\ step = "leased"
    /\ \E look \in procInfo(owner.pid) : ownerDead(owner, look)
    /\ step' = "closed"
    /\ UNCHANGED <<tableVars, walkVars, owner, claimed>>

OwnerNext == System \/ Ident \/ Parent \/ Info \/ ownerFrom \/ Reap

OwnerSpec == OwnerInit /\ [][OwnerNext]_ownerVars

-----------------------------------------------------------------------------
(* Properties.                                                             *)

\* A session is not closed under an owner that lives, whatever became of its id and
\* of its start time: unless the owner is a process that a look may fail to see at
\* all (proc_linux.go:14-16, 26-29, proc_darwin.go:7-9).
LiveOwnerIsKept == step = "closed" => claimed \in ended \cup Unreadable \cup {None}

\* "Access restrictions must not make us reap a live owner" (proc_windows.go:33):
\* refuted on the other systems, where a look that fails finds the owner dead.
NoLiveOwnerIsReaped == step = "closed" => claimed \in ended \cup {None}

Alive == \E look \in procInfo(owner.pid) : ~ownerDead(owner, look)

\* An owner that is dead for one tick of the reaper is dead for the next, though its
\* id has been given to another process in between ("guards against pid reuse",
\* main.go:70): unless its start time or the other's could not be read.  Dead is
\* here what no look finds alive.
DeathIsStable ==
    [][step = "leased" /\ owner.start # None /\ ~Alive =>
           ~Alive' \/ Holder(owner.pid)' \in Opaque]_ownerVars

\* The ancestors of the client, from its parent on.
Ancestor[i \in 0 .. maxAncestorWalk] ==
    IF i = 0 THEN ppid
    ELSE IF Holder(Ancestor[i - 1]) = None THEN 1 ELSE parent[Holder(Ancestor[i - 1])]

Legible(up) == \A i \in 0 .. maxAncestorWalk - 1 : Holder(up[i]) \notin Unreadable

\* When no process exits meanwhile and every look at the first maxAncestorWalk
\* ancestors can read them, the owner is the nearest of those that is a harness, and
\* there is none only if none of them is (owner.go:29, owner.go:42).
NearestIsOwner ==
    source = "harness" /\ step \in {"leased", "none"} /\ ended = {} /\ Legible(Ancestor) =>
        LET found == {i \in 0 .. maxAncestorWalk - 1 : identifiesHarness(Ancestor[i])}
        IN IF found = {} THEN step = "none"
           ELSE \E i \in found : /\ \A j \in found : i <= j
                                 /\ claimed = Holder(Ancestor[i])
                                 /\ owner.start \in {claimed, None}

\* "Shell argv may mention agent config paths; match executable basenames only"
\* (owner.go:57): refuted, every word of the command line is matched.
OnlyExecutables == source = "harness" /\ step = "leased" => claimed \in Harness
=============================================================================
