------------------------ MODULE SessionManagerProofs ------------------------
(***************************************************************************)
(* Proofs about SessionManager, for every value of its constants: its type *)
(* invariant, its safety properties, and that it implements                *)
(* SessionRegistry.  They all follow from IInv, which is inductive; each   *)
(* of its conjuncts has a lemma with one step per action.                  *)
(***************************************************************************)
EXTENDS SessionManager, TLAPS

\* Inside kill a goroutine has a session to kill and a label to go back to: the
\* receiver s of s.kill() in manager.go is never nil.
LEMMA KillLocals ==
    ASSUME TypeOK, ControlOK, NEW t \in Threads, pc[t] \in {"retire", "await"}
    PROVE  sess[t] \in Sessions /\ back[t] \in Labels /\ back[t] \notin {"retire", "await"}
<1>1. CASE t \in Requests
  BY <1>1 DEF ControlOK, Killing, EvalLabels, CommandLabels, Labels, Threads
<1>2. CASE t \in {Reaper, Stopper}
  BY <1>2 DEF ControlOK, Killing, Labels, Threads
<1>3. QED BY <1>1, <1>2 DEF Threads

\* A request that is neither an eval nor a stop is one of the three commands that
\* handleRequest resolves with targetKey.
LEMMA CommandOps ==
    ASSUME NEW j \in Jobs, j.op \notin {"eval", "stop"}
    PROVE  j.op \in {"interrupt", "close", "free"}
BY JobsAssumption DEF Evals, Commands

\* Types are kept by every step.
LEMMA TypeStep == TypeOK /\ ControlOK /\ [Next]_vars => TypeOK'
<1> SUFFICES ASSUME TypeOK, ControlOK, [Next]_vars PROVE TypeOK'
  OBVIOUS
<1> USE IdentityAssumption, JobsAssumption DEF Threads, TypeOK, Goto, Hold, Skip, Kill, mapVars,
    sessionVars, daemonVars, localVars
<1>1. ASSUME NEW r \in Requests, NEW j \in Jobs, NEW k \in Keys, ArriveEval(r, j, k) PROVE TypeOK'
  BY <1>1 DEF ArriveEval, Labels
<1>2. ASSUME NEW r \in Requests, NEW j \in Jobs, NEW k \in Keys, ArriveCommand(r, j,
    k) PROVE TypeOK'
  <2>1. j.op \in Labels
    BY <1>2, CommandOps DEF ArriveCommand, Labels
  <2>2. QED BY <1>2, <2>1 DEF ArriveCommand, Labels
<1>3. ASSUME NEW r \in Requests, NEW j \in Jobs, NEW s \in Sessions, ArriveByID(r, j,
    s) PROVE TypeOK'
  <2>1. j.op \in Labels
    BY <1>3, CommandOps DEF ArriveByID, Labels
  <2>2. QED BY <1>3, <2>1 DEF ArriveByID, Labels
<1>4. ASSUME NEW r \in Requests, NEW j \in Jobs, ArriveStop(r, j) PROVE TypeOK'
  BY <1>4 DEF ArriveStop, Labels
<1>5. ASSUME NEW r \in Requests, Get(r) PROVE TypeOK'
  <2>1. key[r] \in Keys /\ (pc[r] \in {"exec", "record", "poll"} => sess[r] \in Sessions)
    BY <1>5 DEF Get, ControlOK, EvalLabels
  <2>2. QED BY <1>5, <2>1 DEF Get, Labels
<1>6. ASSUME NEW r \in Requests, Join(r) PROVE TypeOK'
  BY <1>6 DEF Join, Labels
<1>7. ASSUME NEW r \in Requests, Lead(r) PROVE TypeOK'
  <2>1. key[r] \in Keys /\ (pc[r] \in {"exec", "record", "poll"} => sess[r] \in Sessions)
    BY <1>7 DEF Lead, ControlOK, EvalLabels
  <2>2. QED BY <1>7, <2>1 DEF Lead, Labels
<1>8. ASSUME NEW r \in Requests, Evict(r) PROVE TypeOK'
  BY <1>8 DEF Evict, Labels
<1>9. ASSUME NEW r \in Requests, NEW s \in Sessions, Start(r, s) PROVE TypeOK'
  <2>1. key[r] \in Keys /\ (pc[r] \in {"exec", "record", "poll"} => sess[r] \in Sessions)
    BY <1>9 DEF Start, ControlOK, EvalLabels
  <2>2. QED BY <1>9, <2>1 DEF Start, Labels
<1>10. ASSUME NEW r \in Requests, StartFails(r) PROVE TypeOK'
  BY <1>10 DEF StartFails, Labels
<1>11. ASSUME NEW r \in Requests, Boot(r) PROVE TypeOK'
  BY <1>11 DEF Boot, Labels
<1>12. ASSUME NEW r \in Requests, Install(r) PROVE TypeOK'
  <2>1. sess[r] \in Sessions /\ key[r] \in Keys /\ job[r] \in Jobs /\ job[r].op = "eval"
    BY <1>12 DEF Install, ControlOK, EvalLabels
  <2>2. job[r].owner \in Owners \cup {None}
    BY <2>1 DEF Evals, Commands
  <2>3. QED BY <1>12, <2>1, <2>2 DEF Install, Labels
<1>13. ASSUME NEW r \in Requests, Land(r) PROVE TypeOK'
  BY <1>13 DEF Land, Labels
<1>14. ASSUME NEW r \in Requests, EvalReturns(r) PROVE TypeOK'
  BY <1>14 DEF EvalReturns, Labels
<1>15. ASSUME NEW r \in Requests, EvalBreaks(r) PROVE TypeOK'
  <2>1. key[r] \in Keys /\ (pc[r] \in {"exec", "record", "poll"} => sess[r] \in Sessions)
    BY <1>15 DEF EvalBreaks, ControlOK, EvalLabels
  <2>2. QED BY <1>15, <2>1 DEF EvalBreaks, Labels
<1>16. ASSUME NEW r \in Requests, EvalCancelled(r) PROVE TypeOK'
  BY <1>16 DEF EvalCancelled, Labels
<1>17. ASSUME NEW r \in Requests, Failed(r) PROVE TypeOK'
  BY <1>17 DEF Failed, Labels
<1>18. ASSUME NEW r \in Requests, Sweep(r) PROVE TypeOK'
  <2>1. key[r] \in Keys /\ (pc[r] \in {"exec", "record", "poll"} => sess[r] \in Sessions)
    BY <1>18 DEF Sweep, ControlOK, EvalLabels
  <2>2. QED BY <1>18, <2>1 DEF Sweep, Labels
<1>19. ASSUME NEW r \in Requests, Record(r) PROVE TypeOK'
  <2>1. key[r] \in Keys /\ (pc[r] \in {"exec", "record", "poll"} => sess[r] \in Sessions)
    BY <1>19 DEF Record, ControlOK, EvalLabels
  <2>2. QED BY <1>19, <2>1 DEF Record, Labels
<1>20. ASSUME NEW r \in Requests, Restart(r) PROVE TypeOK'
  <2>1. key[r] \in Keys
    BY <1>20 DEF Restart, ControlOK, EvalLabels
  <2>2. QED BY <1>20, <2>1 DEF Restart, Detach, Labels
<1>21. ASSUME NEW r \in Requests, Close(r) PROVE TypeOK'
  <2>1. key[r] \in Keys
    BY <1>21 DEF Close, ControlOK, EvalLabels
  <2>2. QED BY <1>21, <2>1 DEF Close, Detach, Labels
<1>22. ASSUME NEW r \in Requests, Free(r) PROVE TypeOK'
  BY <1>22 DEF Free, Labels
<1>23. ASSUME NEW r \in Requests, Interrupt(r) PROVE TypeOK'
  <2>1. key[r] \in Keys /\ (pc[r] \in {"exec", "record", "poll"} => sess[r] \in Sessions)
    BY <1>23 DEF Interrupt, ControlOK, EvalLabels
  <2>2. QED BY <1>23, <2>1 DEF Interrupt, Labels
<1>24. ASSUME NEW r \in Requests, Aim(r) PROVE TypeOK'
  BY <1>24 DEF Aim, Labels
<1>25. ASSUME NEW r \in Requests, PollEnds(r) PROVE TypeOK'
  BY <1>25 DEF PollEnds, Labels
<1>26. ASSUME NEW r \in Requests, GraceKill(r) PROVE TypeOK'
  <2>1. key[r] \in Keys /\ (pc[r] \in {"exec", "record", "poll"} => sess[r] \in Sessions)
    BY <1>26 DEF GraceKill, ControlOK, EvalLabels
  <2>2. QED BY <1>26, <2>1 DEF GraceKill, Labels
<1>27. ASSUME NEW r \in Requests, Drop(r) PROVE TypeOK'
  <2>1. key[r] \in Keys /\ (pc[r] \in {"exec", "record", "poll"} => sess[r] \in Sessions)
    BY <1>27 DEF Drop, ControlOK, EvalLabels
  <2>2. QED BY <1>27, <2>1 DEF Drop, Labels
<1>28. ASSUME NEW t \in Threads, Retire(t) PROVE TypeOK'
  BY <1>28, KillLocals DEF Retire, Labels
<1>29. ASSUME NEW t \in Threads, Await(t) PROVE TypeOK'
  BY <1>29, KillLocals DEF Await
<1>30. ASSUME Scan PROVE TypeOK'
  BY <1>30 DEF Scan, Labels
<1>31. ASSUME NEW k \in Keys, Reap(k) PROVE TypeOK'
  BY <1>31 DEF Reap, Detach, Labels
<1>32. ASSUME ReapEnds PROVE TypeOK'
  BY <1>32 DEF ReapEnds, Labels
<1>33. ASSUME Shutdown PROVE TypeOK'
  BY <1>33 DEF Shutdown, Labels
<1>34. ASSUME NEW s \in Sessions, ShutdownKill(s) PROVE TypeOK'
  BY <1>34 DEF ShutdownKill, Labels
<1>35. ASSUME ShutdownEnds PROVE TypeOK'
  BY <1>35 DEF ShutdownEnds, Labels
<1>36. ASSUME NEW s \in Sessions, ProcessExits(s) PROVE TypeOK'
  BY <1>36 DEF ProcessExits, Labels
<1>37. ASSUME NEW o \in Owners, OwnerExits(o) PROVE TypeOK'
  BY <1>37 DEF OwnerExits, Labels
<1>38. ASSUME UNCHANGED vars PROVE TypeOK'
  BY <1>38 DEF vars, Labels
<1>39. ASSUME IdleClose PROVE TypeOK'
  BY <1>39 DEF IdleClose, Labels
<1>40. QED
  BY <1>1, <1>2, <1>3, <1>4, <1>5, <1>6, <1>7, <1>8, <1>9, <1>10, <1>11, <1>12, <1>13, <1>14,
      <1>15, <1>16, <1>17, <1>18, <1>19, <1>20, <1>21, <1>22, <1>23, <1>24, <1>25, <1>26, <1>27,
      <1>28, <1>29, <1>30, <1>31, <1>32, <1>33, <1>34, <1>35, <1>36, <1>37, <1>38, <1>39
  DEF Next, Arrive, Handle, Create, Evaluate, Command, ReaperStep, StopperStep, Environment, Threads

\* Every step of the handlers, the reaper and the shutdown keeps each goroutine's
\* locals set where the code below reads them.
LEMMA ControlStep == TypeOK /\ ControlOK /\ [Next]_vars => ControlOK'
<1> SUFFICES ASSUME TypeOK, ControlOK, [Next]_vars PROVE ControlOK'
  OBVIOUS
<1> USE IdentityAssumption, JobsAssumption DEF Threads, TypeOK, ControlOK, Killing, EvalLabels,
    CommandLabels, Goto, Hold, Skip, Kill, mapVars, sessionVars, daemonVars, localVars
<1>1. ASSUME NEW r \in Requests, NEW j \in Jobs, NEW k \in Keys, ArriveEval(r, j,
    k) PROVE ControlOK'
  BY <1>1 DEF ArriveEval
<1>2. ASSUME NEW r \in Requests, NEW j \in Jobs, NEW k \in Keys, ArriveCommand(r, j,
    k) PROVE ControlOK'
  <2>1. j.op \in {"interrupt", "close", "free"}
    BY <1>2, CommandOps DEF ArriveCommand
  <2>2. QED BY <1>2, <2>1 DEF ArriveCommand
<1>3. ASSUME NEW r \in Requests, NEW j \in Jobs, NEW s \in Sessions, ArriveByID(r, j,
    s) PROVE ControlOK'
  <2>1. j.op \in {"interrupt", "close", "free"}
    BY <1>3, CommandOps DEF ArriveByID
  <2>2. QED BY <1>3, <2>1 DEF ArriveByID
<1>4. ASSUME NEW r \in Requests, NEW j \in Jobs, ArriveStop(r, j) PROVE ControlOK'
  BY <1>4 DEF ArriveStop
<1>5. ASSUME NEW r \in Requests, Get(r) PROVE ControlOK'
  <2>1. key[r] \in Keys
    BY <1>5 DEF Get
  <2>2. QED BY <1>5, <2>1 DEF Get, Live
<1>6. ASSUME NEW r \in Requests, Join(r) PROVE ControlOK'
  BY <1>6 DEF Join
<1>7. ASSUME NEW r \in Requests, Lead(r) PROVE ControlOK'
  BY <1>7 DEF Lead
<1>8. ASSUME NEW r \in Requests, Evict(r) PROVE ControlOK'
  BY <1>8 DEF Evict
<1>9. ASSUME NEW r \in Requests, NEW s \in Sessions, Start(r, s) PROVE ControlOK'
  BY <1>9 DEF Start
<1>10. ASSUME NEW r \in Requests, StartFails(r) PROVE ControlOK'
  BY <1>10 DEF StartFails
<1>11. ASSUME NEW r \in Requests, Boot(r) PROVE ControlOK'
  BY <1>11 DEF Boot
<1>12. ASSUME NEW r \in Requests, Install(r) PROVE ControlOK'
  BY <1>12 DEF Install
<1>13. ASSUME NEW r \in Requests, Land(r) PROVE ControlOK'
  <2> DEFINE all == Followers(key[r]) \cup {r}
  <2>1. \A q \in all : q \in Requests /\ pc[q] \in {"follow", "land"} /\ key[q] \in Keys
            /\ job[q] \in Jobs /\ job[q].op = "eval"
    BY <1>13 DEF Land, Followers
  <2>2. \A t \in Threads : t \notin all => pc'[t] = pc[t] /\ sess'[t] = sess[t]
    BY <1>13 DEF Land
  <2>3. \A q \in all : pc'[q] = "done" \/ (pc'[q] = "exec" /\ sess'[q] \in Sessions)
    BY <1>13, <2>1 DEF Land
  <2>4. UNCHANGED <<key, job, back, victims>>
    BY <1>13 DEF Land
  <2>5. Reaper \notin all /\ Stopper \notin all
    BY <2>1
  <2>6. QED BY <2>1, <2>2, <2>3, <2>4, <2>5
<1>14. ASSUME NEW r \in Requests, EvalReturns(r) PROVE ControlOK'
  BY <1>14 DEF EvalReturns
<1>15. ASSUME NEW r \in Requests, EvalBreaks(r) PROVE ControlOK'
  BY <1>15 DEF EvalBreaks
<1>16. ASSUME NEW r \in Requests, EvalCancelled(r) PROVE ControlOK'
  BY <1>16 DEF EvalCancelled
<1>17. ASSUME NEW r \in Requests, Failed(r) PROVE ControlOK'
  BY <1>17 DEF Failed
<1>18. ASSUME NEW r \in Requests, Sweep(r) PROVE ControlOK'
  BY <1>18 DEF Sweep
<1>19. ASSUME NEW r \in Requests, Record(r) PROVE ControlOK'
  BY <1>19 DEF Record
<1>20. ASSUME NEW r \in Requests, Restart(r) PROVE ControlOK'
  <2>1. key[r] \in Keys
    BY <1>20 DEF Restart
  <2>2. QED BY <1>20, <2>1 DEF Restart, Detach
<1>21. ASSUME NEW r \in Requests, Close(r) PROVE ControlOK'
  <2>1. key[r] \in Keys
    BY <1>21 DEF Close
  <2>2. QED BY <1>21, <2>1 DEF Close, Detach
<1>22. ASSUME NEW r \in Requests, Free(r) PROVE ControlOK'
  BY <1>22 DEF Free
<1>23. ASSUME NEW r \in Requests, Interrupt(r) PROVE ControlOK'
  BY <1>23 DEF Interrupt
<1>24. ASSUME NEW r \in Requests, Aim(r) PROVE ControlOK'
  BY <1>24 DEF Aim
<1>25. ASSUME NEW r \in Requests, PollEnds(r) PROVE ControlOK'
  BY <1>25 DEF PollEnds
<1>26. ASSUME NEW r \in Requests, GraceKill(r) PROVE ControlOK'
  BY <1>26 DEF GraceKill
<1>27. ASSUME NEW r \in Requests, Drop(r) PROVE ControlOK'
  BY <1>27 DEF Drop
<1>28. ASSUME NEW t \in Threads, Retire(t) PROVE ControlOK'
  BY <1>28 DEF Retire
<1>29. ASSUME NEW t \in Threads, Await(t) PROVE ControlOK'
  BY <1>29 DEF Await
<1>30. ASSUME Scan PROVE ControlOK'
  BY <1>30 DEF Scan
<1>31. ASSUME NEW k \in Keys, Reap(k) PROVE ControlOK'
  BY <1>31 DEF Reap, Detach
<1>32. ASSUME ReapEnds PROVE ControlOK'
  BY <1>32 DEF ReapEnds
<1>33. ASSUME Shutdown PROVE ControlOK'
  BY <1>33 DEF Shutdown
<1>34. ASSUME NEW s \in Sessions, ShutdownKill(s) PROVE ControlOK'
  BY <1>34 DEF ShutdownKill
<1>35. ASSUME ShutdownEnds PROVE ControlOK'
  BY <1>35 DEF ShutdownEnds
<1>36. ASSUME NEW s \in Sessions, ProcessExits(s) PROVE ControlOK'
  BY <1>36 DEF ProcessExits
<1>37. ASSUME NEW o \in Owners, OwnerExits(o) PROVE ControlOK'
  BY <1>37 DEF OwnerExits
<1>38. ASSUME UNCHANGED vars PROVE ControlOK'
  BY <1>38 DEF vars
<1>39. ASSUME IdleClose PROVE ControlOK'
  BY <1>39 DEF IdleClose
<1>40. QED
  BY <1>1, <1>2, <1>3, <1>4, <1>5, <1>6, <1>7, <1>8, <1>9, <1>10, <1>11, <1>12, <1>13, <1>14,
      <1>15, <1>16, <1>17, <1>18, <1>19, <1>20, <1>21, <1>22, <1>23, <1>24, <1>25, <1>26, <1>27,
      <1>28, <1>29, <1>30, <1>31, <1>32, <1>33, <1>34, <1>35, <1>36, <1>37, <1>38, <1>39
  DEF Next, Arrive, Handle, Create, Evaluate, Command, ReaperStep, StopperStep, Environment, Threads

\* The goroutine inside sf.Do works on a key.
LEMMA LeaderKey ==
    ASSUME ControlOK, NEW r \in Requests, Leading(r)
    PROVE  key[r] \in Keys
BY DEF ControlOK, Leading, Killing

\* sf.Do runs one creation per key: who leads keeps the flight of its key, since
\* a flight is claimed only when free and released only by its leader.
LEMMA FlightStep == TypeOK /\ ControlOK /\ FlightOK /\ [Next]_vars => FlightOK'
<1> SUFFICES ASSUME TypeOK, ControlOK, FlightOK, [Next]_vars PROVE FlightOK'
  OBVIOUS
<1> USE IdentityAssumption DEF Threads, TypeOK, FlightOK, Leading, Killing, Goto, Hold, Skip,
    Kill, mapVars, sessionVars, daemonVars, localVars
<1>1. ASSUME NEW r \in Requests, NEW j \in Jobs, NEW k \in Keys, ArriveEval(r, j, k) PROVE FlightOK'
  BY <1>1 DEF ArriveEval
<1>2. ASSUME NEW r \in Requests, NEW j \in Jobs, NEW k \in Keys, ArriveCommand(r, j,
    k) PROVE FlightOK'
  <2>1. j.op \in {"interrupt", "close", "free"}
    BY <1>2, CommandOps DEF ArriveCommand
  <2>2. QED BY <1>2, <2>1 DEF ArriveCommand
<1>3. ASSUME NEW r \in Requests, NEW j \in Jobs, NEW s \in Sessions, ArriveByID(r, j,
    s) PROVE FlightOK'
  <2>1. j.op \in {"interrupt", "close", "free"}
    BY <1>3, CommandOps DEF ArriveByID
  <2>2. QED BY <1>3, <2>1 DEF ArriveByID
<1>4. ASSUME NEW r \in Requests, NEW j \in Jobs, ArriveStop(r, j) PROVE FlightOK'
  BY <1>4 DEF ArriveStop
<1>5. ASSUME NEW r \in Requests, Get(r) PROVE FlightOK'
  BY <1>5 DEF Get
<1>6. ASSUME NEW r \in Requests, Join(r) PROVE FlightOK'
  <2>1. key[r] \in Keys
    BY <1>6 DEF Join, ControlOK
  <2>2. \A q \in Requests : Leading(q) => key[q] \in Keys
    BY LeaderKey
  <2>3. QED BY <1>6, <2>1, <2>2 DEF Join
<1>7. ASSUME NEW r \in Requests, Lead(r) PROVE FlightOK'
  BY <1>7 DEF Lead
<1>8. ASSUME NEW r \in Requests, Evict(r) PROVE FlightOK'
  BY <1>8 DEF Evict
<1>9. ASSUME NEW r \in Requests, NEW s \in Sessions, Start(r, s) PROVE FlightOK'
  BY <1>9 DEF Start
<1>10. ASSUME NEW r \in Requests, StartFails(r) PROVE FlightOK'
  BY <1>10 DEF StartFails
<1>11. ASSUME NEW r \in Requests, Boot(r) PROVE FlightOK'
  BY <1>11 DEF Boot
<1>12. ASSUME NEW r \in Requests, Install(r) PROVE FlightOK'
  BY <1>12 DEF Install
<1>13. ASSUME NEW r \in Requests, Land(r) PROVE FlightOK'
  BY <1>13 DEF Land
<1>14. ASSUME NEW r \in Requests, EvalReturns(r) PROVE FlightOK'
  BY <1>14 DEF EvalReturns
<1>15. ASSUME NEW r \in Requests, EvalBreaks(r) PROVE FlightOK'
  BY <1>15 DEF EvalBreaks
<1>16. ASSUME NEW r \in Requests, EvalCancelled(r) PROVE FlightOK'
  BY <1>16 DEF EvalCancelled
<1>17. ASSUME NEW r \in Requests, Failed(r) PROVE FlightOK'
  BY <1>17 DEF Failed
<1>18. ASSUME NEW r \in Requests, Sweep(r) PROVE FlightOK'
  BY <1>18 DEF Sweep
<1>19. ASSUME NEW r \in Requests, Record(r) PROVE FlightOK'
  BY <1>19 DEF Record
<1>20. ASSUME NEW r \in Requests, Restart(r) PROVE FlightOK'
  BY <1>20 DEF Restart
<1>21. ASSUME NEW r \in Requests, Close(r) PROVE FlightOK'
  BY <1>21 DEF Close
<1>22. ASSUME NEW r \in Requests, Free(r) PROVE FlightOK'
  BY <1>22 DEF Free
<1>23. ASSUME NEW r \in Requests, Interrupt(r) PROVE FlightOK'
  BY <1>23 DEF Interrupt
<1>24. ASSUME NEW r \in Requests, Aim(r) PROVE FlightOK'
  BY <1>24 DEF Aim
<1>25. ASSUME NEW r \in Requests, PollEnds(r) PROVE FlightOK'
  BY <1>25 DEF PollEnds
<1>26. ASSUME NEW r \in Requests, GraceKill(r) PROVE FlightOK'
  BY <1>26 DEF GraceKill
<1>27. ASSUME NEW r \in Requests, Drop(r) PROVE FlightOK'
  BY <1>27 DEF Drop
<1>28. ASSUME NEW t \in Threads, Retire(t) PROVE FlightOK'
  BY <1>28 DEF Retire
<1>29. ASSUME NEW t \in Threads, Await(t) PROVE FlightOK'
  <2>1. CASE t \in Requests
    <3>1. back[t] \in {"get", "done", "evict", "land"}
      BY <1>29, <2>1 DEF Await, ControlOK, EvalLabels, CommandLabels
    <3>2. QED BY <1>29, <2>1, <3>1 DEF Await
  <2>2. CASE t \notin Requests
    BY <1>29, <2>2 DEF Await
  <2>3. QED BY <2>1, <2>2
<1>30. ASSUME Scan PROVE FlightOK'
  BY <1>30 DEF Scan
<1>31. ASSUME NEW k \in Keys, Reap(k) PROVE FlightOK'
  BY <1>31 DEF Reap
<1>32. ASSUME ReapEnds PROVE FlightOK'
  BY <1>32 DEF ReapEnds
<1>33. ASSUME Shutdown PROVE FlightOK'
  BY <1>33 DEF Shutdown
<1>34. ASSUME NEW s \in Sessions, ShutdownKill(s) PROVE FlightOK'
  BY <1>34 DEF ShutdownKill
<1>35. ASSUME ShutdownEnds PROVE FlightOK'
  BY <1>35 DEF ShutdownEnds
<1>36. ASSUME NEW s \in Sessions, ProcessExits(s) PROVE FlightOK'
  BY <1>36 DEF ProcessExits
<1>37. ASSUME NEW o \in Owners, OwnerExits(o) PROVE FlightOK'
  BY <1>37 DEF OwnerExits
<1>38. ASSUME UNCHANGED vars PROVE FlightOK'
  BY <1>38 DEF vars
<1>39. ASSUME IdleClose PROVE FlightOK'
  BY <1>39 DEF IdleClose
<1>40. QED
  BY <1>1, <1>2, <1>3, <1>4, <1>5, <1>6, <1>7, <1>8, <1>9, <1>10, <1>11, <1>12, <1>13, <1>14,
      <1>15, <1>16, <1>17, <1>18, <1>19, <1>20, <1>21, <1>22, <1>23, <1>24, <1>25, <1>26, <1>27,
      <1>28, <1>29, <1>30, <1>31, <1>32, <1>33, <1>34, <1>35, <1>36, <1>37, <1>38, <1>39
  DEF Next, Arrive, Handle, Create, Evaluate, Command, ReaperStep, StopperStep, Environment, Threads

\* A flight that is taken has a goroutine at work on it, and only such a flight is
\* waited for.
FlightIsLed ==
    /\ \A k \in Keys :
           flight[k] # None => flight[k] \in Requests /\ Leading(flight[k]) /\ key[flight[k]] = k
    /\ \A r \in Requests : pc[r] = "follow" => flight[key[r]] # None

\* sf.Do: a flight ends with its leader's call, and with it the wait of all who joined.
LEMMA FollowStep == TypeOK /\ ControlOK /\ FlightOK /\ FlightIsLed /\ [Next]_vars => FlightIsLed'
<1> SUFFICES ASSUME TypeOK, ControlOK, FlightOK, FlightIsLed, [Next]_vars PROVE FlightIsLed'
  OBVIOUS
<1> USE IdentityAssumption DEF Threads, TypeOK, FlightIsLed, Leading, Killing, Goto, Hold, Skip,
    Kill, mapVars, sessionVars, daemonVars, localVars
<1>1. ASSUME NEW r \in Requests, NEW j \in Jobs, NEW k \in Keys, ArriveEval(r, j, k) PROVE FlightIsLed'
  BY <1>1 DEF ArriveEval
<1>2. ASSUME NEW r \in Requests, NEW j \in Jobs, NEW k \in Keys, ArriveCommand(r, j,
    k) PROVE FlightIsLed'
  <2>1. j.op \in {"interrupt", "close", "free"}
    BY <1>2, CommandOps DEF ArriveCommand
  <2>2. QED BY <1>2, <2>1 DEF ArriveCommand
<1>3. ASSUME NEW r \in Requests, NEW j \in Jobs, NEW s \in Sessions, ArriveByID(r, j,
    s) PROVE FlightIsLed'
  <2>1. j.op \in {"interrupt", "close", "free"}
    BY <1>3, CommandOps DEF ArriveByID
  <2>2. QED BY <1>3, <2>1 DEF ArriveByID
<1>4. ASSUME NEW r \in Requests, NEW j \in Jobs, ArriveStop(r, j) PROVE FlightIsLed'
  BY <1>4 DEF ArriveStop
<1>5. ASSUME NEW r \in Requests, Get(r) PROVE FlightIsLed'
  BY <1>5 DEF Get
<1>6. ASSUME NEW r \in Requests, Join(r) PROVE FlightIsLed'
  <2>1. key[r] \in Keys
    BY <1>6 DEF Join, ControlOK
  <2>2. \A q \in Requests : Leading(q) => key[q] \in Keys
    BY LeaderKey
  <2>3. ~Leading(r) /\ pc'[r] \in {"lead", "follow"} /\ key' = key /\ back' = back
        /\ \A q \in Requests \ {r} : pc'[q] = pc[q]
    BY <1>6 DEF Join
  <2>4. Leading(r)' <=> pc'[r] = "lead"
    BY <2>3
  <2>5. \A q \in Requests : Leading(q) => Leading(q)'
    BY <2>3
  <2>6. CASE flight[key[r]] = None
    <3>1. flight' = [flight EXCEPT ![key[r]] = r] /\ pc'[r] = "lead"
      BY <1>6, <2>6 DEF Join
    <3>2. \A k \in Keys : flight'[k] = IF k = key[r] THEN r ELSE flight[k]
      BY <3>1
    <3>3. ASSUME NEW k \in Keys, flight'[k] # None
          PROVE  flight'[k] \in Requests /\ Leading(flight[k])' /\ key'[flight'[k]] = k
      <4>1. CASE k = key[r]
        <5>1. flight'[k] = r BY <3>2, <4>1
        <5>2. QED BY <2>3, <3>1, <4>1, <5>1
      <4>2. CASE k # key[r]
        <5>1. flight'[k] = flight[k] /\ flight[k] # None BY <3>2, <3>3, <4>2
        <5>2. flight[k] \in Requests \ {r} /\ Leading(flight[k]) /\ key[flight[k]] = k
          BY <2>3, <5>1
        <5>3. pc'[flight[k]] = pc[flight[k]] BY <2>3, <5>2
        <5>4. QED BY <2>3, <5>1, <5>2, <5>3
      <4>3. QED BY <4>1, <4>2
    <3>4. ASSUME NEW q \in Requests, pc'[q] = "follow" PROVE flight'[key'[q]] # None
      <4>1. q # r /\ pc[q] = "follow" BY <2>3, <3>1, <3>4
      <4>2. flight[key[q]] # None /\ key[q] \in Keys BY <4>1 DEF ControlOK
      <4>3. QED BY <2>3, <2>6, <3>2, <4>2
    <3>5. QED BY <3>3, <3>4
  <2>7. CASE flight[key[r]] # None
    <3>1. flight' = flight /\ pc'[r] = "follow"
      BY <1>6, <2>7 DEF Join
    <3> HIDE DEF Leading
    <3>2. QED BY <2>1, <2>3, <2>5, <2>7, <3>1
  <2>8. QED BY <2>6, <2>7
<1>7. ASSUME NEW r \in Requests, Lead(r) PROVE FlightIsLed'
  BY <1>7 DEF Lead
<1>8. ASSUME NEW r \in Requests, Evict(r) PROVE FlightIsLed'
  BY <1>8 DEF Evict
<1>9. ASSUME NEW r \in Requests, NEW s \in Sessions, Start(r, s) PROVE FlightIsLed'
  BY <1>9 DEF Start
<1>10. ASSUME NEW r \in Requests, StartFails(r) PROVE FlightIsLed'
  BY <1>10 DEF StartFails
<1>11. ASSUME NEW r \in Requests, Boot(r) PROVE FlightIsLed'
  BY <1>11 DEF Boot
<1>12. ASSUME NEW r \in Requests, Install(r) PROVE FlightIsLed'
  BY <1>12 DEF Install
<1>13. ASSUME NEW r \in Requests, Land(r) PROVE FlightIsLed'
  BY <1>13 DEF Land, Followers
<1>14. ASSUME NEW r \in Requests, EvalReturns(r) PROVE FlightIsLed'
  BY <1>14 DEF EvalReturns
<1>15. ASSUME NEW r \in Requests, EvalBreaks(r) PROVE FlightIsLed'
  BY <1>15 DEF EvalBreaks
<1>16. ASSUME NEW r \in Requests, EvalCancelled(r) PROVE FlightIsLed'
  BY <1>16 DEF EvalCancelled
<1>17. ASSUME NEW r \in Requests, Failed(r) PROVE FlightIsLed'
  BY <1>17 DEF Failed
<1>18. ASSUME NEW r \in Requests, Sweep(r) PROVE FlightIsLed'
  BY <1>18 DEF Sweep
<1>19. ASSUME NEW r \in Requests, Record(r) PROVE FlightIsLed'
  BY <1>19 DEF Record
<1>20. ASSUME NEW r \in Requests, Restart(r) PROVE FlightIsLed'
  BY <1>20 DEF Restart
<1>21. ASSUME NEW r \in Requests, Close(r) PROVE FlightIsLed'
  BY <1>21 DEF Close
<1>22. ASSUME NEW r \in Requests, Free(r) PROVE FlightIsLed'
  BY <1>22 DEF Free
<1>23. ASSUME NEW r \in Requests, Interrupt(r) PROVE FlightIsLed'
  BY <1>23 DEF Interrupt
<1>24. ASSUME NEW r \in Requests, Aim(r) PROVE FlightIsLed'
  BY <1>24 DEF Aim
<1>25. ASSUME NEW r \in Requests, PollEnds(r) PROVE FlightIsLed'
  BY <1>25 DEF PollEnds
<1>26. ASSUME NEW r \in Requests, GraceKill(r) PROVE FlightIsLed'
  BY <1>26 DEF GraceKill
<1>27. ASSUME NEW r \in Requests, Drop(r) PROVE FlightIsLed'
  BY <1>27 DEF Drop
<1>28. ASSUME NEW t \in Threads, Retire(t) PROVE FlightIsLed'
  BY <1>28 DEF Retire
<1>29. ASSUME NEW t \in Threads, Await(t) PROVE FlightIsLed'
  <2>1. CASE t \in Requests
    <3>1. back[t] \in {"get", "done", "evict", "land"}
      BY <1>29, <2>1 DEF Await, ControlOK, EvalLabels, CommandLabels
    <3>2. QED BY <1>29, <2>1, <3>1 DEF Await
  <2>2. CASE t \notin Requests
    BY <1>29, <2>2 DEF Await
  <2>3. QED BY <2>1, <2>2
<1>30. ASSUME Scan PROVE FlightIsLed'
  BY <1>30 DEF Scan
<1>31. ASSUME NEW k \in Keys, Reap(k) PROVE FlightIsLed'
  BY <1>31 DEF Reap
<1>32. ASSUME ReapEnds PROVE FlightIsLed'
  BY <1>32 DEF ReapEnds
<1>33. ASSUME Shutdown PROVE FlightIsLed'
  BY <1>33 DEF Shutdown
<1>34. ASSUME NEW s \in Sessions, ShutdownKill(s) PROVE FlightIsLed'
  BY <1>34 DEF ShutdownKill
<1>35. ASSUME ShutdownEnds PROVE FlightIsLed'
  BY <1>35 DEF ShutdownEnds
<1>36. ASSUME NEW s \in Sessions, ProcessExits(s) PROVE FlightIsLed'
  BY <1>36 DEF ProcessExits
<1>37. ASSUME NEW o \in Owners, OwnerExits(o) PROVE FlightIsLed'
  BY <1>37 DEF OwnerExits
<1>38. ASSUME UNCHANGED vars PROVE FlightIsLed'
  BY <1>38 DEF vars
<1>39. ASSUME IdleClose PROVE FlightIsLed'
  BY <1>39 DEF IdleClose
<1>40. QED
  BY <1>1, <1>2, <1>3, <1>4, <1>5, <1>6, <1>7, <1>8, <1>9, <1>10, <1>11, <1>12, <1>13, <1>14,
      <1>15, <1>16, <1>17, <1>18, <1>19, <1>20, <1>21, <1>22, <1>23, <1>24, <1>25, <1>26, <1>27,
      <1>28, <1>29, <1>30, <1>31, <1>32, <1>33, <1>34, <1>35, <1>36, <1>37, <1>38, <1>39
  DEF Next, Arrive, Handle, Create, Evaluate, Command, ReaperStep, StopperStep, Environment, Threads

\* Between the leader's lookup and its write of m.sessions[ks] nothing else enters
\* the map under that key: only Install writes a session, only a leader installs,
\* and a key has one leader.
LEMMA SlotStep == TypeOK /\ ControlOK /\ FlightOK /\ SlotOK /\ [Next]_vars => SlotOK'
<1> SUFFICES ASSUME TypeOK, ControlOK, FlightOK, SlotOK, [Next]_vars PROVE SlotOK'
  OBVIOUS
<1>0. \A q \in Requests : Leading(q) => key[q] \in Keys
  BY LeaderKey
<1> USE IdentityAssumption DEF Threads, TypeOK, SlotOK, Leading, Killing, Goto, Hold, Skip, Kill,
    mapVars, sessionVars, daemonVars, localVars
<1>1. ASSUME NEW r \in Requests, NEW j \in Jobs, NEW k \in Keys, ArriveEval(r, j, k) PROVE SlotOK'
  BY <1>1, <1>0 DEF ArriveEval
<1>2. ASSUME NEW r \in Requests, NEW j \in Jobs, NEW k \in Keys, ArriveCommand(r, j,
    k) PROVE SlotOK'
  <2>1. j.op \in {"interrupt", "close", "free"}
    BY <1>2, CommandOps DEF ArriveCommand
  <2>2. QED BY <1>2, <2>1 DEF ArriveCommand
<1>3. ASSUME NEW r \in Requests, NEW j \in Jobs, NEW s \in Sessions, ArriveByID(r, j,
    s) PROVE SlotOK'
  <2>1. j.op \in {"interrupt", "close", "free"}
    BY <1>3, CommandOps DEF ArriveByID
  <2>2. QED BY <1>3, <2>1 DEF ArriveByID
<1>4. ASSUME NEW r \in Requests, NEW j \in Jobs, ArriveStop(r, j) PROVE SlotOK'
  BY <1>4, <1>0 DEF ArriveStop
<1>5. ASSUME NEW r \in Requests, Get(r) PROVE SlotOK'
  BY <1>5, <1>0 DEF Get
<1>6. ASSUME NEW r \in Requests, Join(r) PROVE SlotOK'
  BY <1>6, <1>0 DEF Join
<1>7. ASSUME NEW r \in Requests, Lead(r) PROVE SlotOK'
  BY <1>0, <1>7 DEF Lead, Live
<1>8. ASSUME NEW r \in Requests, Evict(r) PROVE SlotOK'
  BY <1>8, <1>0 DEF Evict
<1>9. ASSUME NEW r \in Requests, NEW s \in Sessions, Start(r, s) PROVE SlotOK'
  BY <1>9, <1>0 DEF Start
<1>10. ASSUME NEW r \in Requests, StartFails(r) PROVE SlotOK'
  BY <1>10, <1>0 DEF StartFails
<1>11. ASSUME NEW r \in Requests, Boot(r) PROVE SlotOK'
  BY <1>11, <1>0 DEF Boot
<1>12. ASSUME NEW r \in Requests, Install(r) PROVE SlotOK'
  <2>1. key[r] \in Keys
    BY <1>0, <1>12 DEF Install
  <2>2. \A q \in Requests : Leading(q) /\ q # r => key[q] # key[r]
    BY <1>12 DEF Install, FlightOK
  <2>3. QED BY <1>0, <1>12, <2>1, <2>2 DEF Install
<1>13. ASSUME NEW r \in Requests, Land(r) PROVE SlotOK'
  BY <1>13, <1>0 DEF Land
<1>14. ASSUME NEW r \in Requests, EvalReturns(r) PROVE SlotOK'
  BY <1>14, <1>0 DEF EvalReturns
<1>15. ASSUME NEW r \in Requests, EvalBreaks(r) PROVE SlotOK'
  BY <1>15, <1>0 DEF EvalBreaks
<1>16. ASSUME NEW r \in Requests, EvalCancelled(r) PROVE SlotOK'
  BY <1>16, <1>0 DEF EvalCancelled
<1>17. ASSUME NEW r \in Requests, Failed(r) PROVE SlotOK'
  BY <1>17, <1>0 DEF Failed
<1>18. ASSUME NEW r \in Requests, Sweep(r) PROVE SlotOK'
  BY <1>18, <1>0 DEF Sweep
<1>19. ASSUME NEW r \in Requests, Record(r) PROVE SlotOK'
  BY <1>19, <1>0 DEF Record
<1>20. ASSUME NEW r \in Requests, Restart(r) PROVE SlotOK'
  BY <1>0, <1>20 DEF Restart, Detach
<1>21. ASSUME NEW r \in Requests, Close(r) PROVE SlotOK'
  BY <1>0, <1>21 DEF Close, Detach
<1>22. ASSUME NEW r \in Requests, Free(r) PROVE SlotOK'
  BY <1>22, <1>0 DEF Free
<1>23. ASSUME NEW r \in Requests, Interrupt(r) PROVE SlotOK'
  BY <1>23, <1>0 DEF Interrupt
<1>24. ASSUME NEW r \in Requests, Aim(r) PROVE SlotOK'
  BY <1>24, <1>0 DEF Aim
<1>25. ASSUME NEW r \in Requests, PollEnds(r) PROVE SlotOK'
  BY <1>25, <1>0 DEF PollEnds
<1>26. ASSUME NEW r \in Requests, GraceKill(r) PROVE SlotOK'
  BY <1>26, <1>0 DEF GraceKill
<1>27. ASSUME NEW r \in Requests, Drop(r) PROVE SlotOK'
  BY <1>27, <1>0 DEF Drop
<1>28. ASSUME NEW t \in Threads, Retire(t) PROVE SlotOK'
  BY <1>28, <1>0 DEF Retire
<1>29. ASSUME NEW t \in Threads, Await(t) PROVE SlotOK'
  <2>1. CASE t \in Requests
    <3>1. back[t] \in {"get", "done", "evict", "land"}
      BY <1>29, <2>1 DEF Await, ControlOK, EvalLabels, CommandLabels
    <3>2. QED BY <1>29, <2>1, <3>1 DEF Await
  <2>2. CASE t \notin Requests
    BY <1>29, <2>2 DEF Await
  <2>3. QED BY <2>1, <2>2
<1>30. ASSUME Scan PROVE SlotOK'
  BY <1>30, <1>0 DEF Scan
<1>31. ASSUME NEW k \in Keys, Reap(k) PROVE SlotOK'
  BY <1>0, <1>31 DEF Reap, Detach
<1>32. ASSUME ReapEnds PROVE SlotOK'
  BY <1>32, <1>0 DEF ReapEnds
<1>33. ASSUME Shutdown PROVE SlotOK'
  BY <1>33, <1>0 DEF Shutdown
<1>34. ASSUME NEW s \in Sessions, ShutdownKill(s) PROVE SlotOK'
  BY <1>34, <1>0 DEF ShutdownKill
<1>35. ASSUME ShutdownEnds PROVE SlotOK'
  BY <1>35, <1>0 DEF ShutdownEnds
<1>36. ASSUME NEW s \in Sessions, ProcessExits(s) PROVE SlotOK'
  BY <1>36, <1>0 DEF ProcessExits
<1>37. ASSUME NEW o \in Owners, OwnerExits(o) PROVE SlotOK'
  BY <1>37, <1>0 DEF OwnerExits
<1>38. ASSUME UNCHANGED vars PROVE SlotOK'
  BY <1>38 DEF vars
<1>39. ASSUME IdleClose PROVE SlotOK'
  BY <1>39 DEF IdleClose
<1>40. QED
  BY <1>1, <1>2, <1>3, <1>4, <1>5, <1>6, <1>7, <1>8, <1>9, <1>10, <1>11, <1>12, <1>13, <1>14,
      <1>15, <1>16, <1>17, <1>18, <1>19, <1>20, <1>21, <1>22, <1>23, <1>24, <1>25, <1>26, <1>27,
      <1>28, <1>29, <1>30, <1>31, <1>32, <1>33, <1>34, <1>35, <1>36, <1>37, <1>38, <1>39
  DEF Next, Arrive, Handle, Create, Evaluate, Command, ReaperStep, StopperStep, Environment, Threads

\* Every step keeps sessions where they were started: in the map, in the saved
\* tracebacks, and in the hands of the goroutines.
LEMMA HomeStep == TypeOK /\ ControlOK /\ FlightOK /\ HomeOK /\ [Next]_vars => HomeOK'
<1> SUFFICES ASSUME TypeOK, ControlOK, FlightOK, HomeOK, [Next]_vars PROVE HomeOK'
  OBVIOUS
<1>0. \A q \in Requests : Leading(q) => key[q] \in Keys
  BY LeaderKey
<1> USE IdentityAssumption DEF Threads, TypeOK, HomeOK, Killing, Goto, Hold, Skip, Kill, mapVars,
    sessionVars, daemonVars, localVars
<1>1. ASSUME NEW r \in Requests, NEW j \in Jobs, NEW k \in Keys, ArriveEval(r, j, k) PROVE HomeOK'
  BY <1>1 DEF ArriveEval
<1>2. ASSUME NEW r \in Requests, NEW j \in Jobs, NEW k \in Keys, ArriveCommand(r, j,
    k) PROVE HomeOK'
  <2>1. j.op \in {"interrupt", "close", "free"}
    BY <1>2, CommandOps DEF ArriveCommand
  <2>2. QED BY <1>2, <2>1 DEF ArriveCommand
<1>3. ASSUME NEW r \in Requests, NEW j \in Jobs, NEW s \in Sessions, ArriveByID(r, j,
    s) PROVE HomeOK'
  <2>1. j.op \in {"interrupt", "close", "free"}
    BY <1>3, CommandOps DEF ArriveByID
  <2>2. QED BY <1>3, <2>1 DEF ArriveByID
<1>4. ASSUME NEW r \in Requests, NEW j \in Jobs, ArriveStop(r, j) PROVE HomeOK'
  BY <1>4 DEF ArriveStop
<1>5. ASSUME NEW r \in Requests, Get(r) PROVE HomeOK'
  <2>1. key[r] \in Keys
    BY <1>5 DEF Get, ControlOK
  <2>2. QED BY <1>5, <2>1 DEF Get, Live
<1>6. ASSUME NEW r \in Requests, Join(r) PROVE HomeOK'
  BY <1>6 DEF Join
<1>7. ASSUME NEW r \in Requests, Lead(r) PROVE HomeOK'
  <2>1. key[r] \in Keys
    BY <1>7 DEF Lead, ControlOK
  <2>2. sess'[r] = sessions[key[r]] \/ sess'[r] = None
    BY <1>7 DEF Lead
  <2>3. QED BY <1>7, <2>1, <2>2 DEF Lead, Live
<1>8. ASSUME NEW r \in Requests, Evict(r) PROVE HomeOK'
  BY <1>8 DEF Evict
<1>9. ASSUME NEW r \in Requests, NEW s \in Sessions, Start(r, s) PROVE HomeOK'
  <2>1. key[r] \in Keys /\ home[s] = None /\ s \notin named
    BY <1>9 DEF Start, ControlOK, EvalLabels
  <2>2. \A q \in Requests : sess[q] \in Sessions /\ home[sess[q]] = key[q] /\ key[q] \in Keys
            => sess[q] # s
    BY <2>1
  <2>3. \A q \in Requests : pc[q] \in {"exec", "failed", "sweep", "record", "boot", "install"}
                              \/ Killing(q, {"land"})
            => sess[q] \in Sessions /\ key[q] \in Keys
    BY DEF ControlOK
  <2>4. \A q \in Requests : pc[q] = "land" => key[q] \in Keys
    BY DEF ControlOK
  <2>5. QED BY <1>9, <2>1, <2>2, <2>3, <2>4 DEF Start
<1>10. ASSUME NEW r \in Requests, StartFails(r) PROVE HomeOK'
  BY <1>10 DEF StartFails
<1>11. ASSUME NEW r \in Requests, Boot(r) PROVE HomeOK'
  BY <1>11 DEF Boot
<1>12. ASSUME NEW r \in Requests, Install(r) PROVE HomeOK'
  <2>1. key[r] \in Keys /\ sess[r] \in Sessions
    BY <1>12 DEF Install, ControlOK
  <2>2. \A q \in Requests : q # r /\ (pc[q] \in {"boot", "install"} \/ Killing(q, {"land"}))
            => sess[q] # sess[r]
    BY <1>12 DEF Install, FlightOK, Leading
  <2>3. QED BY <1>12, <2>1, <2>2 DEF Install
<1>13. ASSUME NEW r \in Requests, Land(r) PROVE HomeOK'
  <2> DEFINE all == Followers(key[r]) \cup {r}
  <2>1. \A q \in all : q \in Requests /\ key[q] = key[r]
    BY <1>13 DEF Followers
  <2>2. \A t \in Threads : t \notin all => pc'[t] = pc[t] /\ sess'[t] = sess[t]
    BY <1>13 DEF Land
  <2>3. \A q \in all : pc'[q] = "done" \/ (pc'[q] = "exec" /\ home[sess'[q]] = key[q])
    BY <1>13, <2>1 DEF Land
  <2>4. UNCHANGED <<key, back, home, named, proc, sessions, lastErrors>>
    BY <1>13 DEF Land
  <2>5. QED BY <2>1, <2>2, <2>3, <2>4
<1>14. ASSUME NEW r \in Requests, EvalReturns(r) PROVE HomeOK'
  BY <1>14 DEF EvalReturns
<1>15. ASSUME NEW r \in Requests, EvalBreaks(r) PROVE HomeOK'
  BY <1>15 DEF EvalBreaks
<1>16. ASSUME NEW r \in Requests, EvalCancelled(r) PROVE HomeOK'
  BY <1>16 DEF EvalCancelled
<1>17. ASSUME NEW r \in Requests, Failed(r) PROVE HomeOK'
  BY <1>17 DEF Failed
<1>18. ASSUME NEW r \in Requests, Sweep(r) PROVE HomeOK'
  BY <1>18 DEF Sweep
<1>19. ASSUME NEW r \in Requests, Record(r) PROVE HomeOK'
  BY <1>19 DEF Record
<1>20. ASSUME NEW r \in Requests, Restart(r) PROVE HomeOK'
  BY <1>20 DEF Restart, Detach
<1>21. ASSUME NEW r \in Requests, Close(r) PROVE HomeOK'
  BY <1>21 DEF Close, Detach
<1>22. ASSUME NEW r \in Requests, Free(r) PROVE HomeOK'
  BY <1>22 DEF Free
<1>23. ASSUME NEW r \in Requests, Interrupt(r) PROVE HomeOK'
  BY <1>23 DEF Interrupt
<1>24. ASSUME NEW r \in Requests, Aim(r) PROVE HomeOK'
  BY <1>24 DEF Aim
<1>25. ASSUME NEW r \in Requests, PollEnds(r) PROVE HomeOK'
  BY <1>25 DEF PollEnds
<1>26. ASSUME NEW r \in Requests, GraceKill(r) PROVE HomeOK'
  BY <1>26 DEF GraceKill
<1>27. ASSUME NEW r \in Requests, Drop(r) PROVE HomeOK'
  BY <1>27 DEF Drop
<1>28. ASSUME NEW t \in Threads, Retire(t) PROVE HomeOK'
  BY <1>28 DEF Retire
<1>29. ASSUME NEW t \in Threads, Await(t) PROVE HomeOK'
  <2>1. sess[t] \in Sessions
    BY <1>29, KillLocals DEF Await
  <2>2. CASE t \in Requests
    <3>1. back[t] \in {"get", "done", "evict", "land"}
      BY <1>29, <2>2 DEF Await, ControlOK, EvalLabels, CommandLabels
    <3>2. QED BY <1>29, <2>1, <2>2, <3>1 DEF Await
  <2>3. CASE t \notin Requests
    BY <1>29, <2>1, <2>3 DEF Await
  <2>4. QED BY <2>2, <2>3
<1>30. ASSUME Scan PROVE HomeOK'
  BY <1>30 DEF Scan
<1>31. ASSUME NEW k \in Keys, Reap(k) PROVE HomeOK'
  BY <1>31 DEF Reap, Detach
<1>32. ASSUME ReapEnds PROVE HomeOK'
  BY <1>32 DEF ReapEnds
<1>33. ASSUME Shutdown PROVE HomeOK'
  BY <1>33 DEF Shutdown
<1>34. ASSUME NEW s \in Sessions, ShutdownKill(s) PROVE HomeOK'
  BY <1>34 DEF ShutdownKill
<1>35. ASSUME ShutdownEnds PROVE HomeOK'
  BY <1>35 DEF ShutdownEnds
<1>36. ASSUME NEW s \in Sessions, ProcessExits(s) PROVE HomeOK'
  BY <1>36 DEF ProcessExits
<1>37. ASSUME NEW o \in Owners, OwnerExits(o) PROVE HomeOK'
  BY <1>37 DEF OwnerExits
<1>38. ASSUME UNCHANGED vars PROVE HomeOK'
  BY <1>38 DEF vars
<1>39. ASSUME IdleClose PROVE HomeOK'
  BY <1>39 DEF IdleClose
<1>40. QED
  BY <1>1, <1>2, <1>3, <1>4, <1>5, <1>6, <1>7, <1>8, <1>9, <1>10, <1>11, <1>12, <1>13, <1>14,
      <1>15, <1>16, <1>17, <1>18, <1>19, <1>20, <1>21, <1>22, <1>23, <1>24, <1>25, <1>26, <1>27,
      <1>28, <1>29, <1>30, <1>31, <1>32, <1>33, <1>34, <1>35, <1>36, <1>37, <1>38, <1>39
  DEF Next, Arrive, Handle, Create, Evaluate, Command, ReaperStep, StopperStep, Environment, Threads

\* Every step keeps each launched interpreter either named, and so in the map once,
\* or held by the goroutine that launched it.
LEMMA LeakStep == TypeOK /\ ControlOK /\ NoStartupLeak /\ [Next]_vars => NoStartupLeak'
<1> SUFFICES ASSUME TypeOK, ControlOK, NoStartupLeak, [Next]_vars PROVE NoStartupLeak'
  OBVIOUS
<1> USE IdentityAssumption DEF Threads, TypeOK, NoStartupLeak, Running, Goto, Hold, Skip, Kill, mapVars,
    sessionVars, daemonVars, localVars
<1>1. ASSUME NEW r \in Requests, NEW j \in Jobs, NEW k \in Keys, ArriveEval(r, j,
    k) PROVE NoStartupLeak'
  BY <1>1 DEF ArriveEval
<1>2. ASSUME NEW r \in Requests, NEW j \in Jobs, NEW k \in Keys, ArriveCommand(r, j,
    k) PROVE NoStartupLeak'
  BY <1>2 DEF ArriveCommand
<1>3. ASSUME NEW r \in Requests, NEW j \in Jobs, NEW s \in Sessions, ArriveByID(r, j,
    s) PROVE NoStartupLeak'
  BY <1>3 DEF ArriveByID
<1>4. ASSUME NEW r \in Requests, NEW j \in Jobs, ArriveStop(r, j) PROVE NoStartupLeak'
  BY <1>4 DEF ArriveStop
<1>5. ASSUME NEW r \in Requests, Get(r) PROVE NoStartupLeak'
  BY <1>5 DEF Get
<1>6. ASSUME NEW r \in Requests, Join(r) PROVE NoStartupLeak'
  BY <1>6 DEF Join
<1>7. ASSUME NEW r \in Requests, Lead(r) PROVE NoStartupLeak'
  BY <1>7 DEF Lead
<1>8. ASSUME NEW r \in Requests, Evict(r) PROVE NoStartupLeak'
  BY <1>8 DEF Evict
<1>9. ASSUME NEW r \in Requests, NEW s \in Sessions, Start(r, s) PROVE NoStartupLeak'
  BY <1>9 DEF Start
<1>10. ASSUME NEW r \in Requests, StartFails(r) PROVE NoStartupLeak'
  BY <1>10 DEF StartFails
<1>11. ASSUME NEW r \in Requests, Boot(r) PROVE NoStartupLeak'
  BY <1>11 DEF Boot
<1>12. ASSUME NEW r \in Requests, Install(r) PROVE NoStartupLeak'
  BY <1>12 DEF Install
<1>13. ASSUME NEW r \in Requests, Land(r) PROVE NoStartupLeak'
  <2>1. \A q \in Requests : pc[q] \in {"boot", "install", "retire", "await"}
            => pc'[q] = pc[q] /\ sess'[q] = sess[q]
    BY <1>13 DEF Land, Followers
  <2>2. pc'[Stopper] = pc[Stopper]
    BY <1>13 DEF Land, Followers
  <2>3. UNCHANGED <<proc, named>>
    BY <1>13 DEF Land
  <2>4. QED BY <2>1, <2>2, <2>3
<1>14. ASSUME NEW r \in Requests, EvalReturns(r) PROVE NoStartupLeak'
  BY <1>14 DEF EvalReturns
<1>15. ASSUME NEW r \in Requests, EvalBreaks(r) PROVE NoStartupLeak'
  BY <1>15 DEF EvalBreaks
<1>16. ASSUME NEW r \in Requests, EvalCancelled(r) PROVE NoStartupLeak'
  BY <1>16 DEF EvalCancelled
<1>17. ASSUME NEW r \in Requests, Failed(r) PROVE NoStartupLeak'
  BY <1>17 DEF Failed
<1>18. ASSUME NEW r \in Requests, Sweep(r) PROVE NoStartupLeak'
  BY <1>18 DEF Sweep
<1>19. ASSUME NEW r \in Requests, Record(r) PROVE NoStartupLeak'
  BY <1>19 DEF Record
<1>20. ASSUME NEW r \in Requests, Restart(r) PROVE NoStartupLeak'
  BY <1>20 DEF Restart, Detach
<1>21. ASSUME NEW r \in Requests, Close(r) PROVE NoStartupLeak'
  BY <1>21 DEF Close, Detach
<1>22. ASSUME NEW r \in Requests, Free(r) PROVE NoStartupLeak'
  BY <1>22 DEF Free
<1>23. ASSUME NEW r \in Requests, Interrupt(r) PROVE NoStartupLeak'
  BY <1>23 DEF Interrupt
<1>24. ASSUME NEW r \in Requests, Aim(r) PROVE NoStartupLeak'
  BY <1>24 DEF Aim
<1>25. ASSUME NEW r \in Requests, PollEnds(r) PROVE NoStartupLeak'
  BY <1>25 DEF PollEnds
<1>26. ASSUME NEW r \in Requests, GraceKill(r) PROVE NoStartupLeak'
  BY <1>26 DEF GraceKill
<1>27. ASSUME NEW r \in Requests, Drop(r) PROVE NoStartupLeak'
  BY <1>27 DEF Drop
<1>28. ASSUME NEW t \in Threads, Retire(t) PROVE NoStartupLeak'
  BY <1>28 DEF Retire
<1>29. ASSUME NEW t \in Threads, Await(t) PROVE NoStartupLeak'
  <2>1. sess[t] \in Sessions
    BY <1>29, KillLocals DEF Await
  <2>2. QED BY <1>29, <2>1 DEF Await
<1>30. ASSUME Scan PROVE NoStartupLeak'
  BY <1>30 DEF Scan
<1>31. ASSUME NEW k \in Keys, Reap(k) PROVE NoStartupLeak'
  BY <1>31 DEF Reap, Detach
<1>32. ASSUME ReapEnds PROVE NoStartupLeak'
  BY <1>32 DEF ReapEnds
<1>33. ASSUME Shutdown PROVE NoStartupLeak'
  BY <1>33 DEF Shutdown
<1>34. ASSUME NEW s \in Sessions, ShutdownKill(s) PROVE NoStartupLeak'
  BY <1>34 DEF ShutdownKill
<1>35. ASSUME ShutdownEnds PROVE NoStartupLeak'
  BY <1>35 DEF ShutdownEnds
<1>36. ASSUME NEW s \in Sessions, ProcessExits(s) PROVE NoStartupLeak'
  BY <1>36 DEF ProcessExits
<1>37. ASSUME NEW o \in Owners, OwnerExits(o) PROVE NoStartupLeak'
  BY <1>37 DEF OwnerExits
<1>38. ASSUME UNCHANGED vars PROVE NoStartupLeak'
  BY <1>38 DEF vars
<1>39. ASSUME IdleClose PROVE NoStartupLeak'
  BY <1>39 DEF IdleClose
<1>40. QED
  BY <1>1, <1>2, <1>3, <1>4, <1>5, <1>6, <1>7, <1>8, <1>9, <1>10, <1>11, <1>12, <1>13, <1>14,
      <1>15, <1>16, <1>17, <1>18, <1>19, <1>20, <1>21, <1>22, <1>23, <1>24, <1>25, <1>26, <1>27,
      <1>28, <1>29, <1>30, <1>31, <1>32, <1>33, <1>34, <1>35, <1>36, <1>37, <1>38, <1>39
  DEF Next, Arrive, Handle, Create, Evaluate, Command, ReaperStep, StopperStep, Environment, Threads

\* Every step keeps the sessions that were taken out to be killed in the hands of the
\* goroutine that is killing them, until their processes are gone; the daemon's exit
\* lets go of those that a request or the reaper is killing, and of no others.
LEMMA RetiredStep == TypeOK /\ ControlOK /\ RetiredInHand /\ [Next]_vars => RetiredInHand'
<1> SUFFICES ASSUME TypeOK, ControlOK, RetiredInHand, [Next]_vars PROVE RetiredInHand'
  OBVIOUS
<1> USE IdentityAssumption DEF Threads, TypeOK, RetiredInHand, InHand, Abandoned, Running, Goto,
    Hold, Skip, Kill, mapVars, sessionVars, daemonVars, localVars
<1>1. ASSUME NEW r \in Requests, NEW j \in Jobs, NEW k \in Keys, ArriveEval(r, j,
    k) PROVE RetiredInHand'
  BY <1>1 DEF ArriveEval
<1>2. ASSUME NEW r \in Requests, NEW j \in Jobs, NEW k \in Keys, ArriveCommand(r, j,
    k) PROVE RetiredInHand'
  BY <1>2 DEF ArriveCommand
<1>3. ASSUME NEW r \in Requests, NEW j \in Jobs, NEW s \in Sessions, ArriveByID(r, j,
    s) PROVE RetiredInHand'
  BY <1>3 DEF ArriveByID
<1>4. ASSUME NEW r \in Requests, NEW j \in Jobs, ArriveStop(r, j) PROVE RetiredInHand'
  BY <1>4 DEF ArriveStop
<1>5. ASSUME NEW r \in Requests, Get(r) PROVE RetiredInHand'
  BY <1>5 DEF Get
<1>6. ASSUME NEW r \in Requests, Join(r) PROVE RetiredInHand'
  BY <1>6 DEF Join
<1>7. ASSUME NEW r \in Requests, Lead(r) PROVE RetiredInHand'
  BY <1>7 DEF Lead
<1>8. ASSUME NEW r \in Requests, Evict(r) PROVE RetiredInHand'
  BY <1>8 DEF Evict
<1>9. ASSUME NEW r \in Requests, NEW s \in Sessions, Start(r, s) PROVE RetiredInHand'
  BY <1>9 DEF Start
<1>10. ASSUME NEW r \in Requests, StartFails(r) PROVE RetiredInHand'
  BY <1>10 DEF StartFails
<1>11. ASSUME NEW r \in Requests, Boot(r) PROVE RetiredInHand'
  BY <1>11 DEF Boot
<1>12. ASSUME NEW r \in Requests, Install(r) PROVE RetiredInHand'
  BY <1>12 DEF Install
<1>13. ASSUME NEW r \in Requests, Land(r) PROVE RetiredInHand'
  <2>1. \A q \in Threads : pc[q] \in {"retire", "await"}
            => pc'[q] = pc[q] /\ sess'[q] = sess[q]
    BY <1>13 DEF Land, Followers
  <2>2. pc'[Stopper] = pc[Stopper]
    BY <1>13 DEF Land, Followers
  <2>3. UNCHANGED <<proc, victims, retired>>
    BY <1>13 DEF Land
  <2>4. QED BY <2>1, <2>2, <2>3
<1>14. ASSUME NEW r \in Requests, EvalReturns(r) PROVE RetiredInHand'
  BY <1>14 DEF EvalReturns
<1>15. ASSUME NEW r \in Requests, EvalBreaks(r) PROVE RetiredInHand'
  BY <1>15 DEF EvalBreaks
<1>16. ASSUME NEW r \in Requests, EvalCancelled(r) PROVE RetiredInHand'
  BY <1>16 DEF EvalCancelled
<1>17. ASSUME NEW r \in Requests, Failed(r) PROVE RetiredInHand'
  BY <1>17 DEF Failed
<1>18. ASSUME NEW r \in Requests, Sweep(r) PROVE RetiredInHand'
  BY <1>18 DEF Sweep
<1>19. ASSUME NEW r \in Requests, Record(r) PROVE RetiredInHand'
  BY <1>19 DEF Record
<1>20. ASSUME NEW r \in Requests, Restart(r) PROVE RetiredInHand'
  BY <1>20 DEF Restart, Detach
<1>21. ASSUME NEW r \in Requests, Close(r) PROVE RetiredInHand'
  BY <1>21 DEF Close, Detach
<1>22. ASSUME NEW r \in Requests, Free(r) PROVE RetiredInHand'
  BY <1>22 DEF Free
<1>23. ASSUME NEW r \in Requests, Interrupt(r) PROVE RetiredInHand'
  BY <1>23 DEF Interrupt
<1>24. ASSUME NEW r \in Requests, Aim(r) PROVE RetiredInHand'
  BY <1>24 DEF Aim
<1>25. ASSUME NEW r \in Requests, PollEnds(r) PROVE RetiredInHand'
  BY <1>25 DEF PollEnds
<1>26. ASSUME NEW r \in Requests, GraceKill(r) PROVE RetiredInHand'
  BY <1>26 DEF GraceKill
<1>27. ASSUME NEW r \in Requests, Drop(r) PROVE RetiredInHand'
  BY <1>27 DEF Drop
<1>28. ASSUME NEW t \in Threads, Retire(t) PROVE RetiredInHand'
  BY <1>28 DEF Retire
<1>29. ASSUME NEW t \in Threads, Await(t) PROVE RetiredInHand'
  <2>1. sess[t] \in Sessions /\ proc' = [proc EXCEPT ![sess[t]] = "gone"]
    BY <1>29, KillLocals DEF Await
  <2>2. \A u \in Threads : u # t => pc'[u] = pc[u] /\ sess'[u] = sess[u]
    BY <1>29 DEF Await
  <2>3. Running => Running'
    BY <1>29 DEF Await, ControlOK, Killing
  <2>4. UNCHANGED <<victims, retired>>
    BY <1>29 DEF Await
  <2>5. QED BY <2>1, <2>2, <2>3, <2>4
<1>30. ASSUME Scan PROVE RetiredInHand'
  BY <1>30 DEF Scan
<1>31. ASSUME NEW k \in Keys, Reap(k) PROVE RetiredInHand'
  BY <1>31 DEF Reap, Detach
<1>32. ASSUME ReapEnds PROVE RetiredInHand'
  BY <1>32 DEF ReapEnds
<1>33. ASSUME Shutdown PROVE RetiredInHand'
  BY <1>33 DEF Shutdown, ControlOK
<1>34. ASSUME NEW s \in Sessions, ShutdownKill(s) PROVE RetiredInHand'
  BY <1>34 DEF ShutdownKill
<1>35. ASSUME ShutdownEnds PROVE RetiredInHand'
  BY <1>35 DEF ShutdownEnds
<1>36. ASSUME NEW s \in Sessions, ProcessExits(s) PROVE RetiredInHand'
  BY <1>36 DEF ProcessExits
<1>37. ASSUME NEW o \in Owners, OwnerExits(o) PROVE RetiredInHand'
  BY <1>37 DEF OwnerExits
<1>38. ASSUME UNCHANGED vars PROVE RetiredInHand'
  BY <1>38 DEF vars
<1>39. ASSUME IdleClose PROVE RetiredInHand'
  BY <1>39 DEF IdleClose
<1>40. QED
  BY <1>1, <1>2, <1>3, <1>4, <1>5, <1>6, <1>7, <1>8, <1>9, <1>10, <1>11, <1>12, <1>13, <1>14,
      <1>15, <1>16, <1>17, <1>18, <1>19, <1>20, <1>21, <1>22, <1>23, <1>24, <1>25, <1>26, <1>27,
      <1>28, <1>29, <1>30, <1>31, <1>32, <1>33, <1>34, <1>35, <1>36, <1>37, <1>38, <1>39
  DEF Next, Arrive, Handle, Create, Evaluate, Command, ReaperStep, StopperStep, Environment, Threads

\* Every step of the manager is a step of the registry, or does not touch the map.
LEMMA RegistryStep ==
    TypeOK /\ ControlOK /\ SlotOK /\ HomeOK /\ [Next]_vars => [Registry!RegistryNext]_<<sessions,
        named>>
<1> SUFFICES ASSUME TypeOK, ControlOK, SlotOK, HomeOK, [Next]_vars
             PROVE  [Registry!RegistryNext]_<<sessions, named>>
  OBVIOUS
<1> USE DEF TypeOK, mapVars, sessionVars
<1>1. ASSUME NEW r \in Requests, NEW j \in Jobs, NEW k \in Keys, ArriveEval(r, j,
    k) PROVE [Registry!RegistryNext]_<<sessions, named>>
  BY <1>1 DEF ArriveEval
<1>2. ASSUME NEW r \in Requests, NEW j \in Jobs, NEW k \in Keys, ArriveCommand(r, j,
    k) PROVE [Registry!RegistryNext]_<<sessions, named>>
  BY <1>2 DEF ArriveCommand
<1>3. ASSUME NEW r \in Requests, NEW j \in Jobs, NEW s \in Sessions, ArriveByID(r, j,
    s) PROVE [Registry!RegistryNext]_<<sessions, named>>
  BY <1>3 DEF ArriveByID
<1>4. ASSUME NEW r \in Requests, NEW j \in Jobs, ArriveStop(r,
    j) PROVE [Registry!RegistryNext]_<<sessions, named>>
  BY <1>4 DEF ArriveStop
<1>5. ASSUME NEW r \in Requests, Get(r) PROVE [Registry!RegistryNext]_<<sessions, named>>
  BY <1>5 DEF Get
<1>6. ASSUME NEW r \in Requests, Join(r) PROVE [Registry!RegistryNext]_<<sessions, named>>
  BY <1>6 DEF Join
<1>7. ASSUME NEW r \in Requests, Lead(r) PROVE [Registry!RegistryNext]_<<sessions, named>>
  BY <1>7 DEF Lead
<1>8. ASSUME NEW r \in Requests, Evict(r) PROVE [Registry!RegistryNext]_<<sessions, named>>
  <2>1. key[r] \in Keys
    BY <1>8 DEF Evict, ControlOK
  <2>2. Registry!Leave({key[r]})
    BY <1>8, <2>1 DEF Evict, Registry!Leave
  <2>3. QED BY <2>1, <2>2 DEF Registry!RegistryNext
<1>9. ASSUME NEW r \in Requests, NEW s \in Sessions, Start(r,
    s) PROVE [Registry!RegistryNext]_<<sessions, named>>
  BY <1>9 DEF Start
<1>10. ASSUME NEW r \in Requests, StartFails(r) PROVE [Registry!RegistryNext]_<<sessions, named>>
  BY <1>10 DEF StartFails
<1>11. ASSUME NEW r \in Requests, Boot(r) PROVE [Registry!RegistryNext]_<<sessions, named>>
  BY <1>11 DEF Boot
<1>12. ASSUME NEW r \in Requests, Install(r) PROVE [Registry!RegistryNext]_<<sessions, named>>
  <2>1. key[r] \in Keys /\ sess[r] \in Sessions
    BY <1>12 DEF Install, ControlOK, Threads
  <2>2. sessions[key[r]] = None /\ sess[r] \notin named
    BY <1>12 DEF Install, SlotOK, HomeOK
  <2>3. Registry!Enter(key[r], sess[r])
    BY <1>12, <2>1, <2>2 DEF Install, Registry!Enter
  <2>4. QED BY <2>1, <2>3 DEF Registry!RegistryNext
<1>13. ASSUME NEW r \in Requests, Land(r) PROVE [Registry!RegistryNext]_<<sessions, named>>
  BY <1>13 DEF Land
<1>14. ASSUME NEW r \in Requests, EvalReturns(r) PROVE [Registry!RegistryNext]_<<sessions, named>>
  BY <1>14 DEF EvalReturns
<1>15. ASSUME NEW r \in Requests, EvalBreaks(r) PROVE [Registry!RegistryNext]_<<sessions, named>>
  BY <1>15 DEF EvalBreaks
<1>16. ASSUME NEW r \in Requests, EvalCancelled(r) PROVE [Registry!RegistryNext]_<<sessions, named>>
  BY <1>16 DEF EvalCancelled
<1>17. ASSUME NEW r \in Requests, Failed(r) PROVE [Registry!RegistryNext]_<<sessions, named>>
  BY <1>17 DEF Failed
<1>18. ASSUME NEW r \in Requests, Sweep(r) PROVE [Registry!RegistryNext]_<<sessions, named>>
  <2>1. key[r] \in Keys
    BY <1>18 DEF Sweep, ControlOK
  <2>2. Registry!Leave({key[r]})
    BY <1>18, <2>1 DEF Sweep, Registry!Leave
  <2>3. QED BY <2>1, <2>2 DEF Registry!RegistryNext
<1>19. ASSUME NEW r \in Requests, Record(r) PROVE [Registry!RegistryNext]_<<sessions, named>>
  BY <1>19 DEF Record
<1>20. ASSUME NEW r \in Requests, Restart(r) PROVE [Registry!RegistryNext]_<<sessions, named>>
  <2>1. key[r] \in Keys
    BY <1>20 DEF Restart, ControlOK
  <2>2. Registry!Leave({key[r]})
    BY <1>20, <2>1 DEF Restart, Detach, Registry!Leave
  <2>3. QED BY <2>1, <2>2 DEF Registry!RegistryNext
<1>21. ASSUME NEW r \in Requests, Close(r) PROVE [Registry!RegistryNext]_<<sessions, named>>
  <2>1. key[r] \in Keys
    BY <1>21 DEF Close, ControlOK
  <2>2. Registry!Leave({key[r]})
    BY <1>21, <2>1 DEF Close, Detach, Registry!Leave
  <2>3. QED BY <2>1, <2>2 DEF Registry!RegistryNext
<1>22. ASSUME NEW r \in Requests, Free(r) PROVE [Registry!RegistryNext]_<<sessions, named>>
  BY <1>22 DEF Free
<1>23. ASSUME NEW r \in Requests, Interrupt(r) PROVE [Registry!RegistryNext]_<<sessions, named>>
  BY <1>23 DEF Interrupt
<1>24. ASSUME NEW r \in Requests, Aim(r) PROVE [Registry!RegistryNext]_<<sessions, named>>
  BY <1>24 DEF Aim
<1>25. ASSUME NEW r \in Requests, PollEnds(r) PROVE [Registry!RegistryNext]_<<sessions, named>>
  BY <1>25 DEF PollEnds
<1>26. ASSUME NEW r \in Requests, GraceKill(r) PROVE [Registry!RegistryNext]_<<sessions, named>>
  BY <1>26 DEF GraceKill
<1>27. ASSUME NEW r \in Requests, Drop(r) PROVE [Registry!RegistryNext]_<<sessions, named>>
  <2>1. key[r] \in Keys
    BY <1>27 DEF Drop, ControlOK
  <2>2. Registry!Leave({key[r]})
    BY <1>27, <2>1 DEF Drop, Registry!Leave
  <2>3. QED BY <2>1, <2>2 DEF Registry!RegistryNext
<1>28. ASSUME NEW t \in Threads, Retire(t) PROVE [Registry!RegistryNext]_<<sessions, named>>
  BY <1>28 DEF Retire
<1>29. ASSUME NEW t \in Threads, Await(t) PROVE [Registry!RegistryNext]_<<sessions, named>>
  BY <1>29 DEF Await
<1>30. ASSUME Scan PROVE [Registry!RegistryNext]_<<sessions, named>>
  BY <1>30 DEF Scan
<1>31. ASSUME NEW k \in Keys, Reap(k) PROVE [Registry!RegistryNext]_<<sessions, named>>
  <2>1. Registry!Leave({k})
    BY <1>31 DEF Reap, Detach, Registry!Leave
  <2>2. QED BY <2>1 DEF Registry!RegistryNext
<1>32. ASSUME ReapEnds PROVE [Registry!RegistryNext]_<<sessions, named>>
  BY <1>32 DEF ReapEnds
<1>33. ASSUME Shutdown PROVE [Registry!RegistryNext]_<<sessions, named>>
  <2>1. Registry!Leave(Keys)
    BY <1>33 DEF Shutdown, Registry!Leave
  <2>2. QED BY <2>1 DEF Registry!RegistryNext
<1>34. ASSUME NEW s \in Sessions, ShutdownKill(s) PROVE [Registry!RegistryNext]_<<sessions, named>>
  BY <1>34 DEF ShutdownKill
<1>35. ASSUME ShutdownEnds PROVE [Registry!RegistryNext]_<<sessions, named>>
  BY <1>35 DEF ShutdownEnds
<1>36. ASSUME NEW s \in Sessions, ProcessExits(s) PROVE [Registry!RegistryNext]_<<sessions, named>>
  BY <1>36 DEF ProcessExits
<1>37. ASSUME NEW o \in Owners, OwnerExits(o) PROVE [Registry!RegistryNext]_<<sessions, named>>
  BY <1>37 DEF OwnerExits
<1>38. ASSUME UNCHANGED vars PROVE [Registry!RegistryNext]_<<sessions, named>>
  BY <1>38 DEF vars
<1>39. ASSUME IdleClose PROVE [Registry!RegistryNext]_<<sessions, named>>
  BY <1>39 DEF IdleClose
<1>40. QED
  BY <1>1, <1>2, <1>3, <1>4, <1>5, <1>6, <1>7, <1>8, <1>9, <1>10, <1>11, <1>12, <1>13, <1>14,
      <1>15, <1>16, <1>17, <1>18, <1>19, <1>20, <1>21, <1>22, <1>23, <1>24, <1>25, <1>26, <1>27,
      <1>28, <1>29, <1>30, <1>31, <1>32, <1>33, <1>34, <1>35, <1>36, <1>37, <1>38, <1>39
  DEF Next, Arrive, Handle, Create, Evaluate, Command, ReaperStep, StopperStep, Environment, Threads

\* The daemon starts with an empty map and no request.
LEMMA InitInvariant == Init => IInv
BY IdentityAssumption
   DEF Init, IInv, TypeOK, ControlOK, FlightOK, SlotOK, HomeOK, NoStartupLeak, RetiredInHand, Leading, Killing,
       Labels, EvalLabels, CommandLabels, Threads

\* The invariant is inductive.
LEMMA StepInvariant == IInv /\ [Next]_vars => IInv'
BY TypeStep, ControlStep, FlightStep, SlotStep, HomeStep, LeakStep, RetiredStep DEF IInv

\* IInv holds in every reachable state of the manager, for any number of keys,
\* sessions, requests and owners.
THEOREM Invariance == Spec => []IInv
BY InitInvariant, StepInvariant, PTL DEF Spec

\* The type invariant.
THEOREM TypeCorrect == Spec => []TypeOK
<1>1. IInv => TypeOK
  BY DEF IInv
<1>2. QED BY <1>1, Invariance, PTL

\* No two goroutines create an interpreter for one key at a time (manager.go:150).
THEOREM StartsOneAtATime == Spec => []SingleStarter
<1>1. IInv => SingleStarter
  BY DEF IInv, FlightOK, Leading, SingleStarter, Starting
<1>2. QED BY <1>1, Invariance, PTL

\* The delete that follows the kill of a dead session (manager.go:160-165) never
\* removes a session that was installed in the meantime.
THEOREM EvictionIsExact == Spec => []EvictsOnlyTheDead
<1>1. IInv => EvictsOnlyTheDead
  BY DEF IInv, SlotOK, EvictsOnlyTheDead
<1>2. QED BY <1>1, Invariance, PTL

\* A session returned by getOrCreate, and one whose traceback is saved, was started
\* for the key of the request.
THEOREM Routing == Spec => []RoutedHome
<1>1. IInv => RoutedHome
  BY IdentityAssumption DEF IInv, TypeOK, ControlOK, HomeOK, RoutedHome, Threads
<1>2. QED BY <1>1, Invariance, PTL

\* A request for an existing session never starts an interpreter (daemon.go:193-198,
\* manager.go:157-159).
THEOREM LabelsNeedASession == Spec => []LabelOnlyNeverStarts
<1>1. IInv => LabelOnlyNeverStarts
  BY JobsAssumption DEF IInv, ControlOK, SlotOK, LabelOnlyNeverStarts, Starting, EvalLabels
<1>2. QED BY <1>1, Invariance, PTL

\* An interpreter that is not in the map yet is held by the goroutine that will
\* install it or kill it (manager.go:167-176, session.go:163-181).
THEOREM StartsDoNotLeak == Spec => []NoStartupLeak
<1>1. IInv => NoStartupLeak
  BY DEF IInv
<1>2. QED BY <1>1, Invariance, PTL

\* A session taken out of the map to be killed stays in the hands of a goroutine of the
\* running daemon, or on the list of the shutdown, until its process is gone; when the
\* daemon has exited, only one whose kill a request or the reaper had begun may be left
\* (manager.go:192-215, 240, 345-358).
THEOREM RetirementsAreSeenThrough == Spec => []RetiredInHand
<1>1. IInv => RetiredInHand
  BY DEF IInv
<1>2. QED BY <1>1, Invariance, PTL

\* Nobody waits for a creation that nobody is at (singleflight, manager.go:158): the
\* leader of the flight is on its way, and does not wait for another request.
THEOREM WaitersAreLed == Spec => []FollowersAreLed
<1>1. Init => FlightIsLed
  <2>1. SUFFICES ASSUME Init PROVE FlightIsLed OBVIOUS
  <2>2. \A k \in Keys : flight[k] = None BY <2>1 DEF Init
  <2>3. \A r \in Requests : pc[r] = "idle" BY <2>1, IdentityAssumption DEF Init, Threads
  <2>4. QED BY <2>2, <2>3 DEF FlightIsLed
<1>2. IInv /\ FlightIsLed /\ [Next]_vars => FlightIsLed'
  BY FollowStep DEF IInv
<1>3. IInv /\ FlightIsLed => FollowersAreLed
  BY DEF IInv, ControlOK, FlightIsLed, FollowersAreLed
<1>4. QED BY <1>1, <1>2, <1>3, Invariance, PTL DEF Spec

\* The manager implements the registry: the map changes only by giving a key that
\* has no session a new one, and by giving sessions up.
THEOREM ImplementsRegistry == Spec => RegistryHolds
<1>1. Init => Registry!RegistryInit
  BY DEF Init, Registry!RegistryInit
<1>2. IInv /\ [Next]_vars => [Registry!RegistryNext]_(Registry!registryVars)
  BY RegistryStep DEF IInv, Registry!registryVars
<1>3. QED
  BY <1>1, <1>2, Invariance, PTL DEF Spec, RegistryHolds, Registry!RegistrySpec
=============================================================================
