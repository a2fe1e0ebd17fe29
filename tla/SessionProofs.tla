---------------------------- MODULE SessionProofs ----------------------------
(***************************************************************************)
(* Proofs about Session, for any number of callers and interrupts and for  *)
(* any grace: its type invariant and its safety properties.  They follow   *)
(* from IInv, which is inductive; each of its conjuncts has a lemma with   *)
(* one step per action.                                                    *)
(***************************************************************************)
EXTENDS Session, TLAPS

\* Types are kept by every step.
LEMMA TypeStep == TypeOK /\ [Next]_vars => TypeOK'
<1> SUFFICES ASSUME TypeOK, [Next]_vars PROVE TypeOK'
  OBVIOUS
<1> USE SessionAssumption DEF TypeOK, Goto, Interrupters, sharedVars, interpreterVars, callerVars,
    interruptVars
<1>1. ASSUME NEW c \in Callers, Call(c) PROVE TypeOK'
  BY <1>1 DEF Call
<1>2. ASSUME NEW c \in Callers, Acquire(c) PROVE TypeOK'
  BY <1>2 DEF Acquire
<1>3. ASSUME NEW c \in Callers, GiveUp(c) PROVE TypeOK'
  BY <1>3 DEF GiveUp, Ends
<1>4. ASSUME NEW c \in Callers, Check(c) PROVE TypeOK'
  BY <1>4 DEF Check, Ends
<1>5. ASSUME NEW c \in Callers, Mark(c) PROVE TypeOK'
  BY <1>5 DEF Mark
<1>6. ASSUME NEW c \in Callers, Write(c) PROVE TypeOK'
  BY <1>6 DEF Write, Ends
<1>7. ASSUME NEW c \in Callers, Scan(c) PROVE TypeOK'
  <2>1. /\ UNCHANGED <<busy, sem, stdin, proc, stage, code, status, signal, left, irq, aim, polls,
                       killer>>
        /\ \E l \in {"status", "unbusy"} : pc' = [pc EXCEPT ![c] = l]
        /\ result' = result \/ result' = [result EXCEPT ![c] = "died"]
    BY <1>7 DEF Scan, Ends
  <2>2. sentinel' \in BOOLEAN
    BY <1>7, Zenon DEF Scan
  <2>3. dead' \in BOOLEAN
    BY <1>7, Zenon DEF Scan
  <2>4. QED BY <2>1, <2>2, <2>3
<1>8. ASSUME NEW c \in Callers, Status(c) PROVE TypeOK'
  <2>1. /\ UNCHANGED <<dead, busy, sem, stdin, proc, stage, code, sentinel, signal, left, irq,
                       aim, polls, killer>>
        /\ status' \in {"none", status}
        /\ pc' = [pc EXCEPT ![c] = "unbusy"]
    BY <1>8 DEF Status, Ends
  <2>2. \E v \in {"ok", "error", "aborted"} : result' = [result EXCEPT ![c] = v]
    BY <1>8 DEF Status, Ends
  <2>3. QED BY <2>1, <2>2
<1>9. ASSUME NEW c \in Callers, Unbusy(c) PROVE TypeOK'
  BY <1>9 DEF Unbusy
<1>10. ASSUME NEW c \in Callers, Notify(c) PROVE TypeOK'
  BY <1>10 DEF Notify
<1>11. ASSUME NEW c \in Callers, Release(c) PROVE TypeOK'
  BY <1>11 DEF Release
<1>12. ASSUME NEW c \in Callers, Cleanup(c) PROVE TypeOK'
  BY <1>12 DEF Cleanup, Cancel
<1>13. ASSUME NEW c \in Callers, Disconnect(c) PROVE TypeOK'
  BY <1>13 DEF Disconnect, Cancel
<1>14. ASSUME NEW c \in Callers, Watch(c) PROVE TypeOK'
  BY <1>14 DEF Watch
<1>15. ASSUME NEW e \in Externals, Request(e) PROVE TypeOK'
  BY <1>15 DEF Request
<1>16. ASSUME NEW i \in Interrupters, Test(i) PROVE TypeOK'
  BY <1>16 DEF Test
<1>17. ASSUME NEW i \in Interrupters, Signal(i) PROVE TypeOK'
  BY <1>17 DEF Signal, Send
<1>18. ASSUME NEW i \in Interrupters, Poll(i) PROVE TypeOK'
  BY <1>18 DEF Poll, Leave
<1>19. ASSUME NEW i \in Interrupters, Deadline(i) PROVE TypeOK'
  BY <1>19 DEF Deadline, ProcessGone
<1>20. ASSUME NEW i \in Interrupters, Reaped(i) PROVE TypeOK'
  BY <1>20 DEF Reaped, Leave
<1>21. ASSUME NEW i \in Interrupters, Resend(i) PROVE TypeOK'
  BY <1>21 DEF Resend, Send
<1>22. ASSUME KillMark PROVE TypeOK'
  BY <1>22 DEF KillMark
<1>23. ASSUME KillStdin PROVE TypeOK'
  BY <1>23, ZenonT(40) DEF KillStdin
<1>24. ASSUME KillEnds PROVE TypeOK'
  BY <1>24, ZenonT(40) DEF KillEnds, ProcessGone
<1>25. ASSUME Enter PROVE TypeOK'
  BY <1>25 DEF Enter
<1>26. ASSUME PrintSentinel PROVE TypeOK'
  BY <1>26 DEF PrintSentinel
<1>27. ASSUME Finish PROVE TypeOK'
  BY <1>27 DEF Finish
<1>28. ASSUME Interrupted PROVE TypeOK'
  <2>1. /\ UNCHANGED <<dead, busy, sem, stdin, proc, sentinel, pc, result, left, irq, aim,
                       polls, killer>>
        /\ signal' = FALSE
    BY <1>28, Zenon DEF Interrupted, sharedVars, callerVars, interruptVars
  <2>2. stage' \in {"wrote", "idle", stage} /\ status' \in {"error", status} /\ code' \in {None, code}
    BY <1>28, Zenon DEF Interrupted
  <2>3. stage' \in {"idle", "read", "run", "wrote"} /\ status' \in {"none", "ok", "error"}
    BY <2>2
  <2>4. signal' \in BOOLEAN
    BY <2>1, Zenon
  <2>5. code' \in Callers \cup {None}
    BY <2>2
  <2>6. QED BY <2>1, <2>3, <2>4, <2>5
<1>29. ASSUME ProcessExits PROVE TypeOK'
  BY <1>29 DEF ProcessExits, ProcessGone
<1>30. ASSUME UNCHANGED vars PROVE TypeOK'
  BY <1>30 DEF vars
<1>31. QED
  BY <1>1, <1>2, <1>3, <1>4, <1>5, <1>6, <1>7, <1>8, <1>9, <1>10, <1>11, <1>12, <1>13, <1>14, <1>15, <1>16,
     <1>17, <1>18, <1>19, <1>20, <1>21, <1>22, <1>23, <1>24, <1>25, <1>26, <1>27, <1>28, <1>29, <1>30
  DEF Next, Execute, Interrupter, Watcher, KillStep, Runtime

\* s.sem lets one caller in: it is taken only when free, and released by its holder.
LEMMA LockStep == TypeOK /\ LockOK /\ [Next]_vars => LockOK'
<1> SUFFICES ASSUME TypeOK, LockOK, [Next]_vars PROVE LockOK'
  OBVIOUS
<1> USE SessionAssumption DEF TypeOK, Goto, Interrupters, sharedVars, interpreterVars, callerVars,
    interruptVars, LockOK, Inside
<1>1. ASSUME NEW c \in Callers, Call(c) PROVE LockOK'
  BY <1>1 DEF Call
<1>2. ASSUME NEW c \in Callers, Acquire(c) PROVE LockOK'
  BY <1>2 DEF Acquire
<1>3. ASSUME NEW c \in Callers, GiveUp(c) PROVE LockOK'
  BY <1>3 DEF GiveUp, Ends
<1>4. ASSUME NEW c \in Callers, Check(c) PROVE LockOK'
  BY <1>4 DEF Check, Ends
<1>5. ASSUME NEW c \in Callers, Mark(c) PROVE LockOK'
  BY <1>5 DEF Mark
<1>6. ASSUME NEW c \in Callers, Write(c) PROVE LockOK'
  BY <1>6 DEF Write, Ends
<1>7. ASSUME NEW c \in Callers, Scan(c) PROVE LockOK'
  BY <1>7 DEF Scan, Ends
<1>8. ASSUME NEW c \in Callers, Status(c) PROVE LockOK'
  BY <1>8 DEF Status, Ends
<1>9. ASSUME NEW c \in Callers, Unbusy(c) PROVE LockOK'
  BY <1>9 DEF Unbusy
<1>10. ASSUME NEW c \in Callers, Notify(c) PROVE LockOK'
  BY <1>10 DEF Notify
<1>11. ASSUME NEW c \in Callers, Release(c) PROVE LockOK'
  BY <1>11 DEF Release
<1>12. ASSUME NEW c \in Callers, Cleanup(c) PROVE LockOK'
  BY <1>12 DEF Cleanup, Cancel
<1>13. ASSUME NEW c \in Callers, Disconnect(c) PROVE LockOK'
  BY <1>13 DEF Disconnect, Cancel
<1>14. ASSUME NEW c \in Callers, Watch(c) PROVE LockOK'
  BY <1>14 DEF Watch
<1>15. ASSUME NEW e \in Externals, Request(e) PROVE LockOK'
  BY <1>15 DEF Request
<1>16. ASSUME NEW i \in Interrupters, Test(i) PROVE LockOK'
  BY <1>16 DEF Test
<1>17. ASSUME NEW i \in Interrupters, Signal(i) PROVE LockOK'
  BY <1>17 DEF Signal, Send
<1>18. ASSUME NEW i \in Interrupters, Poll(i) PROVE LockOK'
  BY <1>18 DEF Poll, Leave
<1>19. ASSUME NEW i \in Interrupters, Deadline(i) PROVE LockOK'
  BY <1>19 DEF Deadline, ProcessGone
<1>20. ASSUME NEW i \in Interrupters, Reaped(i) PROVE LockOK'
  BY <1>20 DEF Reaped, Leave
<1>21. ASSUME NEW i \in Interrupters, Resend(i) PROVE LockOK'
  BY <1>21 DEF Resend, Send
<1>22. ASSUME KillMark PROVE LockOK'
  BY <1>22 DEF KillMark
<1>23. ASSUME KillStdin PROVE LockOK'
  BY <1>23 DEF KillStdin
<1>24. ASSUME KillEnds PROVE LockOK'
  BY <1>24 DEF KillEnds, ProcessGone
<1>25. ASSUME Enter PROVE LockOK'
  BY <1>25 DEF Enter
<1>26. ASSUME PrintSentinel PROVE LockOK'
  BY <1>26 DEF PrintSentinel
<1>27. ASSUME Finish PROVE LockOK'
  BY <1>27 DEF Finish
<1>28. ASSUME Interrupted PROVE LockOK'
  BY <1>28 DEF Interrupted
<1>29. ASSUME ProcessExits PROVE LockOK'
  BY <1>29 DEF ProcessExits, ProcessGone
<1>30. ASSUME UNCHANGED vars PROVE LockOK'
  BY <1>30 DEF vars
<1>31. QED
  BY <1>1, <1>2, <1>3, <1>4, <1>5, <1>6, <1>7, <1>8, <1>9, <1>10, <1>11, <1>12, <1>13, <1>14, <1>15, <1>16,
     <1>17, <1>18, <1>19, <1>20, <1>21, <1>22, <1>23, <1>24, <1>25, <1>26, <1>27, <1>28, <1>29, <1>30
  DEF Next, Execute, Interrupter, Watcher, KillStep, Runtime

\* Every way through execute passes the deferred release (session.go:499).
LEMMA TurnStep == TypeOK /\ LockOK /\ TurnIsUsed /\ [Next]_vars => TurnIsUsed'
<1> SUFFICES ASSUME TypeOK, LockOK, TurnIsUsed, [Next]_vars PROVE TurnIsUsed'
  OBVIOUS
<1> USE SessionAssumption DEF TypeOK, Goto, Interrupters, sharedVars, interpreterVars, callerVars,
    interruptVars, LockOK, TurnIsUsed, Inside
<1>1. ASSUME NEW c \in Callers, Call(c) PROVE TurnIsUsed'
  BY <1>1 DEF Call
<1>2. ASSUME NEW c \in Callers, Acquire(c) PROVE TurnIsUsed'
  BY <1>2 DEF Acquire
<1>3. ASSUME NEW c \in Callers, GiveUp(c) PROVE TurnIsUsed'
  BY <1>3 DEF GiveUp, Ends
<1>4. ASSUME NEW c \in Callers, Check(c) PROVE TurnIsUsed'
  BY <1>4 DEF Check, Ends
<1>5. ASSUME NEW c \in Callers, Mark(c) PROVE TurnIsUsed'
  BY <1>5 DEF Mark
<1>6. ASSUME NEW c \in Callers, Write(c) PROVE TurnIsUsed'
  BY <1>6 DEF Write, Ends
<1>7. ASSUME NEW c \in Callers, Scan(c) PROVE TurnIsUsed'
  BY <1>7 DEF Scan, Ends
<1>8. ASSUME NEW c \in Callers, Status(c) PROVE TurnIsUsed'
  BY <1>8 DEF Status, Ends
<1>9. ASSUME NEW c \in Callers, Unbusy(c) PROVE TurnIsUsed'
  BY <1>9 DEF Unbusy
<1>10. ASSUME NEW c \in Callers, Notify(c) PROVE TurnIsUsed'
  BY <1>10 DEF Notify
<1>11. ASSUME NEW c \in Callers, Release(c) PROVE TurnIsUsed'
  BY <1>11 DEF Release
<1>12. ASSUME NEW c \in Callers, Cleanup(c) PROVE TurnIsUsed'
  BY <1>12 DEF Cleanup, Cancel
<1>13. ASSUME NEW c \in Callers, Disconnect(c) PROVE TurnIsUsed'
  BY <1>13 DEF Disconnect, Cancel
<1>14. ASSUME NEW c \in Callers, Watch(c) PROVE TurnIsUsed'
  BY <1>14 DEF Watch
<1>15. ASSUME NEW e \in Externals, Request(e) PROVE TurnIsUsed'
  BY <1>15 DEF Request
<1>16. ASSUME NEW i \in Interrupters, Test(i) PROVE TurnIsUsed'
  BY <1>16 DEF Test
<1>17. ASSUME NEW i \in Interrupters, Signal(i) PROVE TurnIsUsed'
  BY <1>17 DEF Signal, Send
<1>18. ASSUME NEW i \in Interrupters, Poll(i) PROVE TurnIsUsed'
  BY <1>18 DEF Poll, Leave
<1>19. ASSUME NEW i \in Interrupters, Deadline(i) PROVE TurnIsUsed'
  BY <1>19 DEF Deadline, ProcessGone
<1>20. ASSUME NEW i \in Interrupters, Reaped(i) PROVE TurnIsUsed'
  BY <1>20 DEF Reaped, Leave
<1>21. ASSUME NEW i \in Interrupters, Resend(i) PROVE TurnIsUsed'
  BY <1>21 DEF Resend, Send
<1>22. ASSUME KillMark PROVE TurnIsUsed'
  BY <1>22 DEF KillMark
<1>23. ASSUME KillStdin PROVE TurnIsUsed'
  BY <1>23 DEF KillStdin
<1>24. ASSUME KillEnds PROVE TurnIsUsed'
  BY <1>24 DEF KillEnds, ProcessGone
<1>25. ASSUME Enter PROVE TurnIsUsed'
  BY <1>25 DEF Enter
<1>26. ASSUME PrintSentinel PROVE TurnIsUsed'
  BY <1>26 DEF PrintSentinel
<1>27. ASSUME Finish PROVE TurnIsUsed'
  BY <1>27 DEF Finish
<1>28. ASSUME Interrupted PROVE TurnIsUsed'
  BY <1>28 DEF Interrupted
<1>29. ASSUME ProcessExits PROVE TurnIsUsed'
  BY <1>29 DEF ProcessExits, ProcessGone
<1>30. ASSUME UNCHANGED vars PROVE TurnIsUsed'
  BY <1>30 DEF vars
<1>31. QED
  BY <1>1, <1>2, <1>3, <1>4, <1>5, <1>6, <1>7, <1>8, <1>9, <1>10, <1>11, <1>12, <1>13, <1>14, <1>15, <1>16,
     <1>17, <1>18, <1>19, <1>20, <1>21, <1>22, <1>23, <1>24, <1>25, <1>26, <1>27, <1>28, <1>29, <1>30
  DEF Next, Execute, Interrupter, Watcher, KillStep, Runtime

\* Every step that ends the process ends what it was doing (session.go:553-572, 621-625).
LEMMA GoneStep == TypeOK /\ GoneOK /\ [Next]_vars => GoneOK'
<1> SUFFICES ASSUME TypeOK, GoneOK, [Next]_vars PROVE GoneOK'
  OBVIOUS
<1> USE SessionAssumption DEF TypeOK, Goto, Interrupters, sharedVars, interpreterVars, callerVars,
    interruptVars, GoneOK
<1>1. ASSUME NEW c \in Callers, Call(c) PROVE GoneOK'
  BY <1>1 DEF Call
<1>2. ASSUME NEW c \in Callers, Acquire(c) PROVE GoneOK'
  BY <1>2 DEF Acquire
<1>3. ASSUME NEW c \in Callers, GiveUp(c) PROVE GoneOK'
  BY <1>3 DEF GiveUp, Ends
<1>4. ASSUME NEW c \in Callers, Check(c) PROVE GoneOK'
  BY <1>4 DEF Check, Ends
<1>5. ASSUME NEW c \in Callers, Mark(c) PROVE GoneOK'
  BY <1>5 DEF Mark
<1>6. ASSUME NEW c \in Callers, Write(c) PROVE GoneOK'
  BY <1>6 DEF Write, Ends
<1>7. ASSUME NEW c \in Callers, Scan(c) PROVE GoneOK'
  BY <1>7 DEF Scan, Ends
<1>8. ASSUME NEW c \in Callers, Status(c) PROVE GoneOK'
  BY <1>8 DEF Status, Ends
<1>9. ASSUME NEW c \in Callers, Unbusy(c) PROVE GoneOK'
  BY <1>9 DEF Unbusy
<1>10. ASSUME NEW c \in Callers, Notify(c) PROVE GoneOK'
  BY <1>10 DEF Notify
<1>11. ASSUME NEW c \in Callers, Release(c) PROVE GoneOK'
  BY <1>11 DEF Release
<1>12. ASSUME NEW c \in Callers, Cleanup(c) PROVE GoneOK'
  BY <1>12 DEF Cleanup, Cancel
<1>13. ASSUME NEW c \in Callers, Disconnect(c) PROVE GoneOK'
  BY <1>13 DEF Disconnect, Cancel
<1>14. ASSUME NEW c \in Callers, Watch(c) PROVE GoneOK'
  BY <1>14 DEF Watch
<1>15. ASSUME NEW e \in Externals, Request(e) PROVE GoneOK'
  BY <1>15 DEF Request
<1>16. ASSUME NEW i \in Interrupters, Test(i) PROVE GoneOK'
  BY <1>16 DEF Test
<1>17. ASSUME NEW i \in Interrupters, Signal(i) PROVE GoneOK'
  BY <1>17 DEF Signal, Send
<1>18. ASSUME NEW i \in Interrupters, Poll(i) PROVE GoneOK'
  BY <1>18 DEF Poll, Leave
<1>19. ASSUME NEW i \in Interrupters, Deadline(i) PROVE GoneOK'
  BY <1>19 DEF Deadline, ProcessGone
<1>20. ASSUME NEW i \in Interrupters, Reaped(i) PROVE GoneOK'
  BY <1>20 DEF Reaped, Leave
<1>21. ASSUME NEW i \in Interrupters, Resend(i) PROVE GoneOK'
  BY <1>21 DEF Resend, Send
<1>22. ASSUME KillMark PROVE GoneOK'
  BY <1>22 DEF KillMark
<1>23. ASSUME KillStdin PROVE GoneOK'
  BY <1>23 DEF KillStdin
<1>24. ASSUME KillEnds PROVE GoneOK'
  BY <1>24 DEF KillEnds, ProcessGone
<1>25. ASSUME Enter PROVE GoneOK'
  BY <1>25 DEF Enter
<1>26. ASSUME PrintSentinel PROVE GoneOK'
  BY <1>26 DEF PrintSentinel
<1>27. ASSUME Finish PROVE GoneOK'
  BY <1>27 DEF Finish
<1>28. ASSUME Interrupted PROVE GoneOK'
  BY <1>28 DEF Interrupted
<1>29. ASSUME ProcessExits PROVE GoneOK'
  BY <1>29 DEF ProcessExits, ProcessGone
<1>30. ASSUME UNCHANGED vars PROVE GoneOK'
  BY <1>30 DEF vars
<1>31. QED
  BY <1>1, <1>2, <1>3, <1>4, <1>5, <1>6, <1>7, <1>8, <1>9, <1>10, <1>11, <1>12, <1>13, <1>14, <1>15, <1>16,
     <1>17, <1>18, <1>19, <1>20, <1>21, <1>22, <1>23, <1>24, <1>25, <1>26, <1>27, <1>28, <1>29, <1>30
  DEF Next, Execute, Interrupter, Watcher, KillStep, Runtime

\* The interpreter takes code up when it is written, and lets go of it when it has printed the
\* sentinel or is gone (session.go:361-461).
LEMMA IdleStep == TypeOK /\ IdleOK /\ [Next]_vars => IdleOK'
<1> SUFFICES ASSUME TypeOK, IdleOK, [Next]_vars PROVE IdleOK'
  OBVIOUS
<1> USE SessionAssumption DEF TypeOK, Goto, Interrupters, sharedVars, interpreterVars, callerVars,
    interruptVars, IdleOK
<1>1. ASSUME NEW c \in Callers, Call(c) PROVE IdleOK'
  BY <1>1 DEF Call
<1>2. ASSUME NEW c \in Callers, Acquire(c) PROVE IdleOK'
  BY <1>2 DEF Acquire
<1>3. ASSUME NEW c \in Callers, GiveUp(c) PROVE IdleOK'
  BY <1>3 DEF GiveUp, Ends
<1>4. ASSUME NEW c \in Callers, Check(c) PROVE IdleOK'
  BY <1>4 DEF Check, Ends
<1>5. ASSUME NEW c \in Callers, Mark(c) PROVE IdleOK'
  BY <1>5 DEF Mark
<1>6. ASSUME NEW c \in Callers, Write(c) PROVE IdleOK'
  BY <1>6 DEF Write, Ends
<1>7. ASSUME NEW c \in Callers, Scan(c) PROVE IdleOK'
  BY <1>7 DEF Scan, Ends
<1>8. ASSUME NEW c \in Callers, Status(c) PROVE IdleOK'
  BY <1>8 DEF Status, Ends
<1>9. ASSUME NEW c \in Callers, Unbusy(c) PROVE IdleOK'
  BY <1>9 DEF Unbusy
<1>10. ASSUME NEW c \in Callers, Notify(c) PROVE IdleOK'
  BY <1>10 DEF Notify
<1>11. ASSUME NEW c \in Callers, Release(c) PROVE IdleOK'
  BY <1>11 DEF Release
<1>12. ASSUME NEW c \in Callers, Cleanup(c) PROVE IdleOK'
  BY <1>12 DEF Cleanup, Cancel
<1>13. ASSUME NEW c \in Callers, Disconnect(c) PROVE IdleOK'
  BY <1>13 DEF Disconnect, Cancel
<1>14. ASSUME NEW c \in Callers, Watch(c) PROVE IdleOK'
  BY <1>14 DEF Watch
<1>15. ASSUME NEW e \in Externals, Request(e) PROVE IdleOK'
  BY <1>15 DEF Request
<1>16. ASSUME NEW i \in Interrupters, Test(i) PROVE IdleOK'
  BY <1>16 DEF Test
<1>17. ASSUME NEW i \in Interrupters, Signal(i) PROVE IdleOK'
  BY <1>17 DEF Signal, Send
<1>18. ASSUME NEW i \in Interrupters, Poll(i) PROVE IdleOK'
  BY <1>18 DEF Poll, Leave
<1>19. ASSUME NEW i \in Interrupters, Deadline(i) PROVE IdleOK'
  BY <1>19 DEF Deadline, ProcessGone
<1>20. ASSUME NEW i \in Interrupters, Reaped(i) PROVE IdleOK'
  BY <1>20 DEF Reaped, Leave
<1>21. ASSUME NEW i \in Interrupters, Resend(i) PROVE IdleOK'
  BY <1>21 DEF Resend, Send
<1>22. ASSUME KillMark PROVE IdleOK'
  BY <1>22 DEF KillMark
<1>23. ASSUME KillStdin PROVE IdleOK'
  BY <1>23 DEF KillStdin
<1>24. ASSUME KillEnds PROVE IdleOK'
  BY <1>24 DEF KillEnds, ProcessGone
<1>25. ASSUME Enter PROVE IdleOK'
  BY <1>25 DEF Enter
<1>26. ASSUME PrintSentinel PROVE IdleOK'
  BY <1>26 DEF PrintSentinel
<1>27. ASSUME Finish PROVE IdleOK'
  BY <1>27 DEF Finish
<1>28. ASSUME Interrupted PROVE IdleOK'
  BY <1>28 DEF Interrupted
<1>29. ASSUME ProcessExits PROVE IdleOK'
  BY <1>29 DEF ProcessExits, ProcessGone
<1>30. ASSUME UNCHANGED vars PROVE IdleOK'
  BY <1>30 DEF vars
<1>31. QED
  BY <1>1, <1>2, <1>3, <1>4, <1>5, <1>6, <1>7, <1>8, <1>9, <1>10, <1>11, <1>12, <1>13, <1>14, <1>15, <1>16,
     <1>17, <1>18, <1>19, <1>20, <1>21, <1>22, <1>23, <1>24, <1>25, <1>26, <1>27, <1>28, <1>29, <1>30
  DEF Next, Execute, Interrupter, Watcher, KillStep, Runtime

\* A watcher is spawned by a caller that has been let in, not by one that waits or gave up
\* (session.go:494-513).
LEMMA QueueStep == TypeOK /\ QueueOK /\ [Next]_vars => QueueOK'
<1> SUFFICES ASSUME TypeOK, QueueOK, [Next]_vars PROVE QueueOK'
  OBVIOUS
<1> USE SessionAssumption DEF TypeOK, Goto, Interrupters, sharedVars, interpreterVars, callerVars,
    interruptVars, QueueOK
<1>1. ASSUME NEW c \in Callers, Call(c) PROVE QueueOK'
  BY <1>1 DEF Call
<1>2. ASSUME NEW c \in Callers, Acquire(c) PROVE QueueOK'
  BY <1>2 DEF Acquire
<1>3. ASSUME NEW c \in Callers, GiveUp(c) PROVE QueueOK'
  BY <1>3 DEF GiveUp, Ends
<1>4. ASSUME NEW c \in Callers, Check(c) PROVE QueueOK'
  BY <1>4 DEF Check, Ends
<1>5. ASSUME NEW c \in Callers, Mark(c) PROVE QueueOK'
  BY <1>5 DEF Mark
<1>6. ASSUME NEW c \in Callers, Write(c) PROVE QueueOK'
  BY <1>6 DEF Write, Ends
<1>7. ASSUME NEW c \in Callers, Scan(c) PROVE QueueOK'
  BY <1>7 DEF Scan, Ends
<1>8. ASSUME NEW c \in Callers, Status(c) PROVE QueueOK'
  BY <1>8 DEF Status, Ends
<1>9. ASSUME NEW c \in Callers, Unbusy(c) PROVE QueueOK'
  BY <1>9 DEF Unbusy
<1>10. ASSUME NEW c \in Callers, Notify(c) PROVE QueueOK'
  BY <1>10 DEF Notify
<1>11. ASSUME NEW c \in Callers, Release(c) PROVE QueueOK'
  BY <1>11 DEF Release
<1>12. ASSUME NEW c \in Callers, Cleanup(c) PROVE QueueOK'
  BY <1>12 DEF Cleanup, Cancel
<1>13. ASSUME NEW c \in Callers, Disconnect(c) PROVE QueueOK'
  BY <1>13 DEF Disconnect, Cancel
<1>14. ASSUME NEW c \in Callers, Watch(c) PROVE QueueOK'
  BY <1>14 DEF Watch
<1>15. ASSUME NEW e \in Externals, Request(e) PROVE QueueOK'
  BY <1>15 DEF Request
<1>16. ASSUME NEW i \in Interrupters, Test(i) PROVE QueueOK'
  BY <1>16 DEF Test
<1>17. ASSUME NEW i \in Interrupters, Signal(i) PROVE QueueOK'
  BY <1>17 DEF Signal, Send
<1>18. ASSUME NEW i \in Interrupters, Poll(i) PROVE QueueOK'
  BY <1>18 DEF Poll, Leave
<1>19. ASSUME NEW i \in Interrupters, Deadline(i) PROVE QueueOK'
  BY <1>19 DEF Deadline, ProcessGone
<1>20. ASSUME NEW i \in Interrupters, Reaped(i) PROVE QueueOK'
  BY <1>20 DEF Reaped, Leave
<1>21. ASSUME NEW i \in Interrupters, Resend(i) PROVE QueueOK'
  BY <1>21 DEF Resend, Send
<1>22. ASSUME KillMark PROVE QueueOK'
  BY <1>22 DEF KillMark
<1>23. ASSUME KillStdin PROVE QueueOK'
  BY <1>23 DEF KillStdin
<1>24. ASSUME KillEnds PROVE QueueOK'
  BY <1>24 DEF KillEnds, ProcessGone
<1>25. ASSUME Enter PROVE QueueOK'
  BY <1>25 DEF Enter
<1>26. ASSUME PrintSentinel PROVE QueueOK'
  BY <1>26 DEF PrintSentinel
<1>27. ASSUME Finish PROVE QueueOK'
  BY <1>27 DEF Finish
<1>28. ASSUME Interrupted PROVE QueueOK'
  BY <1>28 DEF Interrupted
<1>29. ASSUME ProcessExits PROVE QueueOK'
  BY <1>29 DEF ProcessExits, ProcessGone
<1>30. ASSUME UNCHANGED vars PROVE QueueOK'
  BY <1>30 DEF vars
<1>31. QED
  BY <1>1, <1>2, <1>3, <1>4, <1>5, <1>6, <1>7, <1>8, <1>9, <1>10, <1>11, <1>12, <1>13, <1>14, <1>15, <1>16,
     <1>17, <1>18, <1>19, <1>20, <1>21, <1>22, <1>23, <1>24, <1>25, <1>26, <1>27, <1>28, <1>29, <1>30
  DEF Next, Execute, Interrupter, Watcher, KillStep, Runtime

\* The semaphore keeps callers apart, and the busy mark is set and cleared by its holder.
LEMMA SerialStep == TypeOK /\ LockOK /\ Serialised /\ [Next]_vars => Serialised'
<1> SUFFICES ASSUME TypeOK, LockOK, Serialised, [Next]_vars PROVE Serialised'
  OBVIOUS
<1> USE SessionAssumption DEF TypeOK, Goto, Interrupters, sharedVars, interpreterVars, callerVars,
    interruptVars, LockOK, Serialised, Inside
<1>1. ASSUME NEW c \in Callers, Call(c) PROVE Serialised'
  BY <1>1 DEF Call
<1>2. ASSUME NEW c \in Callers, Acquire(c) PROVE Serialised'
  BY <1>2 DEF Acquire
<1>3. ASSUME NEW c \in Callers, GiveUp(c) PROVE Serialised'
  BY <1>3 DEF GiveUp, Ends
<1>4. ASSUME NEW c \in Callers, Check(c) PROVE Serialised'
  BY <1>4 DEF Check, Ends
<1>5. ASSUME NEW c \in Callers, Mark(c) PROVE Serialised'
  BY <1>5 DEF Mark
<1>6. ASSUME NEW c \in Callers, Write(c) PROVE Serialised'
  BY <1>6 DEF Write, Ends
<1>7. ASSUME NEW c \in Callers, Scan(c) PROVE Serialised'
  BY <1>7 DEF Scan, Ends
<1>8. ASSUME NEW c \in Callers, Status(c) PROVE Serialised'
  BY <1>8 DEF Status, Ends
<1>9. ASSUME NEW c \in Callers, Unbusy(c) PROVE Serialised'
  BY <1>9 DEF Unbusy
<1>10. ASSUME NEW c \in Callers, Notify(c) PROVE Serialised'
  BY <1>10 DEF Notify
<1>11. ASSUME NEW c \in Callers, Release(c) PROVE Serialised'
  BY <1>11 DEF Release
<1>12. ASSUME NEW c \in Callers, Cleanup(c) PROVE Serialised'
  BY <1>12 DEF Cleanup, Cancel
<1>13. ASSUME NEW c \in Callers, Disconnect(c) PROVE Serialised'
  BY <1>13 DEF Disconnect, Cancel
<1>14. ASSUME NEW c \in Callers, Watch(c) PROVE Serialised'
  BY <1>14 DEF Watch
<1>15. ASSUME NEW e \in Externals, Request(e) PROVE Serialised'
  BY <1>15 DEF Request
<1>16. ASSUME NEW i \in Interrupters, Test(i) PROVE Serialised'
  BY <1>16 DEF Test
<1>17. ASSUME NEW i \in Interrupters, Signal(i) PROVE Serialised'
  BY <1>17 DEF Signal, Send
<1>18. ASSUME NEW i \in Interrupters, Poll(i) PROVE Serialised'
  BY <1>18 DEF Poll, Leave
<1>19. ASSUME NEW i \in Interrupters, Deadline(i) PROVE Serialised'
  BY <1>19 DEF Deadline, ProcessGone
<1>20. ASSUME NEW i \in Interrupters, Reaped(i) PROVE Serialised'
  BY <1>20 DEF Reaped, Leave
<1>21. ASSUME NEW i \in Interrupters, Resend(i) PROVE Serialised'
  BY <1>21 DEF Resend, Send
<1>22. ASSUME KillMark PROVE Serialised'
  BY <1>22 DEF KillMark
<1>23. ASSUME KillStdin PROVE Serialised'
  BY <1>23 DEF KillStdin
<1>24. ASSUME KillEnds PROVE Serialised'
  BY <1>24 DEF KillEnds, ProcessGone
<1>25. ASSUME Enter PROVE Serialised'
  BY <1>25 DEF Enter
<1>26. ASSUME PrintSentinel PROVE Serialised'
  BY <1>26 DEF PrintSentinel
<1>27. ASSUME Finish PROVE Serialised'
  BY <1>27 DEF Finish
<1>28. ASSUME Interrupted PROVE Serialised'
  BY <1>28 DEF Interrupted
<1>29. ASSUME ProcessExits PROVE Serialised'
  BY <1>29 DEF ProcessExits, ProcessGone
<1>30. ASSUME UNCHANGED vars PROVE Serialised'
  BY <1>30 DEF vars
<1>31. QED
  BY <1>1, <1>2, <1>3, <1>4, <1>5, <1>6, <1>7, <1>8, <1>9, <1>10, <1>11, <1>12, <1>13, <1>14, <1>15, <1>16,
     <1>17, <1>18, <1>19, <1>20, <1>21, <1>22, <1>23, <1>24, <1>25, <1>26, <1>27, <1>28, <1>29, <1>30
  DEF Next, Execute, Interrupter, Watcher, KillStep, Runtime

\* A caller writes code only when the interpreter has nothing to do and no sentinel is left,
\* and leaves the scan only with the sentinel or at the end of the output.
LEMMA CodeStep == TypeOK /\ LockOK /\ GoneOK /\ NoCodeOutlivesItsCall /\ [Next]_vars => NoCodeOutlivesItsCall'
<1> SUFFICES ASSUME TypeOK, LockOK, GoneOK, NoCodeOutlivesItsCall, [Next]_vars PROVE NoCodeOutlivesItsCall'
  OBVIOUS
<1> USE SessionAssumption DEF TypeOK, Goto, Interrupters, sharedVars, interpreterVars, callerVars,
    interruptVars,
    LockOK, GoneOK, NoCodeOutlivesItsCall, Inside
<1>1. ASSUME NEW c \in Callers, Call(c) PROVE NoCodeOutlivesItsCall'
  BY <1>1 DEF Call
<1>2. ASSUME NEW c \in Callers, Acquire(c) PROVE NoCodeOutlivesItsCall'
  BY <1>2 DEF Acquire
<1>3. ASSUME NEW c \in Callers, GiveUp(c) PROVE NoCodeOutlivesItsCall'
  BY <1>3 DEF GiveUp, Ends
<1>4. ASSUME NEW c \in Callers, Check(c) PROVE NoCodeOutlivesItsCall'
  BY <1>4 DEF Check, Ends
<1>5. ASSUME NEW c \in Callers, Mark(c) PROVE NoCodeOutlivesItsCall'
  BY <1>5 DEF Mark
<1>6. ASSUME NEW c \in Callers, Write(c) PROVE NoCodeOutlivesItsCall'
  BY <1>6 DEF Write, Ends
<1>7. ASSUME NEW c \in Callers, Scan(c) PROVE NoCodeOutlivesItsCall'
  BY <1>7 DEF Scan, Ends
<1>8. ASSUME NEW c \in Callers, Status(c) PROVE NoCodeOutlivesItsCall'
  BY <1>8 DEF Status, Ends
<1>9. ASSUME NEW c \in Callers, Unbusy(c) PROVE NoCodeOutlivesItsCall'
  BY <1>9 DEF Unbusy
<1>10. ASSUME NEW c \in Callers, Notify(c) PROVE NoCodeOutlivesItsCall'
  BY <1>10 DEF Notify
<1>11. ASSUME NEW c \in Callers, Release(c) PROVE NoCodeOutlivesItsCall'
  BY <1>11 DEF Release
<1>12. ASSUME NEW c \in Callers, Cleanup(c) PROVE NoCodeOutlivesItsCall'
  BY <1>12 DEF Cleanup, Cancel
<1>13. ASSUME NEW c \in Callers, Disconnect(c) PROVE NoCodeOutlivesItsCall'
  BY <1>13 DEF Disconnect, Cancel
<1>14. ASSUME NEW c \in Callers, Watch(c) PROVE NoCodeOutlivesItsCall'
  BY <1>14 DEF Watch
<1>15. ASSUME NEW e \in Externals, Request(e) PROVE NoCodeOutlivesItsCall'
  BY <1>15 DEF Request
<1>16. ASSUME NEW i \in Interrupters, Test(i) PROVE NoCodeOutlivesItsCall'
  BY <1>16 DEF Test
<1>17. ASSUME NEW i \in Interrupters, Signal(i) PROVE NoCodeOutlivesItsCall'
  BY <1>17 DEF Signal, Send
<1>18. ASSUME NEW i \in Interrupters, Poll(i) PROVE NoCodeOutlivesItsCall'
  BY <1>18 DEF Poll, Leave
<1>19. ASSUME NEW i \in Interrupters, Deadline(i) PROVE NoCodeOutlivesItsCall'
  BY <1>19 DEF Deadline, ProcessGone
<1>20. ASSUME NEW i \in Interrupters, Reaped(i) PROVE NoCodeOutlivesItsCall'
  BY <1>20 DEF Reaped, Leave
<1>21. ASSUME NEW i \in Interrupters, Resend(i) PROVE NoCodeOutlivesItsCall'
  BY <1>21 DEF Resend, Send
<1>22. ASSUME KillMark PROVE NoCodeOutlivesItsCall'
  BY <1>22 DEF KillMark
<1>23. ASSUME KillStdin PROVE NoCodeOutlivesItsCall'
  BY <1>23 DEF KillStdin
<1>24. ASSUME KillEnds PROVE NoCodeOutlivesItsCall'
  BY <1>24 DEF KillEnds, ProcessGone
<1>25. ASSUME Enter PROVE NoCodeOutlivesItsCall'
  BY <1>25 DEF Enter
<1>26. ASSUME PrintSentinel PROVE NoCodeOutlivesItsCall'
  BY <1>26 DEF PrintSentinel
<1>27. ASSUME Finish PROVE NoCodeOutlivesItsCall'
  BY <1>27 DEF Finish
<1>28. ASSUME Interrupted PROVE NoCodeOutlivesItsCall'
  BY <1>28 DEF Interrupted
<1>29. ASSUME ProcessExits PROVE NoCodeOutlivesItsCall'
  BY <1>29 DEF ProcessExits, ProcessGone
<1>30. ASSUME UNCHANGED vars PROVE NoCodeOutlivesItsCall'
  BY <1>30 DEF vars
<1>31. QED
  BY <1>1, <1>2, <1>3, <1>4, <1>5, <1>6, <1>7, <1>8, <1>9, <1>10, <1>11, <1>12, <1>13, <1>14, <1>15, <1>16,
     <1>17, <1>18, <1>19, <1>20, <1>21, <1>22, <1>23, <1>24, <1>25, <1>26, <1>27, <1>28, <1>29, <1>30
  DEF Next, Execute, Interrupter, Watcher, KillStep, Runtime

\* The session starts idle, with nobody inside and nothing to be read.
LEMMA InitInvariant == Init => IInv
<1> USE SessionAssumption DEF Init
<1>1. ASSUME Init PROVE TypeOK
  <2>1. {dead, stdin, sentinel, signal} \subseteq BOOLEAN
    BY <1>1, Zenon
  <2>2. polls \in [Interrupters -> 0 .. Grace]
    BY <1>1
  <2>3. /\ busy \in Callers \cup {None} /\ sem \in Callers \cup {None}
        /\ code \in Callers \cup {None} /\ left \in SUBSET Callers
        /\ aim \in [Interrupters -> Callers \cup {None}]
    BY <1>1
  <2>4. /\ proc \in {"up", "gone"} /\ stage \in {"idle", "read", "run", "wrote"}
        /\ status \in {"none", "ok", "error"} /\ killer \in {"off", "stdin", "grace", "over"}
    BY <1>1
  <2>5. QED BY <1>1, <2>1, <2>2, <2>3, <2>4 DEF TypeOK
<1>2. Init => LockOK /\ GoneOK /\ IdleOK
  BY DEF LockOK, GoneOK, IdleOK, Inside
<1>3. Init => QueueOK
  BY DEF QueueOK, Interrupters
<1>4. Init => Serialised /\ NoCodeOutlivesItsCall
  BY DEF Serialised, NoCodeOutlivesItsCall, Inside
<1>5. QED BY <1>1, <1>2, <1>3, <1>4 DEF IInv

\* The invariant is inductive.
LEMMA StepInvariant == IInv /\ [Next]_vars => IInv'
BY TypeStep, LockStep, GoneStep, IdleStep, QueueStep, SerialStep, CodeStep DEF IInv

\* IInv holds in every reachable state of a session.
THEOREM Invariance == Spec => []IInv
BY InitInvariant, StepInvariant, PTL DEF Spec

\* The type invariant.
THEOREM TypeCorrect == Spec => []TypeOK
<1>1. IInv => TypeOK
  BY DEF IInv
<1>2. QED BY <1>1, Invariance, PTL

\* One caller at a time is inside execute, and the busy mark is its own (session.go:493-530).
THEOREM EvalsAreSerialised == Spec => []Serialised
<1>1. IInv => Serialised
  BY DEF IInv
<1>2. QED BY <1>1, Invariance, PTL

\* The interpreter never works on code, and never leaves a sentinel, for a caller that is not
\* there to read it (session.go:409-461).
THEOREM CodeEndsWithItsCall == Spec => []NoCodeOutlivesItsCall
<1>1. IInv => NoCodeOutlivesItsCall
  BY DEF IInv
<1>2. QED BY <1>1, Invariance, PTL

\* A client that leaves while it is queued sends no interrupt (session.go:494-513).
THEOREM QueuedDisconnectsAreHarmless == Spec => []QueuedDisconnectHarmless
<1>1. IInv => QueuedDisconnectHarmless
  BY DEF IInv, QueueOK, QueuedDisconnectHarmless
<1>2. QED BY <1>1, Invariance, PTL

\* The semaphore is never left behind: who waits for it waits for a caller that is inside
\* execute, so that the end of that call lets him in (session.go:494-499).
THEOREM TurnsArePassedOn == Spec => []TurnIsUsed
<1>1. Init => TurnIsUsed BY DEF Init, TurnIsUsed
<1>2. IInv /\ TurnIsUsed /\ [Next]_vars => TurnIsUsed' BY TurnStep DEF IInv
<1>3. QED BY <1>1, <1>2, Invariance, PTL DEF Spec

-----------------------------------------------------------------------------
(***************************************************************************)
(* A session is a serial evaluator.                                        *)
(***************************************************************************)

\* The phase of each label.
LEMMA Phases ==
    /\ PhaseAt("idle") = "new" /\ PhaseAt("acquire") = "queued"
    /\ PhaseAt("check") = "turn" /\ PhaseAt("mark") = "turn" /\ PhaseAt("write") = "turn"
    /\ PhaseAt("scan") = "given" /\ PhaseAt("status") = "given"
    /\ PhaseAt("unbusy") = "over" /\ PhaseAt("notify") = "over" /\ PhaseAt("release") = "over"
    /\ PhaseAt("cleanup") = "over" /\ PhaseAt("done") = "over"
BY DEF PhaseAt

\* A call that goes to another label has its phase; the others keep theirs.
LEMMA PhaseMoves ==
    ASSUME TypeOK, NEW c \in Callers, NEW l, Goto(c, l)
    PROVE  phases[c] = PhaseAt(pc[c]) /\ phases' = [phases EXCEPT ![c] = PhaseAt(l)]
<1>1. pc' = [d \in Callers |-> IF d = c THEN l ELSE pc[d]]
  BY DEF TypeOK, Goto
<1>2. phases' = [d \in Callers |-> PhaseAt(pc'[d])]
  BY DEF phases
<1>3. phases' = [d \in Callers |-> IF d = c THEN PhaseAt(l) ELSE PhaseAt(pc[d])]
  BY <1>1, <1>2
<1>4. QED BY <1>3 DEF phases

\* A call that stays within a phase is not seen to move.
LEMMA PhaseStays ==
    ASSUME TypeOK, NEW c \in Callers, NEW l, Goto(c, l), PhaseAt(l) = PhaseAt(pc[c])
    PROVE  phases' = phases
<1>1. phases[c] = PhaseAt(l) /\ phases' = [phases EXCEPT ![c] = PhaseAt(l)]
  BY PhaseMoves
<1>2. QED BY <1>1 DEF phases

\* While a caller that is not scanning holds the session, the interpreter has nothing to do.
LEMMA LettingGo ==
    ASSUME IInv, NEW c \in Callers, pc[c] \in Inside \ {"scan"}
    PROVE  code = None
<1>1. ASSUME stage # "idle" PROVE FALSE
  <2>1. code \in Callers /\ pc[code] = "scan"
    BY <1>1 DEF IInv, NoCodeOutlivesItsCall, TypeOK
  <2>2. code = c
    BY <2>1 DEF IInv, Serialised, Inside
  <2>3. QED BY <2>1, <2>2
<1>2. QED BY <1>1 DEF IInv, IdleOK

\* Letting go of the code is a step of the evaluator, if there is any.
LEMMA StopOrStay ==
    ASSUME code' = None, UNCHANGED <<pc, sem, result>>
    PROVE  [Evaluator!EvaluatorNext]_<<phases, sem, code, result>>
<1>1. phases' = phases
  BY DEF phases
<1>2. CASE code = None
  BY <1>1, <1>2
<1>3. CASE code # None
  <2>1. Evaluator!Stop
    BY <1>1, <1>3 DEF Evaluator!Stop
  <2>2. QED BY <2>1 DEF Evaluator!EvaluatorNext
<1>4. QED BY <1>2, <1>3

\* Every step of a session is a step of the evaluator or is not seen by it: one step per
\* action, and the invariant where the interpreter must have nothing to do.
LEMMA EvaluatorStep == IInv /\ [Next]_vars => [Evaluator!EvaluatorNext]_<<phases, sem, code, result>>
<1> SUFFICES ASSUME IInv, [Next]_vars PROVE [Evaluator!EvaluatorNext]_<<phases, sem, code, result>>
  OBVIOUS
<1> TypeOK
  BY DEF IInv
<1> USE SessionAssumption DEF sharedVars, interpreterVars, callerVars, interruptVars
<1>1. ASSUME NEW c \in Callers, Call(c) PROVE [Evaluator!EvaluatorNext]_<<phases, sem, code, result>>
  <2>1. Goto(c, "acquire") /\ pc[c] = "idle" /\ UNCHANGED <<sem, code, result>>
    BY <1>1 DEF Call
  <2>2. Evaluator!Ask(c)
    BY <2>1, PhaseMoves, Phases DEF Evaluator!Ask, Evaluator!Becomes
  <2>3. QED BY <2>2 DEF Evaluator!EvaluatorNext
<1>2. ASSUME NEW c \in Callers, Acquire(c) PROVE [Evaluator!EvaluatorNext]_<<phases, sem, code, result>>
  <2>1. Goto(c, "check") /\ pc[c] = "acquire" /\ sem = None /\ sem' = c /\ UNCHANGED <<code, result>>
    BY <1>2 DEF Acquire
  <2>2. Evaluator!TakeTurn(c)
    BY <2>1, PhaseMoves, Phases DEF Evaluator!TakeTurn, Evaluator!Becomes
  <2>3. QED BY <2>2 DEF Evaluator!EvaluatorNext
<1>3. ASSUME NEW c \in Callers, GiveUp(c) PROVE [Evaluator!EvaluatorNext]_<<phases, sem, code, result>>
  <2>1. Goto(c, "cleanup") /\ pc[c] = "acquire" /\ UNCHANGED <<sem, code>>
        /\ result' = [result EXCEPT ![c] = "cancelled"]
    BY <1>3 DEF GiveUp, Ends
  <2>2. Evaluator!Withdraw(c)
    BY <2>1, PhaseMoves, Phases DEF Evaluator!Withdraw, Evaluator!Becomes, Evaluator!Told
  <2>3. QED BY <2>2 DEF Evaluator!EvaluatorNext
<1>4. ASSUME NEW c \in Callers, Check(c) PROVE [Evaluator!EvaluatorNext]_<<phases, sem, code, result>>
  <2> pc[c] = "check" /\ UNCHANGED <<sem, code>>
    BY <1>4 DEF Check
  <2>1. CASE Ends(c, "died", "release")
    <3>1. Evaluator!Refuse(c)
      BY <2>1, PhaseMoves, Phases DEF Ends, Evaluator!Refuse, Evaluator!Becomes, Evaluator!Told
    <3>2. QED BY <3>1 DEF Evaluator!EvaluatorNext
  <2>2. CASE Goto(c, "mark") /\ UNCHANGED result
    BY <2>2, PhaseStays, Phases
  <2>3. QED BY <1>4, <2>1, <2>2 DEF Check
<1>5. ASSUME NEW c \in Callers, Mark(c) PROVE [Evaluator!EvaluatorNext]_<<phases, sem, code, result>>
  <2>1. Goto(c, "write") /\ pc[c] = "mark" /\ UNCHANGED <<sem, code, result>>
    BY <1>5 DEF Mark
  <2>2. QED BY <2>1, PhaseStays, Phases
<1>6. ASSUME NEW c \in Callers, Write(c) PROVE [Evaluator!EvaluatorNext]_<<phases, sem, code, result>>
  <2> pc[c] = "write" /\ UNCHANGED sem
    BY <1>6 DEF Write
  <2>1. CASE code' = c /\ Goto(c, "scan") /\ UNCHANGED result
    <3>1. code = None
      BY LettingGo DEF Inside
    <3>2. Evaluator!Give(c)
      BY <2>1, <3>1, PhaseMoves, Phases DEF Evaluator!Give, Evaluator!Becomes
    <3>3. QED BY <3>2 DEF Evaluator!EvaluatorNext
  <2>2. CASE Ends(c, "ioerror", "unbusy") /\ UNCHANGED code
    <3>1. Evaluator!Refuse(c)
      BY <2>2, PhaseMoves, Phases DEF Ends, Evaluator!Refuse, Evaluator!Becomes, Evaluator!Told
    <3>2. QED BY <3>1 DEF Evaluator!EvaluatorNext
  <2>3. QED BY <1>6, <2>1, <2>2 DEF Write
<1>7. ASSUME NEW c \in Callers, Scan(c) PROVE [Evaluator!EvaluatorNext]_<<phases, sem, code, result>>
  <2> pc[c] = "scan" /\ UNCHANGED <<sem, code>>
    BY <1>7 DEF Scan
  <2>1. CASE Goto(c, "status") /\ UNCHANGED result
    BY <2>1, PhaseStays, Phases
  <2>2. CASE proc = "gone" /\ Ends(c, "died", "unbusy")
    <3>1. code = None
      BY <2>2 DEF IInv, GoneOK, IdleOK
    <3>2. Evaluator!Answer(c)
      BY <2>2, <3>1, PhaseMoves, Phases DEF Ends, Evaluator!Answer, Evaluator!Becomes, Evaluator!Told
    <3>3. QED BY <3>2 DEF Evaluator!EvaluatorNext
  <2>3. QED BY <1>7, <2>1, <2>2 DEF Scan
<1>8. ASSUME NEW c \in Callers, Status(c) PROVE [Evaluator!EvaluatorNext]_<<phases, sem, code, result>>
  <2>1. Goto(c, "unbusy") /\ pc[c] = "status" /\ UNCHANGED <<sem, code>>
    BY <1>8 DEF Status, Ends
  <2>2. \E a \in {"ok", "error", "aborted"} : result' = [result EXCEPT ![c] = a]
    BY <1>8 DEF Status, Ends, IInv, TypeOK
  <2>3. code = None
    BY <2>1, LettingGo DEF Inside
  <2>4. Evaluator!Told(c, {"ok", "error", "aborted", "died"})
    <3>1. PICK a \in {"ok", "error", "aborted"} : result' = [result EXCEPT ![c] = a]
      BY <2>2
    <3>2. a \in {"ok", "error", "aborted", "died"}
      OBVIOUS
    <3>3. QED BY <3>1, <3>2, Zenon DEF Evaluator!Told
  <2>5. Evaluator!Answer(c)
    BY <2>1, <2>3, <2>4, PhaseMoves, Phases DEF Evaluator!Answer, Evaluator!Becomes
  <2>6. QED BY <2>5 DEF Evaluator!EvaluatorNext
<1>9. ASSUME NEW c \in Callers, Unbusy(c) PROVE [Evaluator!EvaluatorNext]_<<phases, sem, code, result>>
  <2>1. Goto(c, "notify") /\ pc[c] = "unbusy" /\ UNCHANGED <<sem, code, result>>
    BY <1>9 DEF Unbusy, interpreterVars
  <2>2. QED BY <2>1, PhaseStays, Phases
<1>10. ASSUME NEW c \in Callers, Notify(c) PROVE [Evaluator!EvaluatorNext]_<<phases, sem, code, result>>
  <2>1. Goto(c, "release") /\ pc[c] = "notify" /\ UNCHANGED <<sem, code, result>>
    BY <1>10 DEF Notify
  <2>2. QED BY <2>1, PhaseStays, Phases
<1>11. ASSUME NEW c \in Callers, Release(c) PROVE [Evaluator!EvaluatorNext]_<<phases, sem, code, result>>
  <2>1. Goto(c, "cleanup") /\ pc[c] = "release" /\ sem' = None /\ UNCHANGED <<code, result>>
    BY <1>11 DEF Release
  <2>2. sem = c
    BY <2>1 DEF IInv, LockOK, Inside
  <2>3. phases' = phases /\ phases[c] = "over"
    BY <2>1, PhaseStays, PhaseMoves, Phases
  <2>4. Evaluator!Yield(c)
    BY <2>1, <2>2, <2>3 DEF Evaluator!Yield
  <2>5. QED BY <2>4 DEF Evaluator!EvaluatorNext
<1>12. ASSUME NEW c \in Callers, Cleanup(c) PROVE [Evaluator!EvaluatorNext]_<<phases, sem, code, result>>
  <2>1. Goto(c, "done") /\ pc[c] = "cleanup" /\ UNCHANGED <<sem, code, result>>
    BY <1>12 DEF Cleanup
  <2>2. QED BY <2>1, PhaseStays, Phases
<1>13. ASSUME NEW c \in Callers, Disconnect(c) PROVE [Evaluator!EvaluatorNext]_<<phases, sem, code, result>>
  BY <1>13 DEF Disconnect, phases
<1>14. ASSUME NEW c \in Callers, Watch(c) PROVE [Evaluator!EvaluatorNext]_<<phases, sem, code, result>>
  BY <1>14 DEF Watch, phases
<1>15. ASSUME NEW e \in Externals, Request(e) PROVE [Evaluator!EvaluatorNext]_<<phases, sem, code, result>>
  BY <1>15 DEF Request, phases
<1>16. ASSUME NEW i \in Interrupters, Test(i) PROVE [Evaluator!EvaluatorNext]_<<phases, sem, code, result>>
  BY <1>16 DEF Test, phases
<1>17. ASSUME NEW i \in Interrupters, Signal(i) PROVE [Evaluator!EvaluatorNext]_<<phases, sem, code, result>>
  BY <1>17 DEF Signal, phases
<1>18. ASSUME NEW i \in Interrupters, Poll(i) PROVE [Evaluator!EvaluatorNext]_<<phases, sem, code, result>>
  BY <1>18 DEF Poll, phases
<1>19. ASSUME NEW i \in Interrupters, Deadline(i) PROVE [Evaluator!EvaluatorNext]_<<phases, sem, code, result>>
  <2>1. code' = None /\ UNCHANGED <<pc, sem, result>>
    BY <1>19 DEF Deadline, ProcessGone
  <2>2. QED BY <2>1, StopOrStay
<1>20. ASSUME NEW i \in Interrupters, Reaped(i) PROVE [Evaluator!EvaluatorNext]_<<phases, sem, code, result>>
  BY <1>20 DEF Reaped, phases
<1>21. ASSUME NEW i \in Interrupters, Resend(i) PROVE [Evaluator!EvaluatorNext]_<<phases, sem, code, result>>
  BY <1>21 DEF Resend, phases
<1>22. ASSUME KillMark PROVE [Evaluator!EvaluatorNext]_<<phases, sem, code, result>>
  BY <1>22 DEF KillMark, phases
<1>23. ASSUME KillStdin PROVE [Evaluator!EvaluatorNext]_<<phases, sem, code, result>>
  BY <1>23 DEF KillStdin, phases
<1>24. ASSUME KillEnds PROVE [Evaluator!EvaluatorNext]_<<phases, sem, code, result>>
  <2>1. UNCHANGED <<pc, sem, result>> /\ (code' = None \/ code' = code)
    BY <1>24 DEF KillEnds, ProcessGone
  <2>2. CASE code' = code
    BY <2>1, <2>2 DEF phases
  <2>3. QED BY <2>1, <2>2, StopOrStay
<1>25. ASSUME Enter PROVE [Evaluator!EvaluatorNext]_<<phases, sem, code, result>>
  BY <1>25 DEF Enter, phases
<1>26. ASSUME PrintSentinel PROVE [Evaluator!EvaluatorNext]_<<phases, sem, code, result>>
  <2>1. code' = None /\ UNCHANGED <<pc, sem, result>>
    BY <1>26 DEF PrintSentinel
  <2>2. QED BY <2>1, StopOrStay
<1>27. ASSUME Finish PROVE [Evaluator!EvaluatorNext]_<<phases, sem, code, result>>
  BY <1>27 DEF Finish, phases
<1>28. ASSUME Interrupted PROVE [Evaluator!EvaluatorNext]_<<phases, sem, code, result>>
  <2>1. UNCHANGED <<pc, sem, result>> /\ (code' = None \/ code' = code)
    BY <1>28 DEF Interrupted
  <2>2. CASE code' = code
    BY <2>1, <2>2 DEF phases
  <2>3. QED BY <2>1, <2>2, StopOrStay
<1>29. ASSUME ProcessExits PROVE [Evaluator!EvaluatorNext]_<<phases, sem, code, result>>
  <2>1. code' = None /\ UNCHANGED <<pc, sem, result>>
    BY <1>29 DEF ProcessExits, ProcessGone
  <2>2. QED BY <2>1, StopOrStay
<1>30. ASSUME UNCHANGED vars PROVE [Evaluator!EvaluatorNext]_<<phases, sem, code, result>>
  BY <1>30 DEF vars, phases
<1>31. QED
  BY <1>1, <1>2, <1>3, <1>4, <1>5, <1>6, <1>7, <1>8, <1>9, <1>10, <1>11, <1>12, <1>13, <1>14, <1>15, <1>16,
     <1>17, <1>18, <1>19, <1>20, <1>21, <1>22, <1>23, <1>24, <1>25, <1>26, <1>27, <1>28, <1>29, <1>30
  DEF Next, Execute, Interrupter, Watcher, KillStep, Runtime

\* A session implements the serial evaluator: an eval is given to the interpreter once and
\* in its turn, and returns only when the interpreter has let go of it (session.go:493-530).
THEOREM ImplementsEvaluator == Spec => EvaluatorHolds
<1>1. Init => Evaluator!EvaluatorInit
  BY Phases DEF Init, phases, Evaluator!EvaluatorInit
<1>2. IInv /\ [Next]_vars => [Evaluator!EvaluatorNext]_(Evaluator!evaluatorVars)
  BY EvaluatorStep DEF Evaluator!evaluatorVars
<1>3. QED
  BY <1>1, <1>2, Invariance, PTL DEF Spec, EvaluatorHolds, Evaluator!EvaluatorSpec
=============================================================================
