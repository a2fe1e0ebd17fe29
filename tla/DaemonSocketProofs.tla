------------------------- MODULE DaemonSocketProofs -------------------------
(***************************************************************************)
(* What DaemonSocket guarantees for any number of daemons and clients and  *)
(* any number of attempts: the types, that listenExclusive takes the file  *)
(* of a listening daemon only when its dial came too early to see it, and  *)
(* that "raced with another daemon" is said only after a race, or after a  *)
(* bind of a free path or a removal that failed for a reason of its own.   *)
(***************************************************************************)
EXTENDS DaemonSocket, TLAPS

\* Daemons that have begun to listen: their bind is behind them for good.
Listened == {"serve", "unlink", "close", "kill", "gone"}

\* A socket listens only between listen and close.
OpenServes == \A d \in open : pc[d] \in {"serve", "unlink", "close"}

\* Clients with a connection know its other end; who still dials may do so.
ClientsInOrder ==
    \A c \in Clients :
        /\ at[c] \in {"pinged", "queued", "accepted"} => peer[c] \in Daemons
        /\ at[c] \in {"idle", "ping", "pinged", "dial"} => dials[c] < Dials

\* Once d has dialled, the daemons it could have seen do not bind any more ...
SeenAreBound ==
    \A d, e \in Daemons :
        pc[d] \in {"ask", "stale"} /\ e \notin unseen[d] => pc[e] \in Listened

\* ... and of those only the one it has asked may still own the file ...
AskedOwner ==
    \A d \in Daemons :
        pc[d] = "ask" => /\ peer[d] \in Daemons
                         /\ file \in Daemons => file \in unseen[d] \cup {peer[d]}

\* ... which, when there was no answer, has stopped listening.
StaleOwner ==
    \A d \in Daemons :
        pc[d] = "stale" /\ file \in Daemons => file \in unseen[d] \/ file \notin open

\* After a removal a starting daemon finds a file only if another one made it, or
\* if the removal failed; it has to dial again for these reasons, or because its
\* bind of the free path failed.
RivalMadeIt ==
    \A d \in Daemons :
        /\ pc[d] = "off" => tries[d] = 0
        /\ \/ pc[d] \in {"dial", "ask", "stale"} /\ tries[d] > 0
           \/ pc[d] = "bind" /\ tries[d] > 0 /\ file # None
           => rivals[d] # {} \/ d \in troubled

IInv ==
    /\ TypeOK
    /\ OpenServes
    /\ ClientsInOrder
    /\ SeenAreBound
    /\ AskedOwner
    /\ StaleOwner
    /\ RivalMadeIt
    /\ RaceErrorIsTrue

-----------------------------------------------------------------------------

LEMMA InitIInv == Init => IInv
  BY SocketAssumption DEF Init, IInv, TypeOK, OpenServes, ClientsInOrder, SeenAreBound,
     AskedOwner, StaleOwner, RivalMadeIt, RaceErrorIsTrue, Starting, Ended, Over

LEMMA RunDaemonKeeps ==
  ASSUME IInv, NEW d \in Daemons, RunDaemon(d) PROVE IInv'
<1>1. RivalMadeIt'
  BY SocketAssumption DEF IInv, RivalMadeIt, TypeOK, Starting,
     RunDaemon, Goto, Move, daemonVars, clientVars, historyVars
<1>2. TypeOK' /\ OpenServes' /\ ClientsInOrder' /\ SeenAreBound' /\ AskedOwner' /\ StaleOwner' /\ RaceErrorIsTrue'
  BY SocketAssumption DEF IInv, TypeOK, OpenServes, ClientsInOrder, SeenAreBound, AskedOwner,
     StaleOwner, RivalMadeIt, RaceErrorIsTrue, Starting, Ended, Over, Listened,
     RunDaemon, Goto, Move, daemonVars, clientVars, historyVars
<1>3. QED  BY <1>1, <1>2 DEF IInv

LEMMA BindKeeps ==
  ASSUME IInv, NEW d \in Daemons, Bind(d) PROVE IInv'
<1>1. TypeOK'
  BY SocketAssumption DEF IInv, TypeOK, Starting, Ended, Over,
     Bind, Goto, Move, daemonVars, clientVars, historyVars
<1>2. SeenAreBound'
  BY SocketAssumption DEF IInv, SeenAreBound, OpenServes, TypeOK, Listened,
     Bind, Goto, Move, daemonVars, clientVars, historyVars
<1>3. AskedOwner'
  BY SocketAssumption DEF IInv, AskedOwner, SeenAreBound, OpenServes, TypeOK, Listened,
     Bind, Goto, Move, daemonVars, clientVars, historyVars
<1>4. StaleOwner'
  <2>1. SUFFICES ASSUME NEW e \in Daemons, pc'[e] = "stale", file' \in Daemons
                 PROVE  file' \in unseen'[e] \/ file' \notin open'
    BY DEF StaleOwner
  <2>2. pc[e] = "stale" /\ unseen' = unseen /\ open' = open
    BY <2>1, SocketAssumption DEF IInv, TypeOK, Bind, Goto, clientVars
  <2>3. CASE file' = d
    BY <2>1, <2>2, <2>3, SocketAssumption DEF IInv, SeenAreBound, Bind, Listened
  <2>4. CASE file' = file
    BY <2>1, <2>2, <2>4 DEF IInv, StaleOwner
  <2>5. QED  BY <2>3, <2>4 DEF Bind
<1>5. RivalMadeIt'
  <2>1. CASE file = None /\ file' = d
    <3>1. pc' = [pc EXCEPT ![d] = "listen"] /\ pc[d] = "bind"
      BY <2>1, SocketAssumption DEF Bind, Goto
    <3>2. ASSUME NEW e \in Daemons, e # d
          PROVE /\ pc'[e] = pc[e] /\ tries'[e] = tries[e]
                /\ pc[e] \in Starting => d \in rivals'[e]
      BY <2>1, <3>1, <3>2, SocketAssumption DEF IInv, TypeOK, Starting, Bind
    <3>3. pc'[d] = "listen"
      BY <3>1 DEF IInv, TypeOK
    <3>4. ASSUME NEW e \in Daemons PROVE pc'[e] = "off" => tries'[e] = 0
      BY <3>2, <3>3, <3>4 DEF IInv, RivalMadeIt
    <3>5. ASSUME NEW e \in Daemons, pc'[e] \in Starting PROVE rivals'[e] # {}
      BY <3>2, <3>3, <3>5 DEF Starting
    <3>6. QED  BY <3>4, <3>5 DEF RivalMadeIt, Starting
  <2>2. CASE file = None /\ file' = file
    BY <2>2, SocketAssumption DEF IInv, RivalMadeIt, TypeOK, Bind, Goto
  <2>3. CASE file # None
    BY <2>3, SocketAssumption DEF IInv, RivalMadeIt, TypeOK, Bind, Goto
  <2>4. QED  BY <2>1, <2>2, <2>3 DEF Bind
<1>6. RaceErrorIsTrue'
  BY SocketAssumption DEF IInv, RaceErrorIsTrue, RivalMadeIt, TypeOK, Starting,
     Bind, Goto, Move, daemonVars, clientVars, historyVars
<1>7. OpenServes' /\ ClientsInOrder'
  BY SocketAssumption DEF IInv, TypeOK, OpenServes, ClientsInOrder, SeenAreBound, AskedOwner,
     StaleOwner, RivalMadeIt, RaceErrorIsTrue, Starting, Ended, Over, Listened,
     Bind, Goto, Move, daemonVars, clientVars, historyVars
<1>8. QED  BY <1>1, <1>2, <1>3, <1>4, <1>5, <1>6, <1>7 DEF IInv

LEMMA ListenKeeps ==
  ASSUME IInv, NEW d \in Daemons, Listen(d) PROVE IInv'
<1>1. OpenServes'
  BY SocketAssumption DEF IInv, OpenServes, TypeOK,
     Listen, Goto, Move, daemonVars, clientVars, historyVars
<1>2. SeenAreBound'
  BY SocketAssumption DEF IInv, SeenAreBound, OpenServes, TypeOK, Listened,
     Listen, Goto, Move, daemonVars, clientVars, historyVars
<1>3. StaleOwner'
  BY SocketAssumption DEF IInv, StaleOwner, SeenAreBound, AskedOwner, OpenServes, TypeOK,
     Listened,
     Listen, Goto, Move, daemonVars, clientVars, historyVars
<1>4. TypeOK' /\ ClientsInOrder' /\ AskedOwner' /\ RivalMadeIt' /\ RaceErrorIsTrue'
  BY SocketAssumption DEF IInv, TypeOK, OpenServes, ClientsInOrder, SeenAreBound, AskedOwner,
     StaleOwner, RivalMadeIt, RaceErrorIsTrue, Starting, Ended, Over, Listened,
     Listen, Goto, Move, daemonVars, clientVars, historyVars
<1>5. QED  BY <1>1, <1>2, <1>3, <1>4 DEF IInv

LEMMA PingDialKeeps ==
  ASSUME IInv, NEW d \in Daemons, PingDial(d) PROVE IInv'
<1>1. SeenAreBound'
  BY SocketAssumption DEF IInv, SeenAreBound, OpenServes, TypeOK, Listened,
     PingDial, Goto, Move, daemonVars, clientVars, historyVars
<1>2. AskedOwner'
  BY SocketAssumption DEF IInv, AskedOwner, SeenAreBound, OpenServes, TypeOK, Listened,
     PingDial, Goto, Move, daemonVars, clientVars, historyVars
<1>3. StaleOwner'
  BY SocketAssumption DEF IInv, StaleOwner, SeenAreBound, AskedOwner, OpenServes, TypeOK,
     Listened,
     PingDial, Goto, Move, daemonVars, clientVars, historyVars
<1>4. RivalMadeIt'
  BY SocketAssumption DEF IInv, RivalMadeIt, TypeOK, Starting,
     PingDial, Goto, Move, daemonVars, clientVars, historyVars
<1>5. TypeOK' /\ OpenServes' /\ ClientsInOrder' /\ RaceErrorIsTrue'
  BY SocketAssumption, SMTT(30) DEF IInv, TypeOK, OpenServes, ClientsInOrder, SeenAreBound, AskedOwner,
     StaleOwner, RivalMadeIt, RaceErrorIsTrue, Starting, Ended, Over, Listened,
     PingDial, Goto, Move, daemonVars, clientVars, historyVars
<1>6. QED  BY <1>1, <1>2, <1>3, <1>4, <1>5 DEF IInv

LEMMA PingReplyKeeps ==
  ASSUME IInv, NEW d \in Daemons, PingReply(d) PROVE IInv'
<1>1. TypeOK'
  BY SocketAssumption DEF IInv, TypeOK, Starting, Ended, Over,
     PingReply, Serving, Goto, Move, daemonVars, clientVars, historyVars
<1>2. AskedOwner'
  BY SocketAssumption DEF IInv, AskedOwner, SeenAreBound, OpenServes, TypeOK, Listened,
     PingReply, Serving, Goto, Move, daemonVars, clientVars, historyVars
<1>3. StaleOwner'
  BY SocketAssumption DEF IInv, StaleOwner, SeenAreBound, AskedOwner, OpenServes, TypeOK,
     Listened,
     PingReply, Serving, Goto, Move, daemonVars, clientVars, historyVars
<1>4. RivalMadeIt'
  BY SocketAssumption DEF IInv, RivalMadeIt, TypeOK, Starting,
     PingReply, Serving, Goto, Move, daemonVars, clientVars, historyVars
<1>5. OpenServes' /\ ClientsInOrder' /\ SeenAreBound' /\ RaceErrorIsTrue'
  BY SocketAssumption DEF IInv, TypeOK, OpenServes, ClientsInOrder, SeenAreBound, AskedOwner,
     StaleOwner, RivalMadeIt, RaceErrorIsTrue, Starting, Ended, Over, Listened,
     PingReply, Serving, Goto, Move, daemonVars, clientVars, historyVars
<1>6. QED  BY <1>1, <1>2, <1>3, <1>4, <1>5 DEF IInv

LEMMA RemoveKeeps ==
  ASSUME IInv, NEW d \in Daemons, Remove(d) PROVE IInv'
<1>1. TypeOK'
  BY SocketAssumption DEF IInv, TypeOK, Starting, Ended, Over,
     Remove, Goto, Move, daemonVars, clientVars, historyVars
<1>2. AskedOwner'
  BY SocketAssumption DEF IInv, AskedOwner, SeenAreBound, OpenServes, TypeOK, Listened,
     Remove, Goto, Move, daemonVars, clientVars, historyVars
<1>3. StaleOwner'
  BY SocketAssumption DEF IInv, StaleOwner, SeenAreBound, AskedOwner, OpenServes, TypeOK,
     Listened,
     Remove, Goto, Move, daemonVars, clientVars, historyVars
<1>4. RivalMadeIt'
  BY SocketAssumption DEF IInv, RivalMadeIt, TypeOK, Starting,
     Remove, Goto, Move, daemonVars, clientVars, historyVars
<1>5. RaceErrorIsTrue'
  BY SocketAssumption DEF IInv, RaceErrorIsTrue, RivalMadeIt, TypeOK, Starting,
     Remove, Goto, Move, daemonVars, clientVars, historyVars
<1>6. OpenServes' /\ ClientsInOrder' /\ SeenAreBound'
  BY SocketAssumption DEF IInv, TypeOK, OpenServes, ClientsInOrder, SeenAreBound, AskedOwner,
     StaleOwner, RivalMadeIt, RaceErrorIsTrue, Starting, Ended, Over, Listened,
     Remove, Goto, Move, daemonVars, clientVars, historyVars
<1>7. QED  BY <1>1, <1>2, <1>3, <1>4, <1>5, <1>6 DEF IInv

LEMMA IdleStopKeeps ==
  ASSUME IInv, NEW d \in Daemons, IdleStop(d) PROVE IInv'
<1>1. OpenServes'
  BY SocketAssumption DEF IInv, OpenServes, TypeOK,
     IdleStop, Goto, Move, daemonVars, clientVars, historyVars
<1>2. TypeOK' /\ ClientsInOrder' /\ SeenAreBound' /\ AskedOwner' /\ StaleOwner' /\ RivalMadeIt' /\ RaceErrorIsTrue'
  BY SocketAssumption DEF IInv, TypeOK, OpenServes, ClientsInOrder, SeenAreBound, AskedOwner,
     StaleOwner, RivalMadeIt, RaceErrorIsTrue, Starting, Ended, Over, Listened,
     IdleStop, Goto, Move, daemonVars, clientVars, historyVars
<1>3. QED  BY <1>1, <1>2 DEF IInv

LEMMA UnlinkKeeps ==
  ASSUME IInv, NEW d \in Daemons, Unlink(d) PROVE IInv'
<1>1. OpenServes'
  BY SocketAssumption DEF IInv, OpenServes, TypeOK,
     Unlink, Goto, Move, daemonVars, clientVars, historyVars
<1>2. AskedOwner'
  BY SocketAssumption DEF IInv, AskedOwner, SeenAreBound, OpenServes, TypeOK, Listened,
     Unlink, Goto, Move, daemonVars, clientVars, historyVars
<1>3. StaleOwner'
  BY SocketAssumption DEF IInv, StaleOwner, SeenAreBound, AskedOwner, OpenServes, TypeOK,
     Listened,
     Unlink, Goto, Move, daemonVars, clientVars, historyVars
<1>4. TypeOK' /\ ClientsInOrder' /\ SeenAreBound' /\ RivalMadeIt' /\ RaceErrorIsTrue'
  BY SocketAssumption DEF IInv, TypeOK, OpenServes, ClientsInOrder, SeenAreBound, AskedOwner,
     StaleOwner, RivalMadeIt, RaceErrorIsTrue, Starting, Ended, Over, Listened,
     Unlink, Goto, Move, daemonVars, clientVars, historyVars
<1>5. QED  BY <1>1, <1>2, <1>3, <1>4 DEF IInv

LEMMA CloseKeeps ==
  ASSUME IInv, NEW d \in Daemons, Close(d) PROVE IInv'
<1>1. OpenServes'
  BY SocketAssumption DEF IInv, OpenServes, TypeOK,
     Close, Goto, Move, daemonVars, clientVars, historyVars
<1>2. StaleOwner'
  BY SocketAssumption DEF IInv, StaleOwner, SeenAreBound, AskedOwner, OpenServes, TypeOK,
     Listened,
     Close, Goto, Move, daemonVars, clientVars, historyVars
<1>3. TypeOK' /\ ClientsInOrder' /\ SeenAreBound' /\ AskedOwner' /\ RivalMadeIt' /\ RaceErrorIsTrue'
  BY SocketAssumption DEF IInv, TypeOK, OpenServes, ClientsInOrder, SeenAreBound, AskedOwner,
     StaleOwner, RivalMadeIt, RaceErrorIsTrue, Starting, Ended, Over, Listened,
     Close, Goto, Move, daemonVars, clientVars, historyVars
<1>4. QED  BY <1>1, <1>2, <1>3 DEF IInv

LEMMA SweepKeeps ==
  ASSUME IInv, NEW d \in Daemons, Sweep(d) PROVE IInv'
<1>1. OpenServes'
  BY SocketAssumption DEF IInv, OpenServes, TypeOK,
     Sweep, Goto, Move, daemonVars, clientVars, historyVars
<1>2. AskedOwner'
  BY SocketAssumption DEF IInv, AskedOwner, SeenAreBound, OpenServes, TypeOK, Listened,
     Sweep, Goto, Move, daemonVars, clientVars, historyVars
<1>3. StaleOwner'
  BY SocketAssumption DEF IInv, StaleOwner, SeenAreBound, AskedOwner, OpenServes, TypeOK,
     Listened,
     Sweep, Goto, Move, daemonVars, clientVars, historyVars
<1>4. TypeOK' /\ ClientsInOrder' /\ SeenAreBound' /\ RivalMadeIt' /\ RaceErrorIsTrue'
  BY SocketAssumption DEF IInv, TypeOK, OpenServes, ClientsInOrder, SeenAreBound, AskedOwner,
     StaleOwner, RivalMadeIt, RaceErrorIsTrue, Starting, Ended, Over, Listened,
     Sweep, Goto, Move, daemonVars, clientVars, historyVars
<1>5. QED  BY <1>1, <1>2, <1>3, <1>4 DEF IInv

LEMMA CrashKeeps ==
  ASSUME IInv, NEW d \in Daemons, Crash(d) PROVE IInv'
<1>1. OpenServes'
  BY SocketAssumption DEF IInv, OpenServes, TypeOK,
     Crash, Goto, Move, daemonVars, clientVars, historyVars
<1>2. SeenAreBound'
  BY SocketAssumption DEF IInv, SeenAreBound, OpenServes, TypeOK, Listened,
     Crash, Goto, Move, daemonVars, clientVars, historyVars
<1>3. StaleOwner'
  BY SocketAssumption DEF IInv, StaleOwner, SeenAreBound, AskedOwner, OpenServes, TypeOK,
     Listened,
     Crash, Goto, Move, daemonVars, clientVars, historyVars
<1>4. TypeOK' /\ ClientsInOrder' /\ AskedOwner' /\ RivalMadeIt' /\ RaceErrorIsTrue'
  BY SocketAssumption DEF IInv, TypeOK, OpenServes, ClientsInOrder, SeenAreBound, AskedOwner,
     StaleOwner, RivalMadeIt, RaceErrorIsTrue, Starting, Ended, Over, Listened,
     Crash, Goto, Move, daemonVars, clientVars, historyVars
<1>5. QED  BY <1>1, <1>2, <1>3, <1>4 DEF IInv

LEMMA CallKeeps ==
  ASSUME IInv, NEW c \in Clients, NEW k \in {"eval", "stop"}, Call(c, k) PROVE IInv'
<1>1. ClientsInOrder'
  BY SocketAssumption DEF IInv, ClientsInOrder, TypeOK, Over,
     Call, Goto, Move, daemonVars, clientVars, historyVars
<1>2. TypeOK' /\ OpenServes' /\ SeenAreBound' /\ AskedOwner' /\ StaleOwner' /\ RivalMadeIt' /\ RaceErrorIsTrue'
  BY SocketAssumption DEF IInv, TypeOK, OpenServes, ClientsInOrder, SeenAreBound, AskedOwner,
     StaleOwner, RivalMadeIt, RaceErrorIsTrue, Starting, Ended, Over, Listened,
     Call, Goto, Move, daemonVars, clientVars, historyVars
<1>3. QED  BY <1>1, <1>2 DEF IInv

LEMMA StopPingKeeps ==
  ASSUME IInv, NEW c \in Clients, StopPing(c) PROVE IInv'
<1>1. ClientsInOrder'
  BY SocketAssumption DEF IInv, ClientsInOrder, TypeOK, Over,
     StopPing, Goto, Move, daemonVars, clientVars, historyVars
<1>2. TypeOK' /\ OpenServes' /\ SeenAreBound' /\ AskedOwner' /\ StaleOwner' /\ RivalMadeIt' /\ RaceErrorIsTrue'
  BY SocketAssumption DEF IInv, TypeOK, OpenServes, ClientsInOrder, SeenAreBound, AskedOwner,
     StaleOwner, RivalMadeIt, RaceErrorIsTrue, Starting, Ended, Over, Listened,
     StopPing, Goto, Move, daemonVars, clientVars, historyVars
<1>3. QED  BY <1>1, <1>2 DEF IInv

LEMMA StopPongKeeps ==
  ASSUME IInv, NEW c \in Clients, StopPong(c) PROVE IInv'
<1>1. ClientsInOrder'
  BY SocketAssumption DEF IInv, ClientsInOrder, TypeOK, Over,
     StopPong, Serving, Goto, Move, daemonVars, clientVars, historyVars
<1>2. TypeOK' /\ OpenServes' /\ SeenAreBound' /\ AskedOwner' /\ StaleOwner' /\ RivalMadeIt' /\ RaceErrorIsTrue'
  BY SocketAssumption, SMTT(30) DEF IInv, TypeOK, OpenServes, ClientsInOrder, SeenAreBound, AskedOwner,
     StaleOwner, RivalMadeIt, RaceErrorIsTrue, Starting, Ended, Over, Listened,
     StopPong, Serving, Goto, Move, daemonVars, clientVars, historyVars
<1>3. QED  BY <1>1, <1>2 DEF IInv

LEMMA DialKeeps ==
  ASSUME IInv, NEW c \in Clients, Dial(c) PROVE IInv'
<1>1. ClientsInOrder'
  BY SocketAssumption DEF IInv, ClientsInOrder, TypeOK, Over,
     Dial, Goto, Move, daemonVars, clientVars, historyVars
<1>2. TypeOK' /\ OpenServes' /\ SeenAreBound' /\ AskedOwner' /\ StaleOwner' /\ RivalMadeIt' /\ RaceErrorIsTrue'
  BY SocketAssumption DEF IInv, TypeOK, OpenServes, ClientsInOrder, SeenAreBound, AskedOwner,
     StaleOwner, RivalMadeIt, RaceErrorIsTrue, Starting, Ended, Over, Listened,
     Dial, Goto, Move, daemonVars, clientVars, historyVars
<1>3. QED  BY <1>1, <1>2 DEF IInv

LEMMA DialFailsKeeps ==
  ASSUME IInv, NEW c \in Clients, DialFails(c) PROVE IInv'
<1>1. TypeOK'
  <2>1. pc' \in [Daemons -> Starting \cup Ended \cup
                    {"off", "listen", "serve", "unlink", "close", "kill"}]
    BY DEF IInv, TypeOK, Starting, DialFails, StartDaemon, Goto
  <2>2. at' \in [Clients -> Over \cup {"idle", "ping", "pinged", "dial", "queued", "accepted"}]
    BY DEF IInv, TypeOK, Over, DialFails, Move
  <2>3. dials' \in [Clients -> 0 .. Dials]
    BY SocketAssumption DEF IInv, TypeOK, ClientsInOrder, DialFails
  <2>4. QED  BY <2>1, <2>2, <2>3 DEF IInv, TypeOK, DialFails, historyVars
<1>2. ClientsInOrder'
  BY SocketAssumption DEF IInv, ClientsInOrder, TypeOK, Over,
     DialFails, StartDaemon, Goto, Move, daemonVars, clientVars, historyVars
<1>3. RivalMadeIt'
  BY SocketAssumption DEF IInv, RivalMadeIt, TypeOK, Starting,
     DialFails, StartDaemon, Goto, Move, daemonVars, clientVars, historyVars
<1>4. OpenServes' /\ SeenAreBound' /\ AskedOwner' /\ StaleOwner' /\ RaceErrorIsTrue'
  BY SocketAssumption DEF IInv, TypeOK, OpenServes, ClientsInOrder, SeenAreBound, AskedOwner,
     StaleOwner, RivalMadeIt, RaceErrorIsTrue, Starting, Ended, Over, Listened,
     DialFails, StartDaemon, Goto, Move, daemonVars, clientVars, historyVars
<1>5. QED  BY <1>1, <1>2, <1>3, <1>4 DEF IInv

LEMMA AcceptKeeps ==
  ASSUME IInv, NEW c \in Clients, Accept(c) PROVE IInv'
<1>1. ClientsInOrder'
  BY SocketAssumption DEF IInv, ClientsInOrder, TypeOK, Over,
     Accept, Serving, Goto, Move, daemonVars, clientVars, historyVars
<1>2. TypeOK' /\ OpenServes' /\ SeenAreBound' /\ AskedOwner' /\ StaleOwner' /\ RivalMadeIt' /\ RaceErrorIsTrue'
  BY SocketAssumption DEF IInv, TypeOK, OpenServes, ClientsInOrder, SeenAreBound, AskedOwner,
     StaleOwner, RivalMadeIt, RaceErrorIsTrue, Starting, Ended, Over, Listened,
     Accept, Serving, Goto, Move, daemonVars, clientVars, historyVars
<1>3. QED  BY <1>1, <1>2 DEF IInv

LEMMA AnswerKeeps ==
  ASSUME IInv, NEW c \in Clients, Answer(c) PROVE IInv'
<1>1. OpenServes'
  BY SocketAssumption DEF IInv, OpenServes, TypeOK,
     Answer, Goto, Move, daemonVars, clientVars, historyVars
<1>2. ClientsInOrder'
  BY SocketAssumption DEF IInv, ClientsInOrder, TypeOK, Over,
     Answer, Goto, Move, daemonVars, clientVars, historyVars
<1>3. SeenAreBound'
  BY SocketAssumption DEF IInv, SeenAreBound, OpenServes, TypeOK, Listened,
     Answer, Goto, Move, daemonVars, clientVars, historyVars
<1>4. TypeOK' /\ AskedOwner' /\ StaleOwner' /\ RivalMadeIt' /\ RaceErrorIsTrue'
  BY SocketAssumption DEF IInv, TypeOK, OpenServes, ClientsInOrder, SeenAreBound, AskedOwner,
     StaleOwner, RivalMadeIt, RaceErrorIsTrue, Starting, Ended, Over, Listened,
     Answer, Goto, Move, daemonVars, clientVars, historyVars
<1>5. QED  BY <1>1, <1>2, <1>3, <1>4 DEF IInv

-----------------------------------------------------------------------------
LEMMA NextKeeps == IInv /\ [Next]_vars => IInv'
<1>1. SUFFICES ASSUME IInv, [Next]_vars PROVE IInv'
  OBVIOUS
<1>2. CASE UNCHANGED vars
  BY <1>1, <1>2 DEF IInv, TypeOK, OpenServes, ClientsInOrder, SeenAreBound, AskedOwner,
     StaleOwner, RivalMadeIt, RaceErrorIsTrue, vars, historyVars
<1>3. ASSUME NEW d \in Daemons, RunDaemon(d) \/ DaemonStep(d) \/ IdleStop(d) \/ Crash(d)
      PROVE IInv'
  BY <1>1, <1>3, RunDaemonKeeps, BindKeeps, ListenKeeps, PingDialKeeps, PingReplyKeeps,
     RemoveKeeps, IdleStopKeeps, UnlinkKeeps, CloseKeeps, SweepKeeps, CrashKeeps DEF DaemonStep
<1>4. ASSUME NEW c \in Clients,
             (\E k \in {"eval", "stop"} : Call(c, k)) \/ ClientStep(c)
      PROVE IInv'
  BY <1>1, <1>4, CallKeeps, StopPingKeeps, StopPongKeeps, DialKeeps, DialFailsKeeps,
     AcceptKeeps, AnswerKeeps DEF ClientStep
<1>5. QED  BY <1>1, <1>2, <1>3, <1>4 DEF Next

\* IInv holds in every reachable state, whichever binds and removals fail.
THEOREM Invariance == Spec => []IInv
<1>1. Init => IInv
  BY InitIInv
<1>2. IInv /\ [Next]_vars => IInv'
  BY NextKeeps
<1>3. QED  BY <1>1, <1>2, PTL DEF Spec

\* Every variable keeps its type; the attempts and the dials stay within bounds.
THEOREM TypeCorrect == Spec => []TypeOK
<1>1. IInv => TypeOK
  BY DEF IInv
<1>2. QED  BY <1>1, Invariance, PTL

\* listenExclusive (daemon.go:275-291) removes the file of a listening daemon only
\* when that daemon did not listen yet at the time of the dial.
THEOREM OnlyTheUnseen == Spec => []OnlyTheUnseenAreRobbed
<1>1. IInv => OnlyTheUnseenAreRobbed
  BY SocketAssumption DEF IInv, TypeOK, StaleOwner, OnlyTheUnseenAreRobbed
<1>2. QED  BY <1>1, Invariance, PTL

\* "raced with another daemon" (daemon.go:289) is said only when a rival has bound the
\* path meanwhile, or when a system call of the daemon's own, the bind of a free path
\* (daemon.go:277) or the removal (daemon.go:286), has failed; never of a stale file alone.
THEOREM RaceErrors == Spec => []RaceErrorIsTrue
<1>1. IInv => RaceErrorIsTrue
  BY DEF IInv
<1>2. QED  BY <1>1, Invariance, PTL
=============================================================================
