-------------------------- MODULE HttpServerProofs --------------------------
(***************************************************************************)
(* The invariants of HttpServer, for any number of connections and of      *)
(* calls of shutdown.                                                      *)
(***************************************************************************)
EXTENDS HttpServer, TLAPS

USE DEF listenVars, serverVars, closerVars, taskVars, SlotValues, NoConnection

\* The server before start() satisfies the inductive invariant.
LEMMA InitIInv == Init => IInv
  <1> SUFFICES ASSUME Init PROVE IInv
    OBVIOUS
  <1> USE ServerAssumption DEF Init
  <1>1. TypeOK
    <2>1. FlagsOK
      BY Zenon DEF FlagsOK
    <2> QED
      BY <2>1 DEF TypeOK
  <1>2. OkMeansClosed /\ SourceForgottenWhenClosed /\ CloserInOrder /\ SourceSetInLoop
    BY DEF OkMeansClosed, SourceForgottenWhenClosed, CloserInOrder, SourceSetInLoop, InLoop
  <1>3. SlotHoldsSocket /\ CrashOnlyAfterLoop /\ SlotHoldsSoleClient /\ SoleClientServed
    BY DEF SlotHoldsSocket, Begun, CrashOnlyAfterLoop, SlotHoldsSoleClient, SoleClientServed
  <1> QED
    BY <1>1, <1>2, <1>3 DEF IInv

\* The Boolean variables stay Boolean.
LEMMA FlagsPreserved == FlagsOK /\ Next => FlagsOK'
  <1> SUFFICES ASSUME FlagsOK, Next PROVE FlagsOK'
    OBVIOUS
  <1>1. CASE ServerStep
    BY <1>1, Zenon DEF FlagsOK, ServerStep, start, SetSource, LoadSource, AcceptCheck,
       InitSocketFails, AcceptEx, AcceptReturns, runAsync, RunAsyncThrows, StackReused,
       StartAgain, Crash
  <1>2. CASE KernelStep
    BY <1>2, Zenon DEF FlagsOK, KernelStep, AcceptCompletes, Completes, AcceptHungUp, AcceptAborted,
       OrphanCompletes, Crash
  <1>3. CASE shutdown \/ CloserStep
    BY <1>3, Zenon DEF FlagsOK, shutdown, CloserStep, ShutdownLoads, CloseSocket, InvalidateSocket,
       ForgetSource, Crash
  <1>4. ASSUME NEW w \in Connections, TaskStep(w) \/ Connect(w) PROVE FlagsOK'
    BY <1>4, Zenon DEF FlagsOK, TaskStep, InitReader, MakeConnection, Run, Close, Connect, Crash
  <1> QED
    BY <1>1, <1>2, <1>3, <1>4, Zenon DEF Next

\* Every action keeps the variables in their types.
LEMMA TypePreserved == IInv /\ Next => TypeOK'
  <1> SUFFICES ASSUME IInv, Next PROVE TypeOK'
    OBVIOUS
  <1>0. FlagsOK'
    BY FlagsPreserved DEF IInv, TypeOK
  <1> USE <1>0, ServerAssumption DEF IInv, TypeOK
  <1>1. CASE start \/ SetSource \/ StackReused \/ StartAgain
    BY <1>1 DEF start, SetSource, StackReused, StartAgain
  <1>2. CASE LoadSource
    BY <1>2 DEF LoadSource, Crash
  <1>3. CASE AcceptCheck \/ InitSocketFails \/ AcceptEx \/ AcceptAborted
    BY <1>3 DEF AcceptCheck, InitSocketFails, AcceptEx, AcceptAborted, LeaveLoop, StartResult
  <1>4. CASE AcceptReturns \/ runAsync \/ RunAsyncThrows
    BY <1>4 DEF AcceptReturns, runAsync, RunAsyncThrows
  <1>5. CASE AcceptCompletes
    BY <1>5 DEF AcceptCompletes, Completes
  <1>6. CASE AcceptHungUp
    BY <1>6 DEF AcceptHungUp, LeaveLoop, StartResult
  <1>7. CASE OrphanCompletes
    BY <1>7 DEF OrphanCompletes, Crash
  <1>8. CASE shutdown
    BY <1>8 DEF shutdown
  <1>9. CASE ShutdownLoads
    BY <1>9 DEF ShutdownLoads, Crash
  <1>10. CASE CloseSocket \/ InvalidateSocket \/ ForgetSource
    BY <1>10 DEF CloseSocket, InvalidateSocket, ForgetSource
  <1>11. ASSUME NEW c \in Connections, Connect(c) PROVE TypeOK'
    BY <1>11 DEF Connect
  <1>12. ASSUME NEW w \in Connections, InitReader(w) \/ MakeConnection(w) PROVE TypeOK'
    BY <1>12 DEF InitReader, MakeConnection
  <1>13. ASSUME NEW w \in Connections, Run(w) \/ Close(w) PROVE TypeOK'
    BY <1>13 DEF Run, Close, Crash
  <1> QED
    BY <1>1, <1>2, <1>3, <1>4, <1>5, <1>6, <1>7, <1>8, <1>9, <1>10, <1>11, <1>12, <1>13
       DEF Next, ServerStep, KernelStep, CloserStep, TaskStep

\* What shutdown() has done and what start() reports agree.
LEMMA ClosingPreserved == IInv /\ Next => (OkMeansClosed /\ SourceForgottenWhenClosed /\ CloserInOrder /\ SourceSetInLoop)'
  <1> SUFFICES ASSUME IInv, Next PROVE (OkMeansClosed /\ SourceForgottenWhenClosed /\ CloserInOrder /\ SourceSetInLoop)'
    OBVIOUS
  <1> USE ServerAssumption DEF IInv, TypeOK, OkMeansClosed, SourceForgottenWhenClosed, CloserInOrder, SourceSetInLoop, InLoop
  <1>1. CASE start \/ SetSource
    BY <1>1 DEF start, SetSource
  <1>2. CASE LoadSource
    BY <1>2 DEF LoadSource, Crash
  <1>3. CASE AcceptCheck \/ InitSocketFails \/ AcceptEx \/ AcceptAborted
    BY <1>3 DEF AcceptCheck, InitSocketFails, AcceptEx, AcceptAborted, LeaveLoop, StartResult
  <1>4. CASE AcceptReturns
    BY <1>4 DEF AcceptReturns
  <1>5. CASE runAsync
    BY <1>5 DEF runAsync
  <1>6. CASE RunAsyncThrows \/ StackReused \/ StartAgain
    BY <1>6 DEF RunAsyncThrows, StackReused, StartAgain
  <1>7. CASE AcceptCompletes
    BY <1>7 DEF AcceptCompletes, Completes
  <1>8. CASE AcceptHungUp
    BY <1>8 DEF AcceptHungUp, LeaveLoop, StartResult
  <1>9. CASE OrphanCompletes
    BY <1>9 DEF OrphanCompletes, Crash
  <1>10. CASE shutdown
    BY <1>10 DEF shutdown
  <1>11. CASE ShutdownLoads
    BY <1>11 DEF ShutdownLoads, Crash
  <1>12. CASE CloseSocket \/ InvalidateSocket \/ ForgetSource
    BY <1>12 DEF CloseSocket, InvalidateSocket, ForgetSource
  <1>13. ASSUME NEW w \in Connections, Connect(w) PROVE (OkMeansClosed /\ SourceForgottenWhenClosed /\ CloserInOrder /\ SourceSetInLoop)'
    BY <1>13 DEF Connect
  <1>14. ASSUME NEW w \in Connections, InitReader(w) PROVE (OkMeansClosed /\ SourceForgottenWhenClosed /\ CloserInOrder /\ SourceSetInLoop)'
    BY <1>14 DEF InitReader
  <1>15. ASSUME NEW w \in Connections, MakeConnection(w) PROVE (OkMeansClosed /\ SourceForgottenWhenClosed /\ CloserInOrder /\ SourceSetInLoop)'
    BY <1>15 DEF MakeConnection
  <1>16. ASSUME NEW w \in Connections, Run(w) PROVE (OkMeansClosed /\ SourceForgottenWhenClosed /\ CloserInOrder /\ SourceSetInLoop)'
    BY <1>16 DEF Run, Crash
  <1>17. ASSUME NEW w \in Connections, Close(w) PROVE (OkMeansClosed /\ SourceForgottenWhenClosed /\ CloserInOrder /\ SourceSetInLoop)'
    BY <1>17 DEF Close, Crash
  <1> QED
    BY <1>1, <1>2, <1>3, <1>4, <1>5, <1>6, <1>7, <1>8, <1>9,
       <1>10, <1>11, <1>12, <1>13, <1>14, <1>15, <1>16, <1>17
       DEF Next, ServerStep, KernelStep, CloserStep, TaskStep

\* The loop's variable holds a socket as long as a callback may use it.
LEMMA SlotPreserved == IInv /\ Next => SlotHoldsSocket'
  <1> SUFFICES ASSUME IInv, Next PROVE SlotHoldsSocket'
    OBVIOUS
  <1> USE ServerAssumption DEF IInv, TypeOK, SlotHoldsSocket, Begun
  <1>1. CASE start \/ SetSource
    BY <1>1 DEF start, SetSource
  <1>2. CASE LoadSource
    BY <1>2 DEF LoadSource, Crash
  <1>3. CASE AcceptCheck \/ InitSocketFails \/ AcceptEx \/ AcceptAborted
    BY <1>3 DEF AcceptCheck, InitSocketFails, AcceptEx, AcceptAborted, LeaveLoop, StartResult
  <1>4. CASE AcceptReturns
    BY <1>4 DEF AcceptReturns
  <1>5. CASE runAsync
    BY <1>5 DEF runAsync
  <1>6. CASE RunAsyncThrows \/ StackReused \/ StartAgain
    BY <1>6 DEF RunAsyncThrows, StackReused, StartAgain
  <1>7. CASE AcceptCompletes
    BY <1>7 DEF AcceptCompletes, Completes
  <1>8. CASE AcceptHungUp
    BY <1>8 DEF AcceptHungUp, LeaveLoop, StartResult
  <1>9. CASE OrphanCompletes
    BY <1>9 DEF OrphanCompletes, Crash
  <1>10. CASE shutdown
    BY <1>10 DEF shutdown
  <1>11. CASE ShutdownLoads
    BY <1>11 DEF ShutdownLoads, Crash
  <1>12. CASE CloseSocket \/ InvalidateSocket \/ ForgetSource
    BY <1>12 DEF CloseSocket, InvalidateSocket, ForgetSource
  <1>13. ASSUME NEW w \in Connections, Connect(w) PROVE SlotHoldsSocket'
    BY <1>13 DEF Connect
  <1>14. ASSUME NEW w \in Connections, InitReader(w) PROVE SlotHoldsSocket'
    BY <1>14 DEF InitReader
  <1>15. ASSUME NEW w \in Connections, MakeConnection(w) PROVE SlotHoldsSocket'
    BY <1>15 DEF MakeConnection
  <1>16. ASSUME NEW w \in Connections, Run(w) PROVE SlotHoldsSocket'
    BY <1>16 DEF Run, Crash
  <1>17. ASSUME NEW w \in Connections, Close(w) PROVE SlotHoldsSocket'
    BY <1>17 DEF Close, Crash
  <1> QED
    BY <1>1, <1>2, <1>3, <1>4, <1>5, <1>6, <1>7, <1>8, <1>9,
       <1>10, <1>11, <1>12, <1>13, <1>14, <1>15, <1>16, <1>17
       DEF Next, ServerStep, KernelStep, CloserStep, TaskStep

\* Nothing goes through a bad pointer while the loop runs undisturbed.
LEMMA CrashPreserved == IInv /\ Next => CrashOnlyAfterLoop'
  <1> SUFFICES ASSUME IInv, Next PROVE CrashOnlyAfterLoop'
    OBVIOUS
  <1> USE ServerAssumption DEF IInv, TypeOK, CloserInOrder, SourceSetInLoop, InLoop, SlotHoldsSocket, Begun, CrashOnlyAfterLoop
  <1>1. CASE start \/ SetSource
    BY <1>1 DEF start, SetSource
  <1>2. CASE LoadSource
    BY <1>2 DEF LoadSource, Crash
  <1>3. CASE AcceptCheck \/ InitSocketFails \/ AcceptEx \/ AcceptAborted
    BY <1>3 DEF AcceptCheck, InitSocketFails, AcceptEx, AcceptAborted, LeaveLoop, StartResult
  <1>4. CASE AcceptReturns
    BY <1>4 DEF AcceptReturns
  <1>5. CASE runAsync
    BY <1>5 DEF runAsync
  <1>6. CASE RunAsyncThrows \/ StackReused \/ StartAgain
    BY <1>6 DEF RunAsyncThrows, StackReused, StartAgain
  <1>7. CASE AcceptCompletes
    BY <1>7 DEF AcceptCompletes, Completes
  <1>8. CASE AcceptHungUp
    BY <1>8 DEF AcceptHungUp, LeaveLoop, StartResult
  <1>9. CASE OrphanCompletes
    BY <1>9 DEF OrphanCompletes, Crash
  <1>10. CASE shutdown
    BY <1>10 DEF shutdown
  <1>11. CASE ShutdownLoads
    BY <1>11 DEF ShutdownLoads, Crash
  <1>12. CASE CloseSocket \/ InvalidateSocket \/ ForgetSource
    BY <1>12 DEF CloseSocket, InvalidateSocket, ForgetSource
  <1>13. ASSUME NEW w \in Connections, Connect(w) PROVE CrashOnlyAfterLoop'
    BY <1>13 DEF Connect
  <1>14. ASSUME NEW w \in Connections, InitReader(w) PROVE CrashOnlyAfterLoop'
    BY <1>14 DEF InitReader
  <1>15. ASSUME NEW w \in Connections, MakeConnection(w) PROVE CrashOnlyAfterLoop'
    BY <1>15 DEF MakeConnection
  <1>16. ASSUME NEW w \in Connections, Run(w) PROVE CrashOnlyAfterLoop'
    BY <1>16 DEF Run, Crash
  <1>17. ASSUME NEW w \in Connections, Close(w) PROVE CrashOnlyAfterLoop'
    BY <1>17 DEF Close, Crash
  <1> QED
    BY <1>1, <1>2, <1>3, <1>4, <1>5, <1>6, <1>7, <1>8, <1>9,
       <1>10, <1>11, <1>12, <1>13, <1>14, <1>15, <1>16, <1>17
       DEF Next, ServerStep, KernelStep, CloserStep, TaskStep

\* With one connection accepted, the loop's variable holds it.
LEMMA SoleSlotPreserved == IInv /\ Next => SlotHoldsSoleClient'
  <1> SUFFICES ASSUME IInv, Next PROVE SlotHoldsSoleClient'
    OBVIOUS
  <1> USE ServerAssumption DEF IInv, TypeOK, SlotHoldsSocket, SlotHoldsSoleClient
  <1>1. CASE start \/ SetSource
    BY <1>1 DEF start, SetSource
  <1>2. CASE LoadSource
    BY <1>2 DEF LoadSource, Crash
  <1>3. CASE AcceptCheck \/ InitSocketFails \/ AcceptEx \/ AcceptAborted
    BY <1>3 DEF AcceptCheck, InitSocketFails, AcceptEx, AcceptAborted, LeaveLoop, StartResult
  <1>4. CASE AcceptReturns
    BY <1>4 DEF AcceptReturns
  <1>5. CASE runAsync
    BY <1>5 DEF runAsync
  <1>6. CASE RunAsyncThrows \/ StackReused \/ StartAgain
    BY <1>6 DEF RunAsyncThrows, StackReused, StartAgain
  <1>7. CASE AcceptCompletes
    BY <1>7 DEF AcceptCompletes, Completes
  <1>8. CASE AcceptHungUp
    BY <1>8 DEF AcceptHungUp, LeaveLoop, StartResult
  <1>9. CASE OrphanCompletes
    BY <1>9 DEF OrphanCompletes, Crash
  <1>10. CASE shutdown
    BY <1>10 DEF shutdown
  <1>11. CASE ShutdownLoads
    BY <1>11 DEF ShutdownLoads, Crash
  <1>12. CASE CloseSocket \/ InvalidateSocket \/ ForgetSource
    BY <1>12 DEF CloseSocket, InvalidateSocket, ForgetSource
  <1>13. ASSUME NEW w \in Connections, Connect(w) PROVE SlotHoldsSoleClient'
    BY <1>13 DEF Connect
  <1>14. ASSUME NEW w \in Connections, InitReader(w) PROVE SlotHoldsSoleClient'
    BY <1>14 DEF InitReader
  <1>15. ASSUME NEW w \in Connections, MakeConnection(w) PROVE SlotHoldsSoleClient'
    BY <1>15 DEF MakeConnection
  <1>16. ASSUME NEW w \in Connections, Run(w) PROVE SlotHoldsSoleClient'
    BY <1>16 DEF Run, Crash
  <1>17. ASSUME NEW w \in Connections, Close(w) PROVE SlotHoldsSoleClient'
    BY <1>17 DEF Close, Crash
  <1> QED
    BY <1>1, <1>2, <1>3, <1>4, <1>5, <1>6, <1>7, <1>8, <1>9,
       <1>10, <1>11, <1>12, <1>13, <1>14, <1>15, <1>16, <1>17
       DEF Next, ServerStep, KernelStep, CloserStep, TaskStep

\* With one connection accepted, its callback serves it.
LEMMA SolePreserved == IInv /\ Next => SoleClientServed'
  <1> SUFFICES ASSUME IInv, Next PROVE SoleClientServed'
    OBVIOUS
  <1> USE ServerAssumption DEF IInv, TypeOK, SlotHoldsSoleClient, SoleClientServed
  <1>1. CASE start \/ SetSource
    BY <1>1 DEF start, SetSource
  <1>2. CASE LoadSource
    BY <1>2 DEF LoadSource, Crash
  <1>3. CASE AcceptCheck \/ InitSocketFails \/ AcceptEx \/ AcceptAborted
    BY <1>3 DEF AcceptCheck, InitSocketFails, AcceptEx, AcceptAborted, LeaveLoop, StartResult
  <1>4. CASE AcceptReturns
    BY <1>4 DEF AcceptReturns
  <1>5. CASE runAsync
    <2>1. acceptedSocket \in Connections /\ task'[acceptedSocket] = "queued"
      BY <1>5 DEF runAsync, SlotHoldsSocket
    <2> QED
      BY <2>1
  <1>6. CASE RunAsyncThrows \/ StackReused \/ StartAgain
    BY <1>6 DEF RunAsyncThrows, StackReused, StartAgain
  <1>7. CASE AcceptCompletes
    BY <1>7 DEF AcceptCompletes, Completes
  <1>8. CASE AcceptHungUp
    BY <1>8 DEF AcceptHungUp, LeaveLoop, StartResult
  <1>9. CASE OrphanCompletes
    BY <1>9 DEF OrphanCompletes, Crash
  <1>10. CASE shutdown
    BY <1>10 DEF shutdown
  <1>11. CASE ShutdownLoads
    BY <1>11 DEF ShutdownLoads, Crash
  <1>12. CASE CloseSocket \/ InvalidateSocket \/ ForgetSource
    BY <1>12 DEF CloseSocket, InvalidateSocket, ForgetSource
  <1>13. ASSUME NEW w \in Connections, Connect(w) PROVE SoleClientServed'
    BY <1>13 DEF Connect
  <1>14. ASSUME NEW w \in Connections, InitReader(w) PROVE SoleClientServed'
    BY <1>14 DEF InitReader
  <1>15. ASSUME NEW w \in Connections, MakeConnection(w) PROVE SoleClientServed'
    BY <1>15 DEF MakeConnection
  <1>16. ASSUME NEW w \in Connections, Run(w) PROVE SoleClientServed'
    BY <1>16 DEF Run, Crash
  <1>17. ASSUME NEW w \in Connections, Close(w) PROVE SoleClientServed'
    BY <1>17 DEF Close, Crash
  <1> QED
    BY <1>1, <1>2, <1>3, <1>4, <1>5, <1>6, <1>7, <1>8, <1>9,
       <1>10, <1>11, <1>12, <1>13, <1>14, <1>15, <1>16, <1>17
       DEF Next, ServerStep, KernelStep, CloserStep, TaskStep

\* The inductive invariant holds in every reachable state.
THEOREM Invariance == Spec => []IInv
  <1>1. IInv /\ [Next]_vars => IInv'
    <2> SUFFICES ASSUME IInv, [Next]_vars PROVE IInv'
      OBVIOUS
    <2>1. CASE Next
      BY <2>1, TypePreserved, ClosingPreserved, SlotPreserved, CrashPreserved, SoleSlotPreserved,
         SolePreserved DEF IInv
    <2>2. CASE UNCHANGED vars
      <3>0. FlagsOK'
        BY <2>2, Zenon DEF vars, IInv, TypeOK, FlagsOK
      <3>1. TypeOK'
        BY <2>2, <3>0 DEF vars, IInv, TypeOK
      <3>2. OkMeansClosed' /\ SourceForgottenWhenClosed' /\ CloserInOrder' /\ SourceSetInLoop'
        BY <2>2, Zenon DEF vars, IInv, OkMeansClosed, SourceForgottenWhenClosed, CloserInOrder,
           SourceSetInLoop, InLoop
      <3>3. SlotHoldsSocket' /\ CrashOnlyAfterLoop'
        BY <2>2, Zenon DEF vars, IInv, SlotHoldsSocket, Begun, CrashOnlyAfterLoop
      <3>4. SlotHoldsSoleClient' /\ SoleClientServed'
        BY <2>2 DEF vars, IInv, SlotHoldsSoleClient, SoleClientServed
      <3> QED
        BY <3>1, <3>2, <3>3, <3>4 DEF IInv
    <2> QED
      BY <2>1, <2>2
  <1> QED
    BY InitIInv, <1>1, PTL DEF Spec

\* Type correctness of the server, its callbacks and its shutdown.
THEOREM TypeCorrect == Spec => []TypeOK
  <1>1. IInv => TypeOK
    BY DEF IInv
  <1> QED
    BY Invariance, <1>1, PTL

\* start() returns Ok only when the listening socket has been closed.
THEOREM OkOnlyWhenClosed == Spec => []OkMeansClosed
  <1>1. IInv => OkMeansClosed
    BY DEF IInv
  <1> QED
    BY Invariance, <1>1, PTL

\* No interleaving of start() and shutdown() forgets a source that is not closed.
THEOREM ForgottenOnlyWhenClosed == Spec => []SourceForgottenWhenClosed
  <1>1. IInv => SourceForgottenWhenClosed
    BY DEF IInv
  <1> QED
    BY Invariance, <1>1, PTL

\* The accept loop and its callbacks are safe until a shutdown or the loop's end.
THEOREM SafeWhileLooping == Spec => []CrashOnlyAfterLoop
  <1>1. IInv => CrashOnlyAfterLoop
    BY DEF IInv
  <1> QED
    BY Invariance, <1>1, PTL

\* A lone client is served by a callback that reads from and writes to it.
THEOREM LoneClientServed == Spec => []SoleClientServed
  <1>1. IInv => SoleClientServed
    BY DEF IInv
  <1> QED
    BY Invariance, <1>1, PTL
=============================================================================
