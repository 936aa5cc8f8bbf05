----------------------------- MODULE HttpServer -----------------------------
(***************************************************************************)
(* src/src/http/HttpServer.cpp with the accepting half of                  *)
(* SocketImpl_win.cpp below it: one thread inside start(), another that    *)
(* calls shutdown(), one thread-pool callback per accepted connection, and *)
(* the kernel's completions.  A step ends where another thread can see or  *)
(* change what the code uses next: the members `streamSource' and          *)
(* `socket', and the loop's local `acceptedSocket', which every callback   *)
(* captures by reference.                                                  *)
(***************************************************************************)
EXTENDS Naturals, FiniteSets

CONSTANTS
    Connections,    \* the connections clients open
    MaxShutdowns,   \* how often shutdown is called, the destructor included
    Hangups,        \* whether clients may hang up before they are accepted
    Failures        \* whether the kernel may run out of sockets or memory

ASSUME ServerAssumption ==
    /\ MaxShutdowns \in Nat
    /\ Hangups \in BOOLEAN /\ Failures \in BOOLEAN
    /\ Connections \cap {"null", "garbage"} = {}

VARIABLES
    started,
    streamSource,   \* the member: "garbage" until start() sets it, "source", "null"
    handle,         \* the listening SOCKET: "open", "closed", or INVALID_SOCKET
    backlog,        \* connections the kernel has not handed to AcceptEx
    server,         \* where the thread in start() is
    result,         \* what start() returned
    accepted,       \* the connection of a completed AcceptEx
    orphaned,       \* an AcceptEx is pending whose OVERLAPPED is gone
    acceptedSocket, \* the loop's variable, and its stack slot after the loop
    closer,         \* where the thread in shutdown() is
    shutdowns,      \* how many calls of shutdown have begun
    task,           \* where the callback made for a connection is
    reader, conn,   \* the sockets its BufferedReader and HttpConnection got
    open,           \* accepted connections that are not closed
    crashed         \* the process went through a bad pointer

listenVars == <<handle, backlog, accepted, orphaned>>
serverVars == <<started, streamSource, server, result, acceptedSocket>>
closerVars == <<closer, shutdowns>>
taskVars == <<task, reader, conn, open>>
vars == <<started, streamSource, handle, backlog, server, result, accepted,
          orphaned, acceptedSocket, closer, shutdowns, task, reader, conn, open, crashed>>

SlotValues == Connections \cup {"null", "garbage"}
NoConnection == "null"

Init ==
    /\ started = FALSE
    /\ streamSource = "garbage"
    /\ handle = "open"
    /\ backlog = {}
    /\ server = "idle" /\ result = "none"
    /\ accepted = NoConnection
    /\ orphaned = FALSE
    /\ acceptedSocket = "garbage"
    /\ closer = "idle" /\ shutdowns = 0
    /\ task = [c \in Connections |-> "none"]
    /\ reader = [c \in Connections |-> "garbage"]
    /\ conn = [c \in Connections |-> "garbage"]
    /\ open = {}
    /\ crashed = FALSE

Crash == crashed' = TRUE

-----------------------------------------------------------------------------
(* The thread in start()                                                   *)

start ==
    /\ server = "idle"
    /\ started' = TRUE
    /\ server' = "started"
    /\ UNCHANGED <<streamSource, result, acceptedSocket, listenVars, closerVars, taskVars, crashed>>

SetSource ==
    /\ server = "started"
    /\ streamSource' = "source"
    /\ server' = "loop"
    /\ UNCHANGED <<started, result, acceptedSocket, listenVars, closerVars, taskVars, crashed>>

\* streamSource->accept(): the member is loaded anew in every round.
LoadSource ==
    /\ server = "loop"
    /\ IF streamSource = "source"
         THEN server' = "accept" /\ UNCHANGED crashed
         ELSE Crash /\ UNCHANGED server
    /\ UNCHANGED <<started, streamSource, result, acceptedSocket, listenVars, closerVars, taskVars>>

\* accept returns a null pointer and the error e, and start() returns r.
LeaveLoop(r) ==
    /\ server' = "returned"
    /\ result' = r
    /\ acceptedSocket' = "null"

\* Mutant: an error of a listening socket ends the loop like its closing.
ClosedForAnyError(e) == "Ok"

\* What a SocketError of accept becomes in StreamSourceSocket and acceptLoop.
StartResult(e) == IF e \in {"InvalidHandle", "OperationAborted"} THEN "Ok" ELSE "IoError"

\* SocketImpl::accept looks whether its socket is INVALID_SOCKET ...
AcceptCheck ==
    /\ server = "accept"
    /\ IF handle = "INVALID"
         THEN LeaveLoop(StartResult("NotInitialized"))
         ELSE server' = "acceptEx" /\ UNCHANGED <<result, acceptedSocket>>
    /\ UNCHANGED <<started, streamSource, listenVars, closerVars, taskVars, crashed>>

\* ... and prepares a socket for the connection, which may fail ...
InitSocketFails ==
    /\ Failures
    /\ server = "acceptEx"
    /\ LeaveLoop(StartResult("TooManyHandles"))
    /\ UNCHANGED <<started, streamSource, listenVars, closerVars, taskVars, crashed>>

\* ... before AcceptEx uses the handle.
AcceptEx ==
    /\ server = "acceptEx"
    /\ IF handle = "open"
         THEN server' = "pending" /\ UNCHANGED <<result, acceptedSocket>>
         ELSE LeaveLoop(StartResult("InvalidHandle"))
    /\ UNCHANGED <<started, streamSource, listenVars, closerVars, taskVars, crashed>>

\* The kernel completes a pending AcceptEx with a connection.
Completes(c) ==
    /\ backlog' = backlog \ {c}
    /\ accepted' = c
    /\ open' = open \cup {c}
    /\ server' = "completed"
    /\ UNCHANGED <<result, acceptedSocket, orphaned>>

AcceptCompletes ==
    /\ server = "pending"
    /\ handle = "open"
    /\ \E c \in backlog : Completes(c)
    /\ UNCHANGED <<started, streamSource, handle, closerVars, task, reader, conn, crashed>>

\* It completes with ERROR_NETNAME_DELETED when the client has hung up, and the
\* completion callback calls AcceptEx again.  If that succeeds at once, its
\* connection is accepted; otherwise WSA_IO_PENDING is the error that accept
\* returns, while the AcceptEx stays pending.
AcceptHungUp ==
    /\ Hangups
    /\ server = "pending"
    /\ handle = "open"
    /\ \E c \in backlog :
         \/ \E d \in backlog \ {c} :
              /\ backlog' = backlog \ {c, d}
              /\ accepted' = d
              /\ open' = open \cup {d}
              /\ server' = "completed"
              /\ UNCHANGED <<result, acceptedSocket, orphaned>>
         \/ /\ backlog' = backlog \ {c}
            /\ orphaned' = TRUE
            /\ LeaveLoop(StartResult("Unknown"))
            /\ UNCHANGED <<accepted, open>>
    /\ UNCHANGED <<started, streamSource, handle, closerVars, task, reader, conn, crashed>>

\* closesocket aborts the pending AcceptEx.
AcceptAborted ==
    /\ server = "pending"
    /\ handle # "open"
    /\ LeaveLoop(StartResult("OperationAborted"))
    /\ UNCHANGED <<started, streamSource, listenVars, closerVars, taskVars, crashed>>

\* The pending AcceptEx that the retry left behind completes into freed memory.
OrphanCompletes ==
    /\ orphaned
    /\ backlog # {} \/ handle # "open"
    /\ Crash
    /\ UNCHANGED <<serverVars, listenVars, closerVars, taskVars>>

AcceptReturns ==
    /\ server = "completed"
    /\ acceptedSocket' = accepted
    /\ accepted' = NoConnection
    /\ server' = "dispatch"
    /\ UNCHANGED <<started, streamSource, result, handle, backlog, orphaned, closerVars, taskVars, crashed>>

\* Mutant: the loop's variable is cleared before the next accept.
runAsyncThenCleared ==
    /\ server = "dispatch"
    /\ task' = [task EXCEPT ![acceptedSocket] = "queued"]
    /\ server' = "loop"
    /\ acceptedSocket' = "null"
    /\ UNCHANGED <<started, streamSource, result, listenVars, closerVars, reader, conn, open, crashed>>

runAsync ==
    /\ server = "dispatch"
    /\ task' = [task EXCEPT ![acceptedSocket] = "queued"]
    /\ server' = "loop"
    /\ UNCHANGED <<started, streamSource, result, acceptedSocket, listenVars, closerVars,
                   reader, conn, open, crashed>>

\* CreateThreadpoolWork fails: bad_alloc leaves acceptLoop and start.
RunAsyncThrows ==
    /\ Failures
    /\ server = "dispatch"
    /\ server' = "returned"
    /\ result' = "bad_alloc"
    /\ UNCHANGED <<started, streamSource, acceptedSocket, listenVars, closerVars, taskVars, crashed>>

\* The stack frame of acceptLoop is gone and its slot used for something else.
StackReused ==
    /\ server = "returned"
    /\ acceptedSocket # "garbage"
    /\ acceptedSocket' = "garbage"
    /\ UNCHANGED <<started, streamSource, server, result, listenVars, closerVars, taskVars, crashed>>

\* start() of a server that was started before.
StartAgain ==
    /\ server = "returned"
    /\ result # "InvalidState"
    /\ started
    /\ result' = "InvalidState"
    /\ UNCHANGED <<started, streamSource, server, acceptedSocket, listenVars, closerVars, taskVars, crashed>>

-----------------------------------------------------------------------------
(* The callback made for connection w.  Each of its three uses of          *)
(* `acceptedSocket' reads the loop's variable.                             *)

InitReader(w) ==
    /\ task[w] = "queued"
    /\ reader' = [reader EXCEPT ![w] = acceptedSocket]
    /\ task' = [task EXCEPT ![w] = "reader"]
    /\ UNCHANGED <<serverVars, listenVars, closerVars, conn, open, crashed>>

MakeConnection(w) ==
    /\ task[w] = "reader"
    /\ conn' = [conn EXCEPT ![w] = acceptedSocket]
    /\ task' = [task EXCEPT ![w] = "running"]
    /\ UNCHANGED <<serverVars, listenVars, closerVars, reader, open, crashed>>

\* run() reads through the reader first, and writes through the connection
\* unless the client sends nothing.
Run(w) ==
    /\ task[w] = "running"
    /\ \/ /\ reader[w] \in Connections
          /\ task' = [task EXCEPT ![w] = "closing"]
          /\ UNCHANGED crashed
       \/ /\ reader[w] \notin Connections \/ conn[w] \notin Connections
          /\ Crash
          /\ UNCHANGED task
    /\ UNCHANGED <<serverVars, listenVars, closerVars, reader, conn, open>>

Close(w) ==
    /\ task[w] = "closing"
    /\ IF acceptedSocket \in Connections
         THEN /\ open' = open \ {acceptedSocket}
              /\ task' = [task EXCEPT ![w] = "done"]
              /\ UNCHANGED crashed
         ELSE Crash /\ UNCHANGED <<task, open>>
    /\ UNCHANGED <<serverVars, listenVars, closerVars, reader, conn>>

-----------------------------------------------------------------------------
(* The thread in shutdown()                                                *)

shutdown ==
    /\ closer = "idle"
    /\ shutdowns < MaxShutdowns
    /\ shutdowns' = shutdowns + 1
    /\ closer' = IF started THEN "load" ELSE "idle"
    /\ UNCHANGED <<serverVars, listenVars, taskVars, crashed>>

\* The member may not have been set yet; then it may happen to be null.
ShutdownLoads ==
    /\ closer = "load"
    /\ \/ streamSource = "source" /\ closer' = "close" /\ UNCHANGED crashed
       \/ streamSource \in {"null", "garbage"} /\ closer' = "idle" /\ UNCHANGED crashed
       \/ streamSource = "garbage" /\ Crash /\ UNCHANGED closer
    /\ UNCHANGED <<serverVars, listenVars, shutdowns, taskVars>>

\* Mutant: the source is forgotten without being closed.
CloseSkipped ==
    /\ closer = "close"
    /\ closer' = "forget"
    /\ UNCHANGED <<serverVars, listenVars, shutdowns, taskVars, crashed>>

CloseSocket ==
    /\ closer = "close"
    /\ IF handle = "INVALID"
         THEN closer' = "forget" /\ UNCHANGED handle
         ELSE closer' = "invalidate" /\ handle' = "closed"
    /\ UNCHANGED <<serverVars, backlog, accepted, orphaned, shutdowns, taskVars, crashed>>

InvalidateSocket ==
    /\ closer = "invalidate"
    /\ closer' = "forget"
    /\ handle' = "INVALID"
    /\ UNCHANGED <<serverVars, backlog, accepted, orphaned, shutdowns, taskVars, crashed>>

ForgetSource ==
    /\ closer = "forget"
    /\ closer' = "idle"
    /\ streamSource' = "null"
    /\ UNCHANGED <<started, server, result, acceptedSocket, listenVars, shutdowns, taskVars, crashed>>

-----------------------------------------------------------------------------
\* A client connects; one that hung up before it was accepted may try again.
Connect(c) ==
    /\ c \notin backlog \cup open \cup {accepted}
    /\ task[c] = "none" /\ c # acceptedSocket
    /\ handle = "open"
    /\ backlog' = backlog \cup {c}
    /\ UNCHANGED <<serverVars, handle, accepted, orphaned, closerVars, taskVars, crashed>>

ServerStep ==
    \/ start \/ SetSource \/ LoadSource \/ AcceptCheck \/ InitSocketFails \/ AcceptEx
    \/ AcceptReturns \/ runAsync \/ RunAsyncThrows \/ StackReused \/ StartAgain
KernelStep == AcceptCompletes \/ AcceptHungUp \/ AcceptAborted \/ OrphanCompletes
TaskStep(w) == InitReader(w) \/ MakeConnection(w) \/ Run(w) \/ Close(w)
CloserStep == ShutdownLoads \/ CloseSocket \/ InvalidateSocket \/ ForgetSource

Next ==
    /\ ~crashed
    /\ \/ ServerStep \/ KernelStep \/ shutdown \/ CloserStep
       \/ \E c \in Connections : TaskStep(c) \/ Connect(c)

Spec == Init /\ [][Next]_vars

\* Threads run, and the kernel completes an AcceptEx that can be completed.
\* Nobody has to connect or to call shutdown.
FairSpec ==
    /\ Spec
    /\ WF_vars(~crashed /\ ServerStep)
    /\ WF_vars(~crashed /\ KernelStep)
    /\ WF_vars(~crashed /\ CloserStep)
    /\ \A w \in Connections : WF_vars(~crashed /\ TaskStep(w))

-----------------------------------------------------------------------------
FlagsOK == started \in BOOLEAN /\ orphaned \in BOOLEAN /\ crashed \in BOOLEAN

\* The variables have their types; in particular every error of an accept is one
\* that start() can return.
TypeOK ==
    /\ FlagsOK
    /\ streamSource \in {"garbage", "source", "null"}
    /\ handle \in {"open", "closed", "INVALID"}
    /\ backlog \subseteq Connections /\ open \subseteq Connections
    /\ server \in {"idle", "started", "loop", "accept", "acceptEx", "pending",
                   "completed", "dispatch", "returned"}
    /\ result \in {"none", "Ok", "IoError", "InvalidState", "bad_alloc"}
    /\ accepted \in Connections \cup {NoConnection}
    /\ acceptedSocket \in SlotValues
    /\ closer \in {"idle", "load", "close", "invalidate", "forget"}
    /\ shutdowns \in 0 .. MaxShutdowns
    /\ task \in [Connections -> {"none", "queued", "reader", "running", "closing", "done"}]
    /\ reader \in [Connections -> SlotValues] /\ conn \in [Connections -> SlotValues]

\* start() reports a clean end only when the listening socket has been closed,
\* whatever its accepts failed with.
OkMeansClosed == result = "Ok" => handle # "open"

\* shutdown() forgets the source only when its socket is closed for good: no
\* interleaving leaves a listening socket that nobody can close any more.
SourceForgottenWhenClosed == streamSource = "null" => handle = "INVALID"

\* As long as the accept loop runs and nobody shuts the server down, no thread
\* goes through a bad pointer, for all that the callbacks share a variable.
CrashOnlyAfterLoop == crashed => shutdowns > 0 \/ server = "returned"

\* The callback of the only connection accepted so far reads from and writes to
\* that connection: what a server that is tested with one client relies on.
SoleClientServed ==
    \A w \in Connections :
        /\ task[w] \in {"reader", "running", "closing"}
        /\ \A c \in Connections \ {w} : task[c] = "none"
        /\ server \notin {"dispatch", "returned"}
        => /\ reader[w] = w
           /\ task[w] # "reader" => conn[w] = w

\* A callback answers the client whose request it reads.
AnswersGoToAsker ==
    \A w \in Connections : task[w] \in {"running", "closing"} => conn[w] = reader[w]

\* A shutdown that finds the source ends the accept loop, even one that waits
\* for a connection: start() returns, or dies of the pointer set to null.
ShutdownStopsServer == closer = "close" ~> server = "returned" \/ crashed

-----------------------------------------------------------------------------
(* Why the invariants hold.                                                *)

InLoop == server \notin {"idle", "started", "returned"}
Begun(w) == task[w] \in {"reader", "running", "closing"}

CloserInOrder ==
    /\ closer = "invalidate" => handle # "open"
    /\ closer = "forget" => handle = "INVALID"
    /\ closer # "idle" => shutdowns > 0

SourceSetInLoop ==
    /\ streamSource = "null" => shutdowns > 0
    /\ InLoop => streamSource # "garbage"

\* While the loop runs, whatever a callback reads from its variable is a socket.
SlotHoldsSocket ==
    /\ server = "completed" => accepted \in Connections
    /\ server = "dispatch" => acceptedSocket \in Connections
    /\ orphaned => server = "returned"
    /\ server # "returned" =>
         \A w \in Connections :
            /\ task[w] # "none" => acceptedSocket \in Connections
            /\ Begun(w) => reader[w] \in Connections
            /\ task[w] \in {"running", "closing"} => conn[w] \in Connections

SlotHoldsSoleClient ==
    \A w \in Connections :
        /\ task[w] # "none"
        /\ \A c \in Connections \ {w} : task[c] = "none"
        /\ server \notin {"dispatch", "returned"}
        => acceptedSocket = w

IInv ==
    /\ TypeOK /\ OkMeansClosed /\ SourceForgottenWhenClosed /\ CloserInOrder
    /\ SourceSetInLoop /\ SlotHoldsSocket /\ CrashOnlyAfterLoop
    /\ SlotHoldsSoleClient /\ SoleClientServed
=============================================================================
