------------------------------ MODULE WinSocket ------------------------------
(***************************************************************************)
(* A SocketImpl of the Windows build (SocketImpl_win.cpp), shared by the    *)
(* threads that call it.  accept, connect, readv and writev start an        *)
(* overlapped operation through an awaiter and block until the coroutine    *)
(* has been resumed: at once, if the operation completes at once, or by     *)
(* completionCallback on a thread of the pool.  A handle is a name that the *)
(* kernel gives to another socket once it is free.                          *)
(***************************************************************************)
EXTENDS Integers, FiniteSets

CONSTANTS
    Threads,    \* threads that call the socket
    Names,      \* values a SOCKET can have
    MaxObjs,    \* bound: kernel sockets made in a behaviour
    MaxCalls,   \* bound: calls made in a behaviour
    MaxRetries  \* bound: times a client hangs up on an accept

INVALID_SOCKET == "INVALID_SOCKET"

ASSUME WinSocketAssumption ==
    /\ IsFiniteSet(Threads) /\ INVALID_SOCKET \notin Names
    /\ MaxObjs \in Nat /\ MaxCalls \in Nat /\ MaxRetries \in Nat

Objs == 1..MaxObjs
NoObj == 0
IoOps == {"accept", "connect", "read", "write"}

VARIABLES
    socket,     \* member: the handle, or INVALID_SOCKET
    ptpIo,      \* member: the socket whose thread pool object this is
    localAddr,  \* member: TRUE when bind() has stored a local address
    names,      \* kernel: the socket each handle stands for
    kobj,       \* kernel: state of each socket
    started,    \* per pool object: StartThreadpoolIo calls not yet
                \* cancelled or used up by a callback
    op,         \* per thread: the call it is in
    stage,      \* per thread: how far the call has got
    handle,     \* per thread: the handle its operation was started on
    target,     \* per thread: the socket its operation is pending on
    prep,       \* per thread: the socket prepared for AcceptEx
    result,     \* per thread: what its last call returned, <<value, error>>
    accepted,   \* sockets accept has handed out
    orphans,    \* sockets with a pending operation without an awaiter
    calls,      \* calls made so far
    (* history *)
    outcome,    \* per thread: what the kernel made of its operation
    lost,       \* sockets prepared for an accept that handed none out
    hangUps,    \* clients that have hung up on an AcceptEx
    uncancelled,\* per pool object: AcceptEx calls repeated without a cancel
    unset,      \* per thread: setsockopt or getsockname failed after the success
    foreign,    \* an operation went to a socket of somebody else
    corrupt     \* a callback has used the memory of a finished awaiter

impl == <<socket, ptpIo, localAddr>>
kernel == <<names, kobj, started>>
call == <<op, stage, handle, target, prep, result>>
history == <<outcome, lost, hangUps, uncancelled, unset, foreign, corrupt>>
vars == <<impl, kernel, call, accepted, orphans, calls, history>>

-----------------------------------------------------------------------------
(* Errors of the kernel and what the library makes of them. *)

KernelErrors == {"WSAECONNREFUSED", "WSAECONNRESET", "WSAEINVAL", "WSAENOTCONN",
                 "WSAENOTSOCK", "ERROR_OPERATION_ABORTED", "WSAEMFILE", "WSA_IO_PENDING"}

RawError(err) == err

\* The error code reported for a kernel error; codes it does not list,
\* WSA_IO_PENDING among them, are Unknown.
getSocketError(err) ==
    CASE err = "WSAECONNREFUSED" -> "ConnectionRefused"
      [] err = "WSAECONNRESET" -> "ConnectionReset"
      [] err = "WSAEINVAL" -> "InvalidArgument"
      [] err = "WSAENOTCONN" -> "NotConnected"
      [] err = "WSAENOTSOCK" -> "InvalidHandle"
      [] err = "ERROR_OPERATION_ABORTED" -> "OperationAborted"
      [] err = "WSAEMFILE" -> "TooManyHandles"
      [] OTHER -> "Unknown"

SocketErrors == {"Ok", "NotInitialized", "InvalidState", "ConnectionRefused", "ConnectionReset",
                 "InvalidArgument", "NotConnected", "InvalidHandle", "OperationAborted",
                 "TooManyHandles", "Unknown"}

isAcceptExRetryError(err) == err = "WSAECONNRESET"

-----------------------------------------------------------------------------
(* The kernel. *)

Resolve(h) == IF h = INVALID_SOCKET THEN NoObj ELSE names[h]
Open(o) == o # NoObj /\ kobj[o] \notin {"unused", "closed"}
FreeNames == {h \in Names : names[h] = NoObj}
NextObj == {o \in Objs : kobj[o] = "unused" /\ \A p \in 1..(o - 1) : kobj[p] # "unused"}

\* The state an operation needs its socket to be in, and the error if it is not.
Ready(o, kind) ==
    CASE kind = "accept" -> kobj[o] = "listening"
      [] kind = "connect" -> kobj[o] = "bound"
      [] OTHER -> kobj[o] = "connected"

\* Errors a call of the kernel may end in at once.
ImmediateErrors(o, kind) ==
    IF ~Open(o) THEN {"WSAENOTSOCK"}
    ELSE IF ~Ready(o, kind) THEN {IF kind \in {"read", "write"} THEN "WSAENOTCONN" ELSE "WSAEINVAL"}
    ELSE IF kind = "connect" THEN {"WSAECONNREFUSED"} ELSE {"WSAECONNRESET"}

\* Errors an operation that was pending may end in.
PendingErrors(o, kind) ==
    IF ~Open(o) THEN {"ERROR_OPERATION_ABORTED"}
    ELSE IF kind = "connect" THEN {"WSAECONNREFUSED"} ELSE {"WSAECONNRESET"}

\* The sockets this SocketImpl, its calls and its callers answer for.
Own == {ptpIo} \cup accepted \cup {prep[t] : t \in Threads}

-----------------------------------------------------------------------------
(* initSocket: a socket with a pool object, or none at all.  Each of its   *)
(* four steps may fail; the three after the first close what was made.     *)

initSocketOk(h, o) ==
    /\ h \in FreeNames
    /\ o \in NextObj
    /\ names' = [names EXCEPT ![h] = o]
    /\ kobj' = [kobj EXCEPT ![o] = "fresh"]

initSocketFails == UNCHANGED <<names, kobj>>

-----------------------------------------------------------------------------
(* Calls that do not wait. *)

Begin(t) ==
    /\ stage[t] = "idle"
    /\ calls < MaxCalls
    /\ calls' = calls + 1

Return(t, o, r) ==
    /\ op' = [op EXCEPT ![t] = o]
    /\ result' = [result EXCEPT ![t] = <<0, r>>]
    /\ UNCHANGED <<stage, handle, target, prep>>

\* init without its check.
initUnchecked(t) ==
    /\ Begin(t)
    /\ \A u \in Threads : stage[u] = "idle"
    /\ \E h \in FreeNames, o \in NextObj :
          /\ initSocketOk(h, o)
          /\ socket' = h
          /\ ptpIo' = o
    /\ Return(t, "init", "Ok")
    /\ UNCHANGED <<localAddr, started, accepted, orphans, history>>

\* init: refused when there is a socket; makes one otherwise.  The owner
\* calls it while no other thread is in a call.
init(t) ==
    /\ Begin(t)
    /\ \A u \in Threads : stage[u] = "idle"
    /\ \/ /\ socket # INVALID_SOCKET
          /\ Return(t, "init", "InvalidState")
          /\ UNCHANGED <<names, kobj, socket, ptpIo>>
       \/ /\ socket = INVALID_SOCKET
          /\ \E h \in FreeNames, o \in NextObj :
                /\ initSocketOk(h, o)
                /\ socket' = h
                /\ ptpIo' = o
          /\ Return(t, "init", "Ok")
       \/ /\ socket = INVALID_SOCKET
          /\ initSocketFails
          /\ ptpIo' = NoObj
          /\ Return(t, "init", getSocketError("WSAEMFILE"))
          /\ UNCHANGED socket
    /\ UNCHANGED <<localAddr, started, accepted, orphans, history>>

\* bind: the address is stored once the kernel has bound the socket and
\* has been asked for the address.
bind(t) ==
    /\ Begin(t)
    /\ LET o == Resolve(socket) IN
       \/ /\ socket = INVALID_SOCKET
          /\ Return(t, "bind", "NotInitialized")
          /\ UNCHANGED <<kobj, localAddr>>
       \/ /\ socket # INVALID_SOCKET /\ ~(Open(o) /\ kobj[o] = "fresh")
          /\ Return(t, "bind", getSocketError(IF Open(o) THEN "WSAEINVAL" ELSE "WSAENOTSOCK"))
          /\ UNCHANGED <<kobj, localAddr>>
       \/ /\ Open(o) /\ kobj[o] = "fresh"
          /\ kobj' = [kobj EXCEPT ![o] = "bound"]
          /\ localAddr' = TRUE
          /\ Return(t, "bind", "Ok")
    /\ UNCHANGED <<socket, ptpIo, names, started, accepted, orphans, history>>

listen(t) ==
    /\ Begin(t)
    /\ LET o == Resolve(socket) IN
       \/ /\ socket = INVALID_SOCKET
          /\ Return(t, "listen", "NotInitialized")
          /\ UNCHANGED kobj
       \/ /\ socket # INVALID_SOCKET /\ ~(Open(o) /\ kobj[o] = "bound")
          /\ Return(t, "listen", getSocketError(IF Open(o) THEN "WSAEINVAL" ELSE "WSAENOTSOCK"))
          /\ UNCHANGED kobj
       \/ /\ Open(o) /\ kobj[o] = "bound"
          /\ kobj' = [kobj EXCEPT ![o] = "listening"]
          /\ Return(t, "listen", "Ok")
    /\ UNCHANGED <<impl, names, started, accepted, orphans, history>>

\* close: closesocket, which ends the pending operations, and then the
\* assignment of INVALID_SOCKET.  The pool object is kept.
closesocket(t) ==
    /\ Begin(t)
    /\ \/ /\ socket = INVALID_SOCKET
          /\ Return(t, "close", "Ok")
          /\ UNCHANGED <<names, kobj>>
       \/ /\ socket # INVALID_SOCKET
          /\ op' = [op EXCEPT ![t] = "close"]
          /\ stage' = [stage EXCEPT ![t] = "closing"]
          /\ LET o == Resolve(socket) IN
                /\ kobj' = IF o = NoObj THEN kobj ELSE [kobj EXCEPT ![o] = "closed"]
                /\ result' = [result EXCEPT ![t] = <<0, IF o = NoObj THEN getSocketError("WSAENOTSOCK") ELSE "Ok">>]
          /\ names' = [names EXCEPT ![socket] = NoObj]
          /\ UNCHANGED <<handle, target, prep>>
    /\ UNCHANGED <<impl, started, accepted, orphans, history>>

\* close without the assignment.
closeKeeps(t) ==
    /\ stage[t] = "closing"
    /\ stage' = [stage EXCEPT ![t] = "idle"]
    /\ UNCHANGED <<impl, kernel, op, handle, target, prep, result, accepted, orphans, calls, history>>

closeInvalidates(t) ==
    /\ stage[t] = "closing"
    /\ socket' = INVALID_SOCKET
    /\ stage' = [stage EXCEPT ![t] = "idle"]
    /\ UNCHANGED <<ptpIo, localAddr, kernel, op, handle, target, prep, result, accepted, orphans, calls, history>>

\* shutdownRead, shutdownWrite, setReadBuf and setWriteBuf: one call of the
\* kernel on the socket.
control(t) ==
    /\ Begin(t)
    /\ Return(t, "control", IF socket = INVALID_SOCKET THEN "NotInitialized"
                            ELSE IF ~Open(Resolve(socket)) THEN getSocketError("WSAENOTSOCK")
                            ELSE "Ok")
    /\ UNCHANGED <<impl, kernel, accepted, orphans, history>>

-----------------------------------------------------------------------------
(* Calls that wait: first the checks of the call itself. *)

Refused(t, kind, err) ==
    /\ Return(t, kind, err)
    /\ UNCHANGED <<names, kobj>>

Admitted(t, kind, prepared) ==
    /\ op' = [op EXCEPT ![t] = kind]
    /\ stage' = [stage EXCEPT ![t] = "admitted"]
    /\ prep' = [prep EXCEPT ![t] = prepared]
    /\ UNCHANGED <<handle, target, result>>

accept(t) ==
    /\ Begin(t)
    /\ \/ socket = INVALID_SOCKET /\ Refused(t, "accept", "NotInitialized")
       \/ /\ socket # INVALID_SOCKET /\ ~localAddr
          /\ Refused(t, "accept", "InvalidArgument")
       \/ /\ socket # INVALID_SOCKET /\ localAddr
          /\ initSocketFails
          /\ Return(t, "accept", getSocketError("WSAEMFILE"))
       \/ /\ socket # INVALID_SOCKET /\ localAddr
          /\ \E h \in FreeNames, o \in NextObj :
                initSocketOk(h, o) /\ Admitted(t, "accept", o)
    /\ UNCHANGED <<impl, started, accepted, orphans, history>>

\* ConnectEx needs a bound socket: connect binds it to any address first.
connect(t) ==
    /\ Begin(t)
    /\ LET o == Resolve(socket) IN
       \/ socket = INVALID_SOCKET /\ Refused(t, "connect", "NotInitialized")
       \/ /\ socket # INVALID_SOCKET /\ ~(Open(o) /\ kobj[o] = "fresh")
          /\ Refused(t, "connect", getSocketError(IF Open(o) THEN "WSAEINVAL" ELSE "WSAENOTSOCK"))
       \/ /\ Open(o) /\ kobj[o] = "fresh"
          /\ kobj' = [kobj EXCEPT ![o] = "bound"]
          /\ Admitted(t, "connect", NoObj)
          /\ UNCHANGED names
    /\ UNCHANGED <<impl, started, accepted, orphans, history>>

Transfer(t, kind) ==
    /\ Begin(t)
    /\ \/ socket = INVALID_SOCKET /\ Refused(t, kind, "NotInitialized")
       \/ /\ socket # INVALID_SOCKET
          /\ Admitted(t, kind, NoObj)
          /\ UNCHANGED <<names, kobj>>
    /\ UNCHANGED <<impl, started, accepted, orphans, history>>

readv(t) == Transfer(t, "read")
writev(t) == Transfer(t, "write")

-----------------------------------------------------------------------------
(* The awaiters. *)

NoCompletion == [bytes |-> 0, error |-> "ERROR_SUCCESS"]

\* ReadAwaiter::await_resume without the bytes of await_suspend.
ReadResumeLate(socketError, bytesXfer, completion) ==
    IF socketError # "Ok" THEN <<0, socketError>>
    ELSE IF completion.error # "ERROR_SUCCESS" THEN <<0, getSocketError(completion.error)>>
    ELSE <<completion.bytes, "Ok">>

\* AcceptAwaiter::await_resume without the error of the callback.
AcceptResumeBlind(socketError, completion, newSocket) ==
    IF socketError # "Ok" THEN <<NoObj, socketError>> ELSE <<newSocket, "Ok">>

\* await_resume of the four awaiters: what the call returns, from the error
\* and the bytes await_suspend has stored and the result the callback has.
ReadResume(socketError, bytesXfer, completion) ==
    IF socketError # "Ok" THEN <<0, socketError>>
    ELSE IF bytesXfer # 0 THEN <<bytesXfer, "Ok">>
    ELSE IF completion.error # "ERROR_SUCCESS" THEN <<0, getSocketError(completion.error)>>
    ELSE <<completion.bytes, "Ok">>

WriteResume(socketError, bytesXfer, completion) ==
    <<0, ReadResume(socketError, bytesXfer, completion)[2]>>

ConnectResume(socketError, completion) ==
    IF socketError # "Ok" THEN <<0, socketError>>
    ELSE IF completion.error # "ERROR_SUCCESS" THEN <<0, getSocketError(completion.error)>>
    ELSE <<0, "Ok">>

\* newSocket is what onAccept has made, NoObj if its setsockopt has failed.
AcceptResume(socketError, completion, newSocket) ==
    IF socketError # "Ok" THEN <<NoObj, socketError>>
    ELSE IF completion.error # "ERROR_SUCCESS" THEN <<NoObj, getSocketError(completion.error)>>
    ELSE <<newSocket, "Ok">>

Resume(t, socketError, bytesXfer, completion, newSocket) ==
    CASE op[t] = "read" -> ReadResume(socketError, bytesXfer, completion)
      [] op[t] = "write" -> WriteResume(socketError, bytesXfer, completion)
      [] op[t] = "connect" -> ConnectResume(socketError, completion)
      [] op[t] = "accept" -> AcceptResume(socketError, completion, newSocket)

\* The call returns r: what it prepared is handed out with r or is lost.
Finish(t, r) ==
    /\ result' = [result EXCEPT ![t] = r]
    /\ stage' = [stage EXCEPT ![t] = "idle"]
    /\ accepted' = IF op[t] = "accept" THEN accepted \cup ({r[1]} \ {NoObj}) ELSE accepted
    /\ lost' = IF op[t] = "accept" THEN lost \cup ({prep[t]} \ {r[1]}) ELSE lost
    /\ prep' = [prep EXCEPT ![t] = NoObj]
    /\ handle' = [handle EXCEPT ![t] = INVALID_SOCKET]
    /\ target' = [target EXCEPT ![t] = NoObj]

\* The kernel has carried out the operation of t on o.
Connected(t, o) ==
    kobj' = CASE op[t] = "connect" -> [kobj EXCEPT ![o] = "connected"]
              [] op[t] = "accept" -> [kobj EXCEPT ![prep[t]] = "connected"]
              [] OTHER -> kobj

StartThreadpoolIo(n) == [started EXCEPT ![ptpIo] = @ + n]

\* n + 1 operations announced and the last one cancelled; none cancelled.
NotCancelled(n) == StartThreadpoolIo(n + 1)
CancelThreadpoolIo(n) == StartThreadpoolIo(n)

\* acceptExWithRetry starts an operation for each AcceptEx and cancels the
\* last one only, so that n clients that hang up leave n of them behind.
acceptExWithRetry(n) ==
    /\ hangUps' = hangUps + n
    /\ uncancelled' = [uncancelled EXCEPT ![ptpIo] = @ + n]

HangUps(t) == IF op[t] = "accept" THEN 0..(MaxRetries - hangUps) ELSE {0}

\* await_suspend, when the operation completes at once: the awaiter cancels
\* what it has announced to the pool and resumes.  onAccept and onConnect run
\* here and again in await_resume; only a failure here is reported.
CompletesAtOnce(t) ==
    LET o == Resolve(socket) IN
    /\ stage[t] = "admitted"
    /\ Open(o) /\ Ready(o, op[t])
    /\ \E n \in HangUps(t), bytes \in (IF op[t] = "read" THEN 0..1 ELSE {1}), fails \in BOOLEAN :
          LET err == IF fails THEN "InvalidHandle" ELSE "Ok" IN
          /\ fails => op[t] \in {"accept", "connect"}
          /\ acceptExWithRetry(n)
          /\ started' = CancelThreadpoolIo(n)
          /\ outcome' = [outcome EXCEPT ![t] = [bytes |-> bytes, error |-> "ERROR_SUCCESS"]]
          /\ unset' = [unset EXCEPT ![t] = fails]
          /\ Finish(t, Resume(t, err, bytes, NoCompletion, prep[t]))
    /\ Connected(t, o)
    /\ foreign' = (foreign \/ o # ptpIo)
    /\ UNCHANGED <<impl, names, op, orphans, calls, corrupt>>

\* await_suspend, when the operation fails at once.
FailsAtOnce(t) ==
    LET o == Resolve(socket) IN
    /\ stage[t] = "admitted"
    /\ \E n \in HangUps(t), err \in ImmediateErrors(o, op[t]) :
          /\ ~(op[t] = "accept" /\ isAcceptExRetryError(err))
          /\ n > 0 => ~Open(o)    \* closed between two AcceptEx
          /\ acceptExWithRetry(n)
          /\ started' = CancelThreadpoolIo(n)
          /\ outcome' = [outcome EXCEPT ![t] = [bytes |-> 0, error |-> err]]
          /\ Finish(t, Resume(t, getSocketError(err), 0, NoCompletion, NoObj))
    /\ unset' = [unset EXCEPT ![t] = FALSE]
    /\ foreign' = (foreign \/ o \notin {ptpIo, NoObj})
    /\ UNCHANGED <<impl, names, kobj, op, orphans, calls, corrupt>>

\* await_suspend that takes a pending operation for one that has failed.
ResumesPending(t) ==
    LET o == Resolve(socket) IN
    /\ stage[t] = "admitted"
    /\ Open(o) /\ Ready(o, op[t])
    /\ started' = StartThreadpoolIo(1)
    /\ orphans' = orphans \cup {<<o, prep[t]>>}
    /\ Finish(t, Resume(t, getSocketError("WSA_IO_PENDING"), 0, NoCompletion, NoObj))
    /\ UNCHANGED <<impl, names, kobj, op, calls, outcome, hangUps, uncancelled, unset, foreign, corrupt>>

\* await_suspend, when the operation is pending: the coroutine is suspended.
Suspends(t) ==
    LET o == Resolve(socket) IN
    /\ stage[t] = "admitted"
    /\ Open(o) /\ Ready(o, op[t])
    /\ \E n \in HangUps(t) : acceptExWithRetry(n) /\ started' = StartThreadpoolIo(n + 1)
    /\ stage' = [stage EXCEPT ![t] = "pending"]
    /\ handle' = [handle EXCEPT ![t] = socket]
    /\ target' = [target EXCEPT ![t] = o]
    /\ foreign' = (foreign \/ o # ptpIo)
    /\ UNCHANGED <<impl, names, kobj, op, prep, result, accepted, orphans, calls, outcome, lost, unset, corrupt>>

\* The kernel ends a pending operation and queues its callback.
KernelCompletes(t) ==
    LET o == target[t] IN
    /\ stage[t] = "pending"
    /\ \/ /\ Open(o)
          /\ \E bytes \in (IF op[t] = "read" THEN 0..1 ELSE {1}) :
                outcome' = [outcome EXCEPT ![t] = [bytes |-> bytes, error |-> "ERROR_SUCCESS"]]
          /\ Connected(t, o)
          /\ UNCHANGED hangUps
       \/ /\ \E err \in PendingErrors(o, op[t]) :
                /\ outcome' = [outcome EXCEPT ![t] = [bytes |-> 0, error |-> err]]
                /\ hangUps' = hangUps + (IF op[t] = "accept" /\ isAcceptExRetryError(err) THEN 1 ELSE 0)
          /\ hangUps' <= MaxRetries
          /\ UNCHANGED kobj
    /\ stage' = [stage EXCEPT ![t] = "queued"]
    /\ UNCHANGED <<impl, names, started, op, handle, target, prep, result, accepted, orphans, calls,
                   lost, uncancelled, unset, foreign, corrupt>>

\* A callback that returns early for a socket that was closed.
completionIgnoresAbort(t) ==
    /\ stage[t] = "queued"
    /\ outcome[t].error \notin {"ERROR_OPERATION_ABORTED", "WSAECONNRESET"}
    /\ Finish(t, Resume(t, "Ok", 0, outcome[t], prep[t]))
    /\ started' = [started EXCEPT ![target[t]] = @ - 1]
    /\ UNCHANGED <<impl, names, kobj, op, orphans, calls, outcome, hangUps, uncancelled, unset, foreign, corrupt>>

\* completionCallback, but for the retry: the result of the kernel is stored
\* and the coroutine resumed.  A setsockopt of onAccept that fails here goes
\* unreported.
completionCallback(t) ==
    /\ stage[t] = "queued"
    /\ ~(op[t] = "accept" /\ isAcceptExRetryError(outcome[t].error))
    /\ \E fails \in BOOLEAN :
          /\ fails => op[t] \in {"accept", "connect"} /\ outcome[t].error = "ERROR_SUCCESS"
          /\ unset' = [unset EXCEPT ![t] = fails]
          /\ Finish(t, Resume(t, "Ok", 0, outcome[t], IF fails THEN NoObj ELSE prep[t]))
    /\ started' = [started EXCEPT ![target[t]] = @ - 1]
    /\ UNCHANGED <<impl, names, kobj, op, orphans, calls, outcome, hangUps, uncancelled, foreign, corrupt>>

\* completionCallback of an accept whose client has hung up: AcceptEx is
\* called again on the same handle, until no client hangs up on it, and what it
\* returns, WSA_IO_PENDING too, is the result the coroutine is resumed with.
handleCompletionRetries(t) ==
    LET o == Resolve(handle[t])
        spent == [started EXCEPT ![target[t]] = @ - 1] IN
    /\ stage[t] = "queued"
    /\ op[t] = "accept" /\ isAcceptExRetryError(outcome[t].error)
    /\ \E n \in HangUps(t) :
          /\ acceptExWithRetry(n)
          /\ \/ /\ Open(o) /\ Ready(o, "accept")
                /\ orphans' = orphans \cup {<<o, prep[t]>>}
                /\ started' = [spent EXCEPT ![ptpIo] = @ + (n + 1)]
                /\ Finish(t, Resume(t, "Ok", 0, [bytes |-> 0, error |-> "WSA_IO_PENDING"], NoObj))
                /\ UNCHANGED <<kobj, unset>>
             \/ /\ Open(o) /\ Ready(o, "accept")
                /\ Connected(t, o)
                /\ started' = [spent EXCEPT ![ptpIo] = @ + n]
                /\ \E fails \in BOOLEAN :
                      /\ unset' = [unset EXCEPT ![t] = fails]
                      /\ Finish(t, Resume(t, "Ok", 0, NoCompletion, IF fails THEN NoObj ELSE prep[t]))
                /\ UNCHANGED orphans
             \/ /\ ~(Open(o) /\ Ready(o, "accept"))
                /\ n > 0 => ~Open(o)
                /\ started' = [spent EXCEPT ![ptpIo] = @ + n]
                /\ \E err \in ImmediateErrors(o, "accept") :
                      Finish(t, Resume(t, "Ok", 0, [bytes |-> 0, error |-> err], NoObj))
                /\ UNCHANGED <<kobj, orphans, unset>>
    /\ foreign' = (foreign \/ o \notin {ptpIo, NoObj})
    /\ UNCHANGED <<impl, names, op, calls, outcome, corrupt>>

\* The operation a retry has left pending completes: its OVERLAPPED was in
\* the coroutine that has returned.
OrphanCompletes ==
    /\ \E p \in orphans :
          /\ orphans' = orphans \ {p}
          /\ started' = [started EXCEPT ![p[1]] = @ - 1]
    /\ corrupt' = TRUE
    /\ UNCHANGED <<impl, names, kobj, call, accepted, calls, outcome, lost, hangUps, uncancelled, unset, foreign>>

-----------------------------------------------------------------------------
(* SocketImpl::SocketImpl, and no socket in the kernel. *)
Init ==
    /\ socket = INVALID_SOCKET
    /\ ptpIo = NoObj
    /\ localAddr = FALSE
    /\ names = [h \in Names |-> NoObj]
    /\ kobj = [o \in Objs |-> "unused"]
    /\ started = [o \in Objs |-> 0]
    /\ op = [t \in Threads |-> "none"]
    /\ stage = [t \in Threads |-> "idle"]
    /\ handle = [t \in Threads |-> INVALID_SOCKET]
    /\ target = [t \in Threads |-> NoObj]
    /\ prep = [t \in Threads |-> NoObj]
    /\ result = [t \in Threads |-> <<0, "Ok">>]
    /\ accepted = {}
    /\ orphans = {}
    /\ calls = 0
    /\ outcome = [t \in Threads |-> NoCompletion]
    /\ lost = {}
    /\ hangUps = 0
    /\ uncancelled = [o \in Objs |-> 0]
    /\ unset = [t \in Threads |-> FALSE]
    /\ foreign = FALSE
    /\ corrupt = FALSE

Call(t) == init(t) \/ bind(t) \/ listen(t) \/ closesocket(t) \/ control(t)
           \/ accept(t) \/ connect(t) \/ readv(t) \/ writev(t)

await_suspend(t) == CompletesAtOnce(t) \/ FailsAtOnce(t) \/ Suspends(t)

Callback(t) == completionCallback(t) \/ handleCompletionRetries(t)

Next ==
    \/ \E t \in Threads : Call(t) \/ closeInvalidates(t) \/ await_suspend(t)
                          \/ KernelCompletes(t) \/ Callback(t)
    \/ OrphanCompletes

\* A thread in a call goes on, a queued callback runs, and the kernel ends
\* the operations of a socket that is closed; nothing makes a peer act.
Fairness ==
    \A t \in Threads :
        /\ WF_vars(closeInvalidates(t))
        /\ WF_vars(await_suspend(t))
        /\ WF_vars(~Open(target[t]) /\ KernelCompletes(t))
        /\ WF_vars(Callback(t))

Spec == Init /\ [][Next]_vars /\ Fairness

-----------------------------------------------------------------------------
Results == (0..MaxObjs) \X SocketErrors

\* Every variable keeps its type: a result is a SocketError of the library,
\* never a code of the kernel.
TypeOK ==
    /\ socket \in Names \cup {INVALID_SOCKET}
    /\ ptpIo \in Objs \cup {NoObj}
    /\ localAddr \in BOOLEAN
    /\ names \in [Names -> Objs \cup {NoObj}]
    /\ kobj \in [Objs -> {"unused", "fresh", "bound", "listening", "connected", "closed"}]
    /\ started \in [Objs -> Int]
    /\ op \in [Threads -> IoOps \cup {"none", "init", "bind", "listen", "close", "control"}]
    /\ stage \in [Threads -> {"idle", "closing", "admitted", "pending", "queued"}]
    /\ handle \in [Threads -> Names \cup {INVALID_SOCKET}]
    /\ target \in [Threads -> Objs \cup {NoObj}]
    /\ prep \in [Threads -> Objs \cup {NoObj}]
    /\ result \in [Threads -> Results]
    /\ accepted \subseteq Objs /\ lost \subseteq Objs
    /\ orphans \subseteq Objs \X (Objs \cup {NoObj})
    /\ calls \in 0..MaxCalls
    /\ outcome \in [Threads -> [bytes : 0..1, error : KernelErrors \cup {"ERROR_SUCCESS"}]]
    /\ hangUps \in 0..MaxRetries
    /\ uncancelled \in [Objs -> 0..MaxRetries]
    /\ unset \in [Threads -> BOOLEAN]
    /\ foreign \in BOOLEAN /\ corrupt \in BOOLEAN

Pending(o) == {t \in Threads : stage[t] \in {"pending", "queued"} /\ target[t] = o}

\* Each StartThreadpoolIo is matched: by an operation the kernel still owes a
\* callback for, or else by a cancel.  Only acceptExWithRetry leaves some
\* behind, one for each client that hung up on an immediate AcceptEx.
PoolBalanced ==
    ~foreign => \A o \in Objs :
        started[o] = Cardinality(Pending(o)) + Cardinality({p \in orphans : p[1] = o}) + uncancelled[o]

\* What read and write return is what the kernel made of the operation,
\* whether it completed inside await_suspend or in a callback, and with
\* zero bytes (the end of the stream) too.
TransferAsKernel ==
    \A t \in Threads :
        op[t] \in {"read", "write"} /\ stage[t] = "idle" /\ result[t][2] # "NotInitialized" =>
            IF outcome[t].error = "ERROR_SUCCESS"
            THEN result[t] = <<IF op[t] = "read" THEN outcome[t].bytes ELSE 0, "Ok">>
            ELSE result[t] = <<0, getSocketError(outcome[t].error)>>

\* An accept that returns Ok hands out a socket, unless its setsockopt failed
\* in await_resume: then there is none.  The socket stays connected whatever
\* the threads call on their own, until one of them has reached a stranger's.
OkAcceptHasSocket ==
    \A t \in Threads :
        op[t] = "accept" /\ stage[t] = "idle" /\ result[t][2] = "Ok" /\ ~unset[t] =>
            /\ result[t][1] \in accepted \ lost
            /\ ~foreign => kobj[result[t][1]] = "connected"

\* An open socket is that of the SocketImpl, one that was handed out or one
\* prepared for an accept in progress; the only sockets nobody can close are
\* those of accepts that returned an error or no socket.
OpenSocketsHeld ==
    \A o \in Objs : Open(o) =>
        \/ o = Resolve(socket)
        \/ o \in accepted \cup lost \cup {prep[t] : t \in Threads}

\* What the calls have taken from the kernel and the pool is accounted for, in
\* whatever order the threads close, accept and complete.
Accounted == TypeOK /\ PoolBalanced /\ OpenSocketsHeld

\* A call returns what the kernel made of its operation: the bytes, the error
\* or a connected socket.
ResultsAsKernel == TransferAsKernel /\ OkAcceptHasSocket

\* A callback finds the awaiter of its operation alive, unless an accept was
\* retried from a callback (the retry resumes a coroutine it still needs).
CallbackFindsAwaiter == corrupt \/ orphans # {} => hangUps > 0

\* An operation is started on the socket of this SocketImpl: the handle is
\* that of another one only if it was read during a close, or was kept for
\* the retry of an accept.
ForeignOnlyInClose ==
    [][foreign' # foreign => (\E t \in Threads : stage[t] = "closing") \/ hangUps > 0]_vars

\* A call that waits on a socket that has been closed returns.
CloseEndsCalls ==
    \A t \in Threads : stage[t] = "pending" /\ ~Open(target[t]) ~> stage[t] = "idle"
=============================================================================
