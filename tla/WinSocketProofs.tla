-------------------------- MODULE WinSocketProofs --------------------------
(***************************************************************************)
(* The theorems about WinSocket, for any number of threads, handles, calls *)
(* and retries.  The sockets are told apart: the one of this SocketImpl,   *)
(* those prepared for accepts in progress, those handed out and those that *)
(* nobody has got; what the pool is owed follows from where the calls are. *)
(***************************************************************************)
EXTENDS WinSocket, FiniteSetTheorems, TLAPS

Active(t) == stage[t] \in {"admitted", "pending", "queued"}
Waiting(t) == stage[t] \in {"pending", "queued"}
Closing == \E t \in Threads : stage[t] = "closing"

\* Parts of the type invariant: the kernel's sockets, and the calls.
KernelTyped ==
    /\ names \in [Names -> Objs \cup {NoObj}]
    /\ kobj \in [Objs -> {"unused", "fresh", "bound", "listening", "connected", "closed"}]

CallsTyped ==
    /\ op \in [Threads -> IoOps \cup {"none", "init", "bind", "listen", "close", "control"}]
    /\ stage \in [Threads -> {"idle", "closing", "admitted", "pending", "queued"}]
    /\ handle \in [Threads -> Names \cup {INVALID_SOCKET}]
    /\ target \in [Threads -> Objs \cup {NoObj}]
    /\ prep \in [Threads -> Objs \cup {NoObj}]
    /\ result \in [Threads -> Results]

\* Until somebody closes it, the handle stands for the socket that init has made.
OwnSocket ==
    /\ socket # INVALID_SOCKET => ptpIo # NoObj
    /\ socket # INVALID_SOCKET /\ ~Closing => Resolve(socket) = ptpIo
    /\ ptpIo # NoObj => kobj[ptpIo] # "unused"

\* Who waits, waits in one of the four operations for a socket that there is,
\* and only close closes.
Operating ==
    \A t \in Threads :
        /\ Active(t) => op[t] \in IoOps
        /\ Waiting(t) => target[t] \in Objs
        /\ stage[t] = "closing" => op[t] = "close"

\* A prepared socket belongs to one accept in progress and to nobody else.
Prepared ==
    /\ \A t \in Threads : prep[t] # NoObj <=> Active(t) /\ op[t] = "accept"
    /\ \A t \in Threads : prep[t] # NoObj =>
         kobj[prep[t]] # "unused" /\ prep[t] \notin accepted \cup lost /\ prep[t] # ptpIo
    /\ \A t, u \in Threads : t # u /\ prep[t] # NoObj => prep[t] # prep[u]

\* A socket is handed out or lost, and not both.
HandedOut ==
    /\ accepted \cap lost = {}
    /\ \A o \in accepted \cup lost : kobj[o] # "unused"

\* What the retries of AcceptEx leave behind.
Retried ==
    /\ \A o \in Objs : uncancelled[o] <= hangUps
    /\ \A p \in orphans : p[2] \in lost
    /\ \A t \in Threads :
         stage[t] = "queued" /\ op[t] = "accept" /\ isAcceptExRetryError(outcome[t].error) => hangUps > 0

\* During a close the handle may stand for a socket that somebody else has got.
ClosingHeld ==
    Closing /\ Open(Resolve(socket)) => Resolve(socket) \in accepted \cup lost \cup {prep[t] : t \in Threads}

\* Nothing happens to a socket that is handed out, or will be, as long as nobody
\* has reached a stranger's.
ConnectedKept ==
    ~foreign =>
        /\ \A o \in accepted : kobj[o] = "connected" /\ o # Resolve(socket)
        /\ \A t \in Threads : Waiting(t) /\ op[t] = "accept" =>
             /\ prep[t] # Resolve(socket)
             /\ stage[t] = "queued" /\ outcome[t].error = "ERROR_SUCCESS" => kobj[prep[t]] = "connected"

\* The socket that an accept has returned was handed out.
OkIsHandedOut ==
    \A t \in Threads :
        op[t] = "accept" /\ stage[t] = "idle" /\ result[t][2] = "Ok" /\ ~unset[t] => result[t][1] \in accepted \ lost

IInv ==
    /\ TypeOK /\ OwnSocket /\ Operating /\ Prepared /\ HandedOut /\ Retried
    /\ ClosingHeld /\ ConnectedKept /\ OkIsHandedOut /\ PoolBalanced /\ OpenSocketsHeld
    /\ TransferAsKernel /\ CallbackFindsAwaiter

-----------------------------------------------------------------------------
\* NoObj is no socket.
LEMMA NoObjIsNone == NoObj \notin Objs
  BY WinSocketAssumption DEF NoObj, Objs

\* There are finitely many sockets, and an orphan is a pair of two of them.
LEMMA Finite ==
  /\ IsFiniteSet(Objs)
  /\ TypeOK => IsFiniteSet(orphans)
  <1>1. IsFiniteSet(Objs)
    BY FS_Interval, WinSocketAssumption DEF Objs
  <1>2. IsFiniteSet(Objs \cup {NoObj})
    BY <1>1, FS_AddElement
  <1>3. IsFiniteSet(Objs \X (Objs \cup {NoObj}))
    BY <1>1, <1>2, FS_Product
  <1> QED
    BY <1>1, <1>3, FS_Subset DEF TypeOK

\* What the library reports is one of its errors, and never Ok.
LEMMA ErrorReported ==
  ASSUME NEW err
  PROVE  /\ getSocketError(err) \in SocketErrors
         /\ getSocketError(err) # "Ok"
         /\ getSocketError(err) # "NotInitialized"
  <1>1. getSocketError(err) \in {"ConnectionRefused", "ConnectionReset", "InvalidArgument", "NotConnected",
                                 "InvalidHandle", "OperationAborted", "TooManyHandles", "Unknown"}
    BY Zenon DEF getSocketError
  <1> QED
    BY <1>1 DEF SocketErrors

\* The awaiter that resumes is the one of the operation.
LEMMA ResumeIs ==
  ASSUME NEW t, NEW err, NEW bytes, NEW completion, NEW sock
  PROVE  /\ op[t] = "read" => Resume(t, err, bytes, completion, sock) = ReadResume(err, bytes, completion)
         /\ op[t] = "write" => Resume(t, err, bytes, completion, sock) = WriteResume(err, bytes, completion)
         /\ op[t] = "connect" => Resume(t, err, bytes, completion, sock) = ConnectResume(err, completion)
         /\ op[t] = "accept" => Resume(t, err, bytes, completion, sock) = AcceptResume(err, completion, sock)
  BY Zenon DEF Resume

\* What an operation that is carried out changes: the socket it connects.
LEMMA ConnectedIs ==
  ASSUME NEW t, NEW o, Connected(t, o)
  PROVE  /\ op[t] \in {"read", "write"} => kobj' = kobj
         /\ op[t] = "connect" => kobj' = [kobj EXCEPT ![o] = "connected"]
         /\ op[t] = "accept" => kobj' = [kobj EXCEPT ![prep[t]] = "connected"]
  BY Zenon DEF Connected

\* A handle stands for a socket or for none.
LEMMA ResolveTyped ==
  ASSUME TypeOK
  PROVE  /\ Resolve(socket) \in Objs \cup {NoObj}
         /\ \A t \in Threads : Resolve(handle[t]) \in Objs \cup {NoObj}
         /\ Open(Resolve(socket)) => Resolve(socket) \in Objs
  BY WinSocketAssumption DEF TypeOK, Resolve, Open

\* The errors of the kernel.
LEMMA ErrorsTyped ==
  ASSUME NEW o, NEW kind
  PROVE  /\ ImmediateErrors(o, kind) \subseteq KernelErrors
         /\ PendingErrors(o, kind) \subseteq KernelErrors
         /\ "ERROR_SUCCESS" \notin KernelErrors
  BY DEF ImmediateErrors, PendingErrors, KernelErrors

\* The call of t ends with r: what follows for every way in which it may.
Ends(t, r) ==
    /\ Active(t) /\ Finish(t, r) /\ r \in Results
    /\ op[t] = "accept" => r[1] \in {NoObj, prep[t]}
    /\ op[t] = "accept" /\ r[2] = "Ok" /\ ~unset'[t] => r[1] = prep[t]
    /\ op[t] = "accept" /\ r[1] # NoObj =>
         \/ stage[t] = "queued" /\ outcome[t].error = "ERROR_SUCCESS"
         \/ kobj' = [kobj EXCEPT ![prep[t]] = "connected"]
    /\ op[t] \in {"read", "write"} =>
         r = IF outcome'[t].error = "ERROR_SUCCESS"
               THEN <<IF op[t] = "read" THEN outcome'[t].bytes ELSE 0, "Ok">>
               ELSE <<0, getSocketError(outcome'[t].error)>>
    /\ \A u \in Threads : u # t => outcome'[u] = outcome[u] /\ unset'[u] = unset[u]
    /\ outcome' \in [Threads -> [bytes : 0..1, error : KernelErrors \cup {"ERROR_SUCCESS"}]]
    /\ unset' \in [Threads -> BOOLEAN]
    /\ UNCHANGED <<impl, names, op, calls>>

\* ... when the operation completes inside await_suspend,
LEMMA AtOnceEnds ==
  ASSUME TypeOK, Operating, NEW t \in Threads, CompletesAtOnce(t)
  PROVE  \E r : Ends(t, r)
  <1>1. PICK n \in HangUps(t), bytes \in (IF op[t] = "read" THEN 0..1 ELSE {1}), fails \in BOOLEAN :
          /\ fails => op[t] \in {"accept", "connect"}
          /\ outcome' = [outcome EXCEPT ![t] = [bytes |-> bytes, error |-> "ERROR_SUCCESS"]]
          /\ unset' = [unset EXCEPT ![t] = fails]
          /\ Finish(t, Resume(t, IF fails THEN "InvalidHandle" ELSE "Ok", bytes, NoCompletion, prep[t]))
    BY DEF CompletesAtOnce
  <1> DEFINE err == IF fails THEN "InvalidHandle" ELSE "Ok"
  <1> DEFINE r == Resume(t, err, bytes, NoCompletion, prep[t])
  <1>2. Active(t) /\ op[t] \in IoOps /\ UNCHANGED <<impl, names, op, calls>>
    BY DEF CompletesAtOnce, Active, Operating
  <1>3. bytes \in 0..1 /\ (op[t] = "write" => bytes = 1)
    BY <1>1
  <1>4. unset' \in [Threads -> BOOLEAN] /\ (unset'[t] <=> fails)
    BY <1>1, Zenon DEF TypeOK
  <1>5. /\ outcome' \in [Threads -> [bytes : 0..1, error : KernelErrors \cup {"ERROR_SUCCESS"}]]
        /\ outcome'[t].bytes = bytes /\ outcome'[t].error = "ERROR_SUCCESS"
        /\ \A u \in Threads : u # t => outcome'[u] = outcome[u] /\ unset'[u] = unset[u]
    BY <1>1, <1>3 DEF TypeOK
  <1>6. prep[t] \in 0..MaxObjs /\ 0..1 \subseteq 0..MaxObjs
    <2>1. Open(Resolve(socket))
      BY DEF CompletesAtOnce
    <2>2. Objs # {}
      BY <2>1, ResolveTyped
    <2> QED
      BY <2>2, WinSocketAssumption DEF TypeOK, Objs, NoObj
  <1> USE DEF ReadResume, WriteResume, ConnectResume, AcceptResume, NoCompletion, Results, SocketErrors, NoObj
  <1>7. /\ r \in Results
        /\ op[t] = "accept" => r[1] \in {NoObj, prep[t]}
        /\ op[t] = "accept" /\ r[2] = "Ok" /\ ~unset'[t] => r[1] = prep[t]
        /\ op[t] \in {"read", "write"} => r = <<IF op[t] = "read" THEN bytes ELSE 0, "Ok">>
    <2>1. CASE op[t] = "read"
      <3>1. r = ReadResume("Ok", bytes, NoCompletion)
        BY <1>1, <2>1, ResumeIs
      <3> QED  BY <2>1, <3>1, <1>3, <1>6
    <2>2. CASE op[t] = "write"
      <3>1. r = WriteResume("Ok", bytes, NoCompletion)
        BY <1>1, <2>2, ResumeIs
      <3> QED  BY <2>2, <3>1, <1>3, <1>6
    <2>3. CASE op[t] = "connect"
      <3>1. r = ConnectResume(err, NoCompletion)
        BY <2>3, ResumeIs
      <3> QED  BY <2>3, <3>1, <1>6
    <2>4. CASE op[t] = "accept"
      <3>1. r = AcceptResume(err, NoCompletion, prep[t])
        BY <2>4, ResumeIs
      <3> QED  BY <2>4, <3>1, <1>6
    <2> QED
      BY <1>2, <2>1, <2>2, <2>3, <2>4 DEF IoOps
  <1> HIDE DEF r
  <1>8. op[t] = "accept" => kobj' = [kobj EXCEPT ![prep[t]] = "connected"]
    BY ConnectedIs DEF CompletesAtOnce
  <1>9. Ends(t, r)
    BY <1>1, <1>2, <1>4, <1>5, <1>7, <1>8, Zenon DEF Ends, r, err
  <1> QED
    BY <1>9

\* ... when it fails there,
LEMMA FailureEnds ==
  ASSUME TypeOK, Operating, NEW t \in Threads, FailsAtOnce(t)
  PROVE  \E r : Ends(t, r)
  <1>1. PICK n \in HangUps(t), err \in ImmediateErrors(Resolve(socket), op[t]) :
          /\ outcome' = [outcome EXCEPT ![t] = [bytes |-> 0, error |-> err]]
          /\ Finish(t, Resume(t, getSocketError(err), 0, NoCompletion, NoObj))
    BY DEF FailsAtOnce
  <1> DEFINE r == Resume(t, getSocketError(err), 0, NoCompletion, NoObj)
  <1>2. Active(t) /\ op[t] \in IoOps /\ UNCHANGED <<impl, names, op, calls>>
    BY DEF FailsAtOnce, Active, Operating
  <1>3. err \in KernelErrors /\ err # "ERROR_SUCCESS"
    BY <1>1, ErrorsTyped
  <1>4. unset' = [unset EXCEPT ![t] = FALSE]
    BY DEF FailsAtOnce
  <1>5. unset' \in [Threads -> BOOLEAN] /\ \A u \in Threads : u # t => unset'[u] = unset[u]
    BY <1>4 DEF TypeOK
  <1>6. /\ outcome' \in [Threads -> [bytes : 0..1, error : KernelErrors \cup {"ERROR_SUCCESS"}]]
        /\ outcome'[t].error = err
        /\ \A u \in Threads : u # t => outcome'[u] = outcome[u]
    BY <1>1, <1>3 DEF TypeOK
  <1>7. r = <<0, getSocketError(err)>>
    BY <1>2, ResumeIs, ErrorReported DEF IoOps, ReadResume, WriteResume, ConnectResume, AcceptResume, NoObj
  <1>8. r \in Results /\ r[1] = NoObj /\ r[2] # "Ok"
    BY <1>7, ErrorReported, WinSocketAssumption DEF Results, NoObj
  <1> HIDE DEF r
  <1>9. Finish(t, r)
    BY <1>1 DEF r
  <1>10. Ends(t, r)
    BY <1>2, <1>3, <1>5, <1>6, <1>7, <1>8, <1>9 DEF Ends
  <1> QED
    BY <1>10

\* ... when its callback resumes the coroutine,
LEMMA CallbackEnds ==
  ASSUME TypeOK, Operating, NEW t \in Threads, completionCallback(t)
  PROVE  \E r : Ends(t, r)
  <1>1. PICK fails \in BOOLEAN :
          /\ unset' = [unset EXCEPT ![t] = fails]
          /\ Finish(t, Resume(t, "Ok", 0, outcome[t], IF fails THEN NoObj ELSE prep[t]))
    BY DEF completionCallback
  <1> DEFINE made == IF fails THEN NoObj ELSE prep[t]
  <1> DEFINE r == Resume(t, "Ok", 0, outcome[t], made)
  <1>2. Active(t) /\ op[t] \in IoOps /\ UNCHANGED <<impl, names, op, calls, outcome>>
    BY DEF completionCallback, Active, Operating
  <1>3. unset' \in [Threads -> BOOLEAN] /\ (unset'[t] <=> fails) /\ \A u \in Threads : u # t => unset'[u] = unset[u]
    BY <1>1, Zenon DEF TypeOK
  <1>4. outcome[t].bytes \in 0..1 /\ target[t] \in Objs /\ prep[t] \in 0..MaxObjs
    BY WinSocketAssumption DEF completionCallback, TypeOK, Operating, Waiting, Objs, NoObj
  <1>5. 0..1 \subseteq 0..MaxObjs
    BY <1>4, WinSocketAssumption DEF Objs
  <1> USE ErrorReported DEF ReadResume, WriteResume, ConnectResume, AcceptResume, Results, NoObj
  <1>6. /\ r \in Results
        /\ op[t] = "accept" => r[1] \in {NoObj, prep[t]}
        /\ op[t] = "accept" /\ r[2] = "Ok" /\ ~unset'[t] => r[1] = prep[t]
        /\ op[t] = "accept" /\ r[1] # NoObj => outcome[t].error = "ERROR_SUCCESS"
        /\ op[t] \in {"read", "write"} =>
             r = IF outcome[t].error = "ERROR_SUCCESS"
                   THEN <<IF op[t] = "read" THEN outcome[t].bytes ELSE 0, "Ok">>
                   ELSE <<0, getSocketError(outcome[t].error)>>
    <2>1. CASE op[t] = "read"
      <3>1. r = ReadResume("Ok", 0, outcome[t])
        BY <2>1, ResumeIs
      <3> QED  BY <2>1, <3>1, <1>4, <1>5 DEF SocketErrors
    <2>2. CASE op[t] = "write"
      <3>1. r = WriteResume("Ok", 0, outcome[t])
        BY <2>2, ResumeIs
      <3> QED  BY <2>2, <3>1, <1>4, <1>5 DEF SocketErrors
    <2>3. CASE op[t] = "connect"
      <3>1. r = ConnectResume("Ok", outcome[t])
        BY <2>3, ResumeIs
      <3> QED  BY <2>3, <3>1, <1>4, <1>5 DEF SocketErrors
    <2>4. CASE op[t] = "accept"
      <3>1. r = AcceptResume("Ok", outcome[t], made)
        BY <2>4, ResumeIs
      <3> QED  BY <2>4, <3>1, <1>3, <1>4, <1>5 DEF SocketErrors
    <2> QED
      BY <1>2, <2>1, <2>2, <2>3, <2>4 DEF IoOps
  <1> HIDE DEF r
  <1>7. Finish(t, r)
    BY <1>1 DEF r
  <1>8. stage[t] = "queued"
    BY DEF completionCallback
  <1>9. Ends(t, r)
    BY <1>2, <1>3, <1>6, <1>7, <1>8 DEF Ends, TypeOK
  <1> QED
    BY <1>9

\* ... and when its AcceptEx is called again.
LEMMA RetryEnds ==
  ASSUME TypeOK, Operating, NEW t \in Threads, handleCompletionRetries(t)
  PROVE  \E r : Ends(t, r)
  <1>1. Active(t) /\ op[t] = "accept" /\ UNCHANGED <<impl, names, op, calls, outcome>>
    BY DEF handleCompletionRetries, Active
  <1>2. prep[t] \in 0..MaxObjs /\ 0 \in 0..MaxObjs
    BY WinSocketAssumption DEF TypeOK, Objs, NoObj
  <1>3. ASSUME NEW err, err # "ERROR_SUCCESS", UNCHANGED unset,
               Finish(t, Resume(t, "Ok", 0, [bytes |-> 0, error |-> err], NoObj))
        PROVE  \E r : Ends(t, r)
    <2> DEFINE r == <<0, getSocketError(err)>>
    <2>1. Finish(t, r)
      BY <1>1, <1>3, ResumeIs DEF AcceptResume, NoObj
    <2>2. r \in Results /\ r[1] = NoObj /\ r[2] # "Ok"
      BY <1>2, ErrorReported DEF Results, NoObj
    <2> HIDE DEF r
    <2>3. Ends(t, r)
      BY <1>1, <1>3, <2>1, <2>2 DEF Ends, TypeOK
    <2> QED
      BY <2>3
  <1>4. ASSUME NEW fails \in BOOLEAN, unset' = [unset EXCEPT ![t] = fails], Connected(t, Resolve(handle[t])),
               Finish(t, Resume(t, "Ok", 0, NoCompletion, IF fails THEN NoObj ELSE prep[t]))
        PROVE  \E r : Ends(t, r)
    <2> DEFINE made == IF fails THEN NoObj ELSE prep[t]
    <2> DEFINE r == <<made, "Ok">>
    <2>1. Finish(t, r)
      BY <1>1, <1>4, ResumeIs DEF AcceptResume, NoCompletion
    <2>2. unset' \in [Threads -> BOOLEAN] /\ (unset'[t] <=> fails) /\ \A u \in Threads : u # t => unset'[u] = unset[u]
      BY <1>4, Zenon DEF TypeOK
    <2>3. r \in Results /\ r[1] = made /\ made \in {NoObj, prep[t]} /\ (~fails => made = prep[t])
      BY <1>2 DEF Results, SocketErrors, NoObj
    <2> HIDE DEF r, made
    <2>4. Ends(t, r)
      BY <1>1, <1>4, <2>1, <2>2, <2>3, ConnectedIs DEF Ends, TypeOK
    <2> QED
      BY <2>4
  <1>5. \A err \in ImmediateErrors(Resolve(handle[t]), "accept") : err # "ERROR_SUCCESS"
    BY ErrorsTyped
  <1> QED
    BY <1>3, <1>4, <1>5 DEF handleCompletionRetries

-----------------------------------------------------------------------------
\* The count of one pool object moves and the others stay.
LEMMA StartedMoves ==
  ASSUME TypeOK, NEW o, NEW n \in Int, started' = [started EXCEPT ![o] = started[o] + n]
  PROVE  /\ started' \in [Objs -> Int]
         /\ \A p \in Objs : started'[p] = started[p] + (IF p = o THEN n ELSE 0)
  <1>1. started \in [Objs -> Int]
    BY DEF TypeOK
  <1>2. \A p \in Objs : started'[p] = started[p] + (IF p = o THEN n ELSE 0)
    BY <1>1
  <1>3. \A p \in Objs : started'[p] \in Int
    BY <1>1, <1>2
  <1>4. started' = [p \in Objs |-> started'[p]]
    BY <1>1
  <1> QED
    BY <1>2, <1>3, <1>4

\* The operations an AcceptEx may have left uncancelled are within the bound.
LEMMA HangUpsTyped ==
  ASSUME TypeOK, Retried, NEW t \in Threads, NEW n \in HangUps(t), acceptExWithRetry(n)
  PROVE  /\ n \in Nat /\ hangUps' \in 0..MaxRetries /\ hangUps' >= hangUps
         /\ uncancelled' \in [Objs -> 0..MaxRetries]
         /\ \A o \in Objs : uncancelled'[o] = uncancelled[o] + (IF o = ptpIo THEN n ELSE 0)
         /\ \A o \in Objs : uncancelled'[o] <= hangUps'
  <1>1. n \in Nat /\ hangUps' = hangUps + n /\ hangUps' \in 0..MaxRetries /\ hangUps' >= hangUps
    BY WinSocketAssumption DEF HangUps, acceptExWithRetry, TypeOK
  <1>2. \A o \in Objs : uncancelled'[o] = uncancelled[o] + (IF o = ptpIo THEN n ELSE 0)
    BY <1>1 DEF acceptExWithRetry, TypeOK
  <1>3. \A o \in Objs : uncancelled'[o] \in 0..MaxRetries /\ uncancelled'[o] <= hangUps'
    BY <1>1, <1>2, WinSocketAssumption DEF Retried, TypeOK
  <1>4. uncancelled' \in [Objs -> 0..MaxRetries]
    BY <1>3 DEF acceptExWithRetry, TypeOK
  <1> QED
    BY <1>1, <1>2, <1>3, <1>4

\* A retry announces each AcceptEx of it, and may cancel the last one.
LEMMA RetryCounts ==
  ASSUME TypeOK, Operating, Retried, NEW t \in Threads, handleCompletionRetries(t)
  PROVE  \E n \in HangUps(t), k \in Int :
           /\ acceptExWithRetry(n)
           /\ k = n \/ k = n + 1
           /\ started' = [[started EXCEPT ![target[t]] = @ - 1] EXCEPT ![ptpIo] = @ + k]
           /\ \/ k = n /\ UNCHANGED orphans
              \/ /\ k = n + 1 /\ Open(Resolve(handle[t]))
                 /\ orphans' = orphans \cup {<<Resolve(handle[t]), prep[t]>>}
  <1>1. PICK n \in HangUps(t) :
          /\ acceptExWithRetry(n)
          /\ \/ /\ started' = [[started EXCEPT ![target[t]] = @ - 1] EXCEPT ![ptpIo] = @ + n]
                /\ UNCHANGED orphans
             \/ /\ started' = [[started EXCEPT ![target[t]] = @ - 1] EXCEPT ![ptpIo] = @ + (n + 1)]
                /\ Open(Resolve(handle[t]))
                /\ orphans' = orphans \cup {<<Resolve(handle[t]), prep[t]>>}
    BY Zenon DEF handleCompletionRetries
  <1>2. n \in Int /\ n + 1 \in Int
    BY <1>1, HangUpsTyped
  <1> QED
    BY <1>1, <1>2

\* What the end of a call changes keeps its type.
LEMMA EndsTyped ==
  ASSUME TypeOK, NEW t \in Threads, NEW r, Ends(t, r)
  PROVE  /\ stage' = [stage EXCEPT ![t] = "idle"] /\ stage'[t] = "idle"
         /\ stage' \in [Threads -> {"idle", "closing", "admitted", "pending", "queued"}]
         /\ handle' \in [Threads -> Names \cup {INVALID_SOCKET}]
         /\ target' \in [Threads -> Objs \cup {NoObj}]
         /\ prep' \in [Threads -> Objs \cup {NoObj}]
         /\ result' \in [Threads -> Results]
         /\ accepted' \subseteq Objs
         /\ op[t] = "accept" /\ prep[t] # NoObj => lost' \subseteq Objs
         /\ op[t] # "accept" => lost' = lost
  BY DEF TypeOK, Ends, Finish

\* A call that returns at once keeps the types, ...
LEMMA ReturnTyped ==
  ASSUME TypeOK, NEW t \in Threads, NEW r \in SocketErrors,
         NEW o \in IoOps \cup {"none", "init", "bind", "listen", "close", "control"}, Return(t, o, r)
  PROVE  CallsTyped'
  <1>1. <<0, r>> \in Results
    BY WinSocketAssumption DEF Results
  <1> QED
    BY <1>1 DEF TypeOK, Return, CallsTyped

\* ... and so does one that is admitted.
LEMMA AdmittedTyped ==
  ASSUME TypeOK, NEW t \in Threads, NEW kind \in IoOps, NEW o \in Objs \cup {NoObj}, Admitted(t, kind, o)
  PROVE  CallsTyped'
  BY DEF TypeOK, Admitted, CallsTyped

\* A new socket is one that was not there.
LEMMA SocketMade ==
  ASSUME TypeOK, NEW h, NEW o, initSocketOk(h, o)
  PROVE  /\ h \in Names /\ h # INVALID_SOCKET /\ o \in Objs /\ names[h] = NoObj /\ kobj[o] = "unused"
         /\ names' = [names EXCEPT ![h] = o] /\ names'[h] = o
         /\ kobj' = [kobj EXCEPT ![o] = "fresh"] /\ kobj'[o] = "fresh"
         /\ KernelTyped'
  BY WinSocketAssumption DEF TypeOK, KernelTyped, initSocketOk, FreeNames, NextObj

\* A socket that is connected was there.
LEMMA ConnectedTyped ==
  ASSUME TypeOK, Operating, Prepared, NEW t \in Threads, NEW o, Active(t), Connected(t, o)
  PROVE  /\ kobj' \in [Objs -> {"unused", "fresh", "bound", "listening", "connected", "closed"}]
         /\ \A p \in Objs : kobj'[p] # kobj[p] =>
              kobj'[p] = "connected" /\ p = IF op[t] = "accept" THEN prep[t] ELSE o
         /\ op[t] = "accept" => prep[t] \in Objs /\ kobj'[prep[t]] = "connected"
  <1>1. op[t] \in IoOps /\ kobj \in [Objs -> {"unused", "fresh", "bound", "listening", "connected", "closed"}]
    BY DEF TypeOK, Operating
  <1>2. CASE op[t] \in {"read", "write"}
    BY <1>1, <1>2, ConnectedIs
  <1>3. CASE op[t] = "connect"
    BY <1>1, <1>3, ConnectedIs
  <1>4. CASE op[t] = "accept"
    <2>1. prep[t] \in Objs
      BY <1>4 DEF Prepared, TypeOK
    <2>2. kobj' = [kobj EXCEPT ![prep[t]] = "connected"]
      BY <1>4, ConnectedIs
    <2> QED
      BY <1>1, <1>4, <2>1, <2>2
  <1> QED
    BY <1>1, <1>2, <1>3, <1>4 DEF IoOps

\* The variables keep their types.
LEMMA TypeKept ==
  ASSUME TypeOK, OwnSocket, Operating, Prepared, Retried, [Next]_vars
  PROVE  TypeOK'
  <1> USE DEF impl, kernel, call, history
  <1>1. CASE UNCHANGED vars
    BY <1>1 DEF TypeOK, vars
  <1>2. ASSUME NEW t \in Threads, Call(t) PROVE TypeOK'
    <2>1. UNCHANGED <<started, accepted, orphans, history>> /\ calls' \in 0..MaxCalls
      BY <1>2, WinSocketAssumption DEF Call, init, bind, listen, closesocket, control, accept, connect, readv, writev, Transfer, Begin, TypeOK
    <2>2. socket' \in Names \cup {INVALID_SOCKET} /\ ptpIo' \in Objs \cup {NoObj} /\ localAddr' \in BOOLEAN
      <3>1. CASE init(t)
        BY <3>1, SocketMade DEF init, TypeOK
      <3>2. CASE ~init(t)
        BY <1>2, <3>2 DEF Call, bind, listen, closesocket, control, accept, connect, readv, writev, Transfer, TypeOK
      <3> QED  BY <3>1, <3>2
    <2>3. KernelTyped'
      <3>1. CASE init(t) \/ accept(t)
        BY <3>1, SocketMade DEF init, accept, Refused, initSocketFails, TypeOK, KernelTyped
      <3>2. CASE bind(t) \/ listen(t)
        BY <3>2 DEF bind, listen, TypeOK, KernelTyped
      <3>3. CASE closesocket(t)
        BY <3>3 DEF closesocket, TypeOK, KernelTyped
      <3>4. CASE control(t) \/ readv(t) \/ writev(t)
        BY <3>4 DEF control, readv, writev, Transfer, Refused, TypeOK, KernelTyped
      <3>5. CASE connect(t)
        BY <3>5 DEF connect, Refused, TypeOK, KernelTyped
      <3> QED  BY <1>2, <3>1, <3>2, <3>3, <3>4, <3>5 DEF Call
    <2>4. CallsTyped'
      <3> USE ErrorReported, ReturnTyped DEF SocketErrors, IoOps
      <3>1. CASE init(t)
        BY <3>1 DEF init
      <3>2. CASE bind(t)
        BY <3>2 DEF bind
      <3>3. CASE listen(t)
        BY <3>3 DEF listen
      <3>4. CASE closesocket(t)
        <4>1. \A err \in SocketErrors : <<0, err>> \in Results
          BY WinSocketAssumption DEF Results
        <4>2. <<0, getSocketError("WSAENOTSOCK")>> \in Results /\ <<0, "Ok">> \in Results
          BY <4>1
        <4>3. CASE socket = INVALID_SOCKET
          BY <3>4, <4>3 DEF closesocket
        <4>4. CASE socket # INVALID_SOCKET
          <5>1. result' \in [Threads -> Results]
            BY <3>4, <4>2, <4>4 DEF closesocket, TypeOK
          <5>2. UNCHANGED <<handle, target, prep>> /\ op' = [op EXCEPT ![t] = "close"] /\ stage' = [stage EXCEPT ![t] = "closing"]
            BY <3>4, <4>4 DEF closesocket
          <5> QED
            BY <5>1, <5>2 DEF CallsTyped, TypeOK
        <4> QED
          BY <4>3, <4>4
      <3>5. CASE control(t)
        BY <3>5 DEF control
      <3>6. CASE accept(t)
        BY <3>6, SocketMade, AdmittedTyped DEF accept, Refused
      <3>7. CASE connect(t)
        BY <3>7, AdmittedTyped DEF connect, Refused
      <3>8. CASE readv(t) \/ writev(t)
        BY <3>8, AdmittedTyped DEF readv, writev, Transfer, Refused
      <3> QED
        BY <1>2, <3>1, <3>2, <3>3, <3>4, <3>5, <3>6, <3>7, <3>8 DEF Call
    <2> QED
      BY <2>1, <2>2, <2>3, <2>4 DEF TypeOK, KernelTyped, CallsTyped
  <1>3. ASSUME NEW t \in Threads, closeInvalidates(t) PROVE TypeOK'
    BY <1>3 DEF TypeOK, closeInvalidates
  <1>4. ASSUME NEW t \in Threads, NEW r, Ends(t, r), KernelTyped', started' \in [Objs -> Int],
               orphans' \subseteq Objs \X (Objs \cup {NoObj}), foreign' \in BOOLEAN, UNCHANGED corrupt,
               hangUps' \in 0..MaxRetries, uncancelled' \in [Objs -> 0..MaxRetries]
        PROVE  TypeOK'
    <2>1. op[t] = "accept" => prep[t] # NoObj
      BY <1>4 DEF Ends, Prepared
    <2>2. CallsTyped' /\ accepted' \subseteq Objs /\ lost' \subseteq Objs
      BY <1>4, <2>1, EndsTyped DEF Ends, TypeOK, CallsTyped
    <2> QED
      BY <1>4, <2>2 DEF Ends, TypeOK, KernelTyped, CallsTyped
  <1>5. foreign' \in BOOLEAN
    <2>1. CASE UNCHANGED foreign
      BY <2>1 DEF TypeOK
    <2>2. ASSUME NEW t \in Threads, await_suspend(t) \/ handleCompletionRetries(t) PROVE foreign' \in BOOLEAN
      BY <2>2, Zenon DEF await_suspend, CompletesAtOnce, FailsAtOnce, Suspends, handleCompletionRetries
    <2> QED
      BY <2>1, <2>2 DEF Next, vars, Call, init, bind, listen, closesocket, control, accept, connect, readv, writev,
                    Transfer, closeInvalidates, KernelCompletes, Callback, completionCallback, OrphanCompletes
  <1>6. ASSUME NEW t \in Threads, CompletesAtOnce(t) PROVE TypeOK'
    <2>1. PICK n \in HangUps(t) : acceptExWithRetry(n) /\ started' = CancelThreadpoolIo(n)
      BY <1>6 DEF CompletesAtOnce
    <2>2. started' \in [Objs -> Int] /\ hangUps' \in 0..MaxRetries /\ uncancelled' \in [Objs -> 0..MaxRetries]
      <3>1. n \in Nat /\ hangUps' \in 0..MaxRetries /\ uncancelled' \in [Objs -> 0..MaxRetries]
        BY <2>1, HangUpsTyped
      <3>2. started' = [started EXCEPT ![ptpIo] = started[ptpIo] + n] /\ n \in Int
        BY <2>1, <3>1 DEF CancelThreadpoolIo, StartThreadpoolIo
      <3>3. started' \in [Objs -> Int]
        BY <3>2, StartedMoves
      <3> QED
        BY <3>1, <3>3
    <2>3. KernelTyped'
      BY <1>6, ConnectedTyped DEF CompletesAtOnce, Active, KernelTyped, TypeOK
    <2>4. UNCHANGED <<orphans, corrupt>>
      BY <1>6 DEF CompletesAtOnce
    <2>5. orphans' \subseteq Objs \X (Objs \cup {NoObj})
      BY <2>4 DEF TypeOK
    <2> QED
      BY <1>4, <1>5, <1>6, <2>2, <2>3, <2>4, <2>5, AtOnceEnds
  <1>7. ASSUME NEW t \in Threads, FailsAtOnce(t) PROVE TypeOK'
    <2>1. PICK n \in HangUps(t) : acceptExWithRetry(n) /\ started' = CancelThreadpoolIo(n)
      BY <1>7 DEF FailsAtOnce
    <2>2. started' \in [Objs -> Int] /\ hangUps' \in 0..MaxRetries /\ uncancelled' \in [Objs -> 0..MaxRetries]
      <3>1. n \in Nat /\ hangUps' \in 0..MaxRetries /\ uncancelled' \in [Objs -> 0..MaxRetries]
        BY <2>1, HangUpsTyped
      <3>2. started' = [started EXCEPT ![ptpIo] = started[ptpIo] + n] /\ n \in Int
        BY <2>1, <3>1 DEF CancelThreadpoolIo, StartThreadpoolIo
      <3>3. started' \in [Objs -> Int]
        BY <3>2, StartedMoves
      <3> QED
        BY <3>1, <3>3
    <2>3. UNCHANGED <<orphans, corrupt, names, kobj>>
      BY <1>7 DEF FailsAtOnce
    <2>4. KernelTyped' /\ orphans' \subseteq Objs \X (Objs \cup {NoObj})
      BY <2>3 DEF TypeOK, KernelTyped
    <2> QED
      BY <1>4, <1>5, <1>7, <2>2, <2>3, <2>4, FailureEnds
  <1>8. ASSUME NEW t \in Threads, Suspends(t) PROVE TypeOK'
    <2>1. PICK n \in HangUps(t) : acceptExWithRetry(n) /\ started' = StartThreadpoolIo(n + 1)
      BY <1>8 DEF Suspends
    <2>2. started' \in [Objs -> Int] /\ hangUps' \in 0..MaxRetries /\ uncancelled' \in [Objs -> 0..MaxRetries]
      <3>1. n \in Nat /\ hangUps' \in 0..MaxRetries /\ uncancelled' \in [Objs -> 0..MaxRetries]
        BY <2>1, HangUpsTyped
      <3>2. started' = [started EXCEPT ![ptpIo] = started[ptpIo] + (n + 1)] /\ (n + 1) \in Int
        BY <2>1, <3>1 DEF StartThreadpoolIo
      <3>3. started' \in [Objs -> Int]
        BY <3>2, StartedMoves
      <3> QED
        BY <3>1, <3>3
    <2>3. CallsTyped'
      BY <1>8, ResolveTyped DEF Suspends, TypeOK, CallsTyped
    <2> QED
      BY <1>5, <1>8, <2>2, <2>3 DEF Suspends, TypeOK, CallsTyped
  <1>9. ASSUME NEW t \in Threads, KernelCompletes(t) PROVE TypeOK'
    <2>1. KernelTyped'
      BY <1>9, ConnectedTyped DEF KernelCompletes, Active, KernelTyped, TypeOK
    <2>2. CallsTyped'
      BY <1>9 DEF KernelCompletes, TypeOK, CallsTyped
    <2>3. outcome' \in [Threads -> [bytes : 0..1, error : KernelErrors \cup {"ERROR_SUCCESS"}]]
      <3>1. PICK bytes \in 0..1, err \in KernelErrors \cup {"ERROR_SUCCESS"} :
              outcome' = [outcome EXCEPT ![t] = [bytes |-> bytes, error |-> err]]
        BY <1>9, ErrorsTyped DEF KernelCompletes
      <3> QED
        BY <3>1 DEF TypeOK
    <2>4. hangUps' \in 0..MaxRetries
      BY <1>9, WinSocketAssumption DEF KernelCompletes, TypeOK
    <2> QED
      BY <1>5, <1>9, <2>1, <2>2, <2>3, <2>4 DEF KernelCompletes, TypeOK, KernelTyped, CallsTyped
  <1>10. ASSUME NEW t \in Threads, completionCallback(t) PROVE TypeOK'
    <2>1. UNCHANGED <<names, kobj, orphans, hangUps, uncancelled, corrupt>> /\ started' = [started EXCEPT ![target[t]] = @ - 1]
      BY <1>10 DEF completionCallback
    <2>2. /\ KernelTyped' /\ started' \in [Objs -> Int] /\ orphans' \subseteq Objs \X (Objs \cup {NoObj})
          /\ hangUps' \in 0..MaxRetries /\ uncancelled' \in [Objs -> 0..MaxRetries]
      <3>1. started \in [Objs -> Int] /\ target[t] \in Objs
        BY <1>10 DEF TypeOK, completionCallback, Operating, Waiting
      <3>2. started' \in [Objs -> Int]
        BY <2>1, <3>1
      <3> QED
        BY <2>1, <3>2 DEF KernelTyped, TypeOK
    <2> QED
      BY <1>4, <1>5, <1>10, <2>1, <2>2, CallbackEnds
  <1>11. ASSUME NEW t \in Threads, handleCompletionRetries(t) PROVE TypeOK'
    <2>1. UNCHANGED <<names, corrupt>>
      BY <1>11 DEF handleCompletionRetries
    <2>2. hangUps' \in 0..MaxRetries /\ uncancelled' \in [Objs -> 0..MaxRetries]
      BY <1>11, RetryCounts, HangUpsTyped
    <2>3. KernelTyped'
      BY <1>11, <2>1, ConnectedTyped DEF handleCompletionRetries, Active, KernelTyped, TypeOK
    <2>4. started' \in [Objs -> Int]
      <3>1. PICK k \in Int : started' = [[started EXCEPT ![target[t]] = @ - 1] EXCEPT ![ptpIo] = @ + k]
        BY <1>11, RetryCounts
      <3> DEFINE spent == [started EXCEPT ![target[t]] = @ - 1]
      <3>2. started \in [Objs -> Int]
        BY DEF TypeOK
      <3>3. spent \in [Objs -> Int]
        <4>1. \A o \in Objs : started[o] - 1 \in Int
          BY <3>2
        <4> QED
          BY <3>2, <4>1
      <3>4. started' = [spent EXCEPT ![ptpIo] = @ + k]
        BY <3>1
      <3> HIDE DEF spent
      <3>5. \A o \in Objs : spent[o] + k \in Int
        BY <3>3
      <3> QED
        BY <3>3, <3>4, <3>5
    <2>5. orphans' \subseteq Objs \X (Objs \cup {NoObj})
      BY <1>11 DEF handleCompletionRetries, Open, Resolve, TypeOK, NoObj, Objs
    <2> QED
      BY <1>4, <1>5, <1>11, <2>1, <2>2, <2>3, <2>4, <2>5, RetryEnds
  <1>12. CASE OrphanCompletes
    BY <1>12 DEF OrphanCompletes, TypeOK
  <1> QED
    BY <1>1, <1>2, <1>3, <1>6, <1>7, <1>8, <1>9, <1>10, <1>11, <1>12 DEF Next, await_suspend, Callback

-----------------------------------------------------------------------------
\* An action that ends a call of t, whichever it is.
Concludes(t) == CompletesAtOnce(t) \/ FailsAtOnce(t) \/ completionCallback(t) \/ handleCompletionRetries(t)

\* A call ends in one of the four ways above.
LEMMA ConcludesEnds ==
  ASSUME TypeOK, Operating, NEW t \in Threads, Concludes(t)
  PROVE  \E r : Ends(t, r)
  BY AtOnceEnds, FailureEnds, CallbackEnds, RetryEnds DEF Concludes

\* A socket only changes when the operation is carried out: it, or the one it
\* was prepared with, is connected then.
LEMMA ConcludesConnects ==
  ASSUME TypeOK, Operating, Prepared, NEW t \in Threads, Concludes(t) \/ KernelCompletes(t)
  PROVE  /\ Active(t)
         /\ \A p \in Objs : kobj'[p] # kobj[p] =>
              /\ kobj'[p] = "connected"
              /\ op[t] = "accept" => p = prep[t]
              /\ op[t] # "accept" => Open(p) /\ p = IF Waiting(t) THEN target[t] ELSE Resolve(socket)
  <1>1. CASE CompletesAtOnce(t)
    BY <1>1, ConnectedTyped DEF CompletesAtOnce, Active, Waiting
  <1>2. CASE FailsAtOnce(t)
    BY <1>2 DEF FailsAtOnce, Active
  <1>3. CASE completionCallback(t)
    BY <1>3 DEF completionCallback, Active
  <1>4. CASE handleCompletionRetries(t)
    BY <1>4, ConnectedTyped DEF handleCompletionRetries, Active
  <1>5. CASE KernelCompletes(t)
    BY <1>5, ConnectedTyped DEF KernelCompletes, Active, Waiting
  <1> QED
    BY <1>1, <1>2, <1>3, <1>4, <1>5 DEF Concludes

\* Only close starts or finishes a close.
LEMMA ClosingSame ==
  ASSUME TypeOK, NEW t \in Threads,
         \/ init(t) \/ bind(t) \/ listen(t) \/ control(t) \/ accept(t) \/ connect(t) \/ readv(t) \/ writev(t)
         \/ Suspends(t) \/ KernelCompletes(t) \/ \E r : Ends(t, r)
  PROVE  Closing' <=> Closing
  <1>1. CASE UNCHANGED stage
    BY <1>1 DEF Closing
  <1>2. CASE /\ stage[t] # "closing"
             /\ \E s \in {"idle", "admitted", "pending", "queued"} : stage' = [stage EXCEPT ![t] = s]
    BY <1>2 DEF Closing, TypeOK
  <1> USE DEF Return, Refused, Admitted, Begin
  <1>3. CASE init(t) \/ bind(t) \/ listen(t) \/ control(t)
    BY <1>1, <1>3 DEF init, bind, listen, control
  <1>4. CASE accept(t) \/ connect(t) \/ readv(t) \/ writev(t)
    <2>1. stage[t] = "idle"
      BY <1>4 DEF accept, connect, readv, writev, Transfer
    <2>2. UNCHANGED stage \/ stage' = [stage EXCEPT ![t] = "admitted"]
      BY <1>4 DEF accept, connect, readv, writev, Transfer
    <2> QED
      BY <1>1, <1>2, <2>1, <2>2
  <1>5. CASE Suspends(t) \/ KernelCompletes(t)
    BY <1>2, <1>5 DEF Suspends, KernelCompletes
  <1>6. CASE \E r : Ends(t, r)
    BY <1>2, <1>6 DEF Ends, Finish, Active
  <1> QED
    BY <1>3, <1>4, <1>5, <1>6

\* A socket that was made is there for good.
LEMMA UsedStays ==
  ASSUME TypeOK, Operating, Prepared, [Next]_vars
  PROVE  \A o \in Objs : kobj[o] # "unused" => kobj'[o] # "unused"
  <1> USE DEF kernel
  <1>1. CASE UNCHANGED kobj
    BY <1>1
  <1>2. ASSUME NEW t \in Threads, Call(t) PROVE \A o \in Objs : kobj[o] # "unused" => kobj'[o] # "unused"
    <2>1. CASE init(t) \/ accept(t)
      BY <2>1, SocketMade DEF init, accept, Refused, initSocketFails, TypeOK
    <2>2. CASE bind(t) \/ listen(t)
      BY <2>2 DEF bind, listen, TypeOK
    <2>3. CASE closesocket(t)
      BY <2>3 DEF closesocket, TypeOK
    <2>4. CASE connect(t)
      BY <2>4 DEF connect, Refused, TypeOK
    <2>5. CASE control(t) \/ readv(t) \/ writev(t)
      BY <2>5 DEF control, readv, writev, Transfer, Refused
    <2> QED
      BY <1>2, <2>1, <2>2, <2>3, <2>4, <2>5 DEF Call
  <1>3. ASSUME NEW t \in Threads, Concludes(t) \/ KernelCompletes(t)
        PROVE  \A o \in Objs : kobj[o] # "unused" => kobj'[o] # "unused"
    BY <1>3, ConcludesConnects
  <1> QED
    BY <1>1, <1>2, <1>3 DEF Next, Concludes, await_suspend, Callback, closeInvalidates, Suspends, OrphanCompletes, vars

\* Until somebody closes it, the handle stands for the socket that init has made.
LEMMA OwnKept ==
  ASSUME TypeOK, OwnSocket, Operating, Prepared, [Next]_vars
  PROVE  OwnSocket'
  <1> USE DEF impl, kernel
  <1>1. ptpIo' = ptpIo /\ ptpIo # NoObj => kobj'[ptpIo'] # "unused"
    BY UsedStays DEF TypeOK, OwnSocket
  <1>2. ASSUME UNCHANGED <<socket, ptpIo, names>>, Closing => Closing' PROVE OwnSocket'
    BY <1>1, <1>2 DEF OwnSocket, Resolve
  <1>3. CASE UNCHANGED vars \/ OrphanCompletes
    BY <1>2, <1>3 DEF vars, call, OrphanCompletes, Closing
  <1>4. ASSUME NEW t \in Threads, init(t) PROVE OwnSocket'
    <2>1. CASE socket # INVALID_SOCKET
      BY <1>2, <1>4, <2>1, ClosingSame DEF init
    <2>2. CASE socket' = INVALID_SOCKET /\ ptpIo' = NoObj
      BY <2>2 DEF OwnSocket
    <2>3. ASSUME NEW h, NEW o, initSocketOk(h, o), socket' = h, ptpIo' = o PROVE OwnSocket'
      BY <2>3, SocketMade, NoObjIsNone DEF OwnSocket, Resolve
    <2> QED
      BY <1>4, <2>1, <2>2, <2>3 DEF init
  <1>5. ASSUME NEW t \in Threads, accept(t) PROVE OwnSocket'
    <2>1. UNCHANGED <<socket, ptpIo>> /\ (Closing' <=> Closing)
      BY <1>5, ClosingSame DEF accept
    <2>2. CASE UNCHANGED names
      BY <1>2, <2>1, <2>2
    <2>3. ASSUME NEW h, NEW o, initSocketOk(h, o) PROVE OwnSocket'
      BY <1>1, <2>1, <2>3, SocketMade DEF OwnSocket, Resolve, TypeOK
    <2> QED
      BY <1>5, <2>2, <2>3 DEF accept, Refused, initSocketFails
  <1>6. ASSUME NEW t \in Threads, closesocket(t) PROVE OwnSocket'
    <2>1. CASE socket = INVALID_SOCKET
      BY <1>2, <1>6, <2>1 DEF closesocket, Return, Closing
    <2>2. CASE socket # INVALID_SOCKET
      BY <1>1, <1>6, <2>2 DEF closesocket, Closing, TypeOK, OwnSocket
    <2> QED
      BY <2>1, <2>2
  <1>7. ASSUME NEW t \in Threads, closeInvalidates(t) PROVE OwnSocket'
    BY <1>1, <1>7 DEF closeInvalidates, OwnSocket
  <1>8. ASSUME NEW t \in Threads,
               bind(t) \/ listen(t) \/ control(t) \/ connect(t) \/ readv(t) \/ writev(t) \/ Suspends(t) \/ KernelCompletes(t)
        PROVE  OwnSocket'
    <2>1. UNCHANGED <<socket, ptpIo, names>>
      BY <1>8 DEF bind, listen, control, connect, readv, writev, Transfer, Refused, Suspends, KernelCompletes
    <2> QED
      BY <1>2, <1>8, <2>1, ClosingSame
  <1>9. ASSUME NEW t \in Threads, Concludes(t) PROVE OwnSocket'
    <2>1. PICK r : Ends(t, r)
      BY <1>9, ConcludesEnds
    <2> QED
      BY <1>2, <2>1, ClosingSame DEF Ends
  <1> QED
    BY <1>3, <1>4, <1>5, <1>6, <1>7, <1>8, <1>9 DEF Next, Call, Concludes, await_suspend, Callback

\* Who waits, waits in one of the four operations for a socket that there is.
LEMMA OperatingKept ==
  ASSUME TypeOK, Operating, [Next]_vars
  PROVE  Operating'
  <1> USE DEF Active, Waiting
  <1>1. CASE UNCHANGED vars \/ OrphanCompletes
    BY <1>1 DEF vars, call, OrphanCompletes, Operating
  <1>2. ASSUME NEW t \in Threads, Call(t) PROVE Operating'
    <2>1. stage[t] = "idle"
      BY <1>2 DEF Call, init, bind, listen, closesocket, control, accept, connect, readv, writev, Transfer, Begin
    <2>2. UNCHANGED target
      BY <1>2 DEF Call, init, bind, listen, closesocket, control, accept, connect, readv, writev, Transfer, Refused, Return, Admitted
    <2>3. \/ UNCHANGED stage /\ \E k : op' = [op EXCEPT ![t] = k]
          \/ stage' = [stage EXCEPT ![t] = "closing"] /\ op' = [op EXCEPT ![t] = "close"]
          \/ stage' = [stage EXCEPT ![t] = "admitted"] /\ \E k \in IoOps : op' = [op EXCEPT ![t] = k]
      BY <1>2 DEF Call, init, bind, listen, closesocket, control, accept, connect, readv, writev, Transfer,
                  Refused, Return, Admitted, IoOps
    <2> QED
      BY <2>1, <2>2, <2>3 DEF Operating, TypeOK
  <1>3. ASSUME NEW t \in Threads, closeInvalidates(t) PROVE Operating'
    BY <1>3 DEF closeInvalidates, Operating, TypeOK
  <1>4. ASSUME NEW t \in Threads, Suspends(t) PROVE Operating'
    BY <1>4, ResolveTyped DEF Suspends, Operating, TypeOK
  <1>5. ASSUME NEW t \in Threads, KernelCompletes(t) PROVE Operating'
    BY <1>5 DEF KernelCompletes, Operating, TypeOK
  <1>6. ASSUME NEW t \in Threads, Concludes(t) PROVE Operating'
    <2>1. PICK r : Ends(t, r)
      BY <1>6, ConcludesEnds
    <2> QED
      BY <2>1 DEF Ends, Finish, Operating, TypeOK
  <1> QED
    BY <1>1, <1>2, <1>3, <1>4, <1>5, <1>6 DEF Next, Concludes, await_suspend, Callback

\* A prepared socket belongs to one accept in progress and to nobody else.
LEMMA PreparedKept ==
  ASSUME TypeOK, OwnSocket, Operating, Prepared, HandedOut, [Next]_vars
  PROVE  Prepared'
  <1> USE DEF Active, impl, history
  <1>1. CASE UNCHANGED vars \/ OrphanCompletes
    BY <1>1 DEF vars, kernel, call, OrphanCompletes, Prepared
  <1>2. \A u \in Threads : prep[u] # NoObj => prep[u] \in Objs /\ kobj'[prep[u]] # "unused"
    BY UsedStays DEF TypeOK, Prepared
  <1>3. ASSUME NEW t \in Threads, UNCHANGED <<prep, accepted, lost, ptpIo>>,
               (stage'[t] \in {"admitted", "pending", "queued"} /\ op'[t] = "accept") <=> (Active(t) /\ op[t] = "accept"),
               \A u \in Threads : u # t => stage'[u] = stage[u] /\ op'[u] = op[u]
        PROVE  Prepared'
    BY <1>2, <1>3 DEF Prepared
  <1>4. ASSUME NEW t \in Threads,
               init(t) \/ bind(t) \/ listen(t) \/ control(t) \/ connect(t) \/ readv(t) \/ writev(t) \/ closesocket(t)
        PROVE  Prepared'
    <2>1. stage[t] = "idle" /\ prep[t] = NoObj
      BY <1>4 DEF init, bind, listen, closesocket, control, connect, readv, writev, Transfer, Begin, Prepared
    <2>2. UNCHANGED <<accepted, lost, prep>>
      <3>1. UNCHANGED <<accepted, lost>>
        BY <1>4 DEF init, bind, listen, closesocket, control, connect, readv, writev, Transfer
      <3>2. UNCHANGED prep
        <4>1. CASE init(t) \/ bind(t) \/ listen(t) \/ control(t) \/ closesocket(t)
          BY <4>1 DEF init, bind, listen, closesocket, control, Return
        <4>2. CASE connect(t) \/ readv(t) \/ writev(t)
          <5>1. UNCHANGED prep \/ prep' = [prep EXCEPT ![t] = NoObj]
            BY <4>2 DEF connect, readv, writev, Transfer, Refused, Return, Admitted
          <5> QED
            BY <5>1, <2>1 DEF TypeOK
        <4> QED
          BY <1>4, <4>1, <4>2
      <3> QED
        BY <3>1, <3>2
    <2>3. /\ stage'[t] \in {"idle", "closing"} \/ (stage'[t] = "admitted" /\ op'[t] # "accept")
          /\ \A u \in Threads : u # t => stage'[u] = stage[u] /\ op'[u] = op[u]
      BY <1>4, <2>1 DEF init, bind, listen, closesocket, control, connect, readv, writev, Transfer, Refused, Return, Admitted, TypeOK
    <2>4. CASE init(t)
      <3>1. \A u \in Threads : stage[u] = "idle" /\ prep[u] = NoObj
        BY <2>4 DEF init, Prepared
      <3> QED
        BY <2>2, <2>3, <2>4, <3>1 DEF Prepared, init, Return
    <2>5. CASE ~init(t)
      <3>1. UNCHANGED ptpIo
        BY <1>4, <2>5 DEF bind, listen, closesocket, control, connect, readv, writev, Transfer
      <3> QED
        BY <1>3, <2>1, <2>2, <2>3, <3>1
    <2> QED
      BY <2>4, <2>5
  <1>5. ASSUME NEW t \in Threads, accept(t) PROVE Prepared'
    <2>1. stage[t] = "idle" /\ prep[t] = NoObj /\ UNCHANGED <<accepted, lost, ptpIo>>
      BY <1>5 DEF accept, Begin, Prepared
    <2>2. ASSUME NEW err, Return(t, "accept", err) PROVE Prepared'
      BY <1>3, <2>1, <2>2 DEF Return, TypeOK
    <2>3. ASSUME NEW h, NEW o, initSocketOk(h, o), Admitted(t, "accept", o) PROVE Prepared'
      <3>1. o \in Objs /\ kobj[o] = "unused" /\ kobj'[o] = "fresh"
        BY <2>3, SocketMade
      <3>2. o # NoObj /\ o # ptpIo /\ o \notin accepted \cup lost /\ \A u \in Threads : prep[u] # o
        BY <3>1, NoObjIsNone DEF HandedOut, Prepared, OwnSocket
      <3> QED
        BY <1>2, <2>1, <2>3, <3>1, <3>2 DEF Prepared, Admitted, TypeOK
    <2> QED
      BY <1>5, <2>2, <2>3 DEF accept, Refused
  <1>6. ASSUME NEW t \in Threads, closeInvalidates(t) PROVE Prepared'
    BY <1>3, <1>6 DEF closeInvalidates, TypeOK
  <1>7. ASSUME NEW t \in Threads, Suspends(t) PROVE Prepared'
    BY <1>3, <1>7 DEF Suspends, TypeOK
  <1>8. ASSUME NEW t \in Threads, KernelCompletes(t) PROVE Prepared'
    BY <1>3, <1>8 DEF KernelCompletes, TypeOK
  <1>9. ASSUME NEW t \in Threads, Concludes(t) PROVE Prepared'
    <2>1. PICK r : Ends(t, r)
      BY <1>9, ConcludesEnds
    <2> QED
      BY <1>2, <2>1 DEF Ends, Finish, Prepared, TypeOK
  <1> QED
    BY <1>1, <1>4, <1>5, <1>6, <1>7, <1>8, <1>9 DEF Next, Call, Concludes, await_suspend, Callback

\* A socket is handed out or lost, and not both.
LEMMA HandedOutKept ==
  ASSUME TypeOK, Operating, Prepared, HandedOut, [Next]_vars
  PROVE  HandedOut'
  <1> USE DEF history
  <1>1. CASE UNCHANGED <<accepted, lost>>
    BY <1>1, UsedStays DEF HandedOut, TypeOK
  <1>2. ASSUME NEW t \in Threads, Concludes(t) PROVE HandedOut'
    <2>1. PICK r : Ends(t, r)
      BY <1>2, ConcludesEnds
    <2>2. \A o \in (accepted' \cup lost') \ (accepted \cup lost) : o = prep[t] /\ o # NoObj
      BY <2>1 DEF Ends, Finish, Prepared
    <2> QED
      BY <2>1, <2>2, UsedStays DEF Ends, Finish, HandedOut, Prepared, TypeOK
  <1> QED
    BY <1>1, <1>2 DEF Next, vars, Call, init, bind, listen, closesocket, control, accept, connect, readv, writev, Transfer,
                      closeInvalidates, await_suspend, Suspends, KernelCompletes, Callback, Concludes, OrphanCompletes

\* What the retries of AcceptEx leave behind.
LEMMA RetriedKept ==
  ASSUME TypeOK, Operating, Prepared, Retried, [Next]_vars
  PROVE  Retried'
  <1> USE DEF history
  <1> DEFINE Queued(u) == stage[u] = "queued" /\ op[u] = "accept" /\ isAcceptExRetryError(outcome[u].error)
  <1>1. CASE UNCHANGED vars
    BY <1>1 DEF vars, call, Retried
  <1>2. CASE OrphanCompletes
    BY <1>2 DEF OrphanCompletes, call, Retried
  <1>3. ASSUME NEW t \in Threads, Call(t) PROVE Retried'
    <2>1. UNCHANGED <<orphans, lost, hangUps, uncancelled, outcome>>
      BY <1>3 DEF Call, init, bind, listen, closesocket, control, accept, connect, readv, writev, Transfer
    <2>2. \A u \in Threads : stage'[u] = "queued" => stage[u] = "queued" /\ op'[u] = op[u]
      <3>1. stage[t] = "idle"
        BY <1>3 DEF Call, init, bind, listen, closesocket, control, accept, connect, readv, writev, Transfer, Begin
      <3>2. /\ UNCHANGED stage \/ \E s \in {"closing", "admitted"} : stage' = [stage EXCEPT ![t] = s]
            /\ \E k : op' = [op EXCEPT ![t] = k]
        BY <1>3 DEF Call, init, bind, listen, closesocket, control, accept, connect, readv, writev, Transfer,
                    Refused, Return, Admitted
      <3> QED
        BY <3>1, <3>2 DEF TypeOK
    <2> QED
      BY <2>1, <2>2 DEF Retried
  <1>4. ASSUME NEW t \in Threads, closeInvalidates(t) PROVE Retried'
    BY <1>4 DEF closeInvalidates, Retried, TypeOK
  <1>5. ASSUME NEW t \in Threads, CompletesAtOnce(t) \/ FailsAtOnce(t) \/ Suspends(t)
        PROVE  hangUps' >= hangUps /\ \A o \in Objs : uncancelled'[o] <= hangUps'
    BY <1>5, HangUpsTyped DEF CompletesAtOnce, FailsAtOnce, Suspends
  <1>6. ASSUME NEW t \in Threads, Suspends(t) PROVE Retried'
    <2>1. UNCHANGED <<orphans, lost>> /\ \A u \in Threads : Queued(u)' => Queued(u)
      BY <1>6 DEF Suspends, TypeOK
    <2>2. hangUps \in Nat /\ hangUps' \in Int
      BY <1>6, HangUpsTyped DEF Suspends, TypeOK
    <2> QED
      BY <1>5, <1>6, <2>1, <2>2 DEF Retried
  <1>7. ASSUME NEW t \in Threads, KernelCompletes(t) PROVE Retried'
    <2>1. UNCHANGED <<orphans, lost, uncancelled>> /\ hangUps' >= hangUps
      BY <1>7 DEF KernelCompletes, TypeOK
    <2>2. stage' = [stage EXCEPT ![t] = "queued"] /\ UNCHANGED op /\ \A u \in Threads : u # t => outcome'[u] = outcome[u]
      BY <1>7 DEF KernelCompletes, TypeOK
    <2>3. op[t] = "accept" /\ isAcceptExRetryError(outcome'[t].error) => hangUps' > 0
      BY <1>7 DEF KernelCompletes, TypeOK, isAcceptExRetryError
    <2>4. hangUps \in Nat /\ hangUps' \in Int /\ \A o \in Objs : uncancelled[o] \in Nat
      BY <1>7 DEF KernelCompletes, TypeOK
    <2>5. \A o \in Objs : uncancelled'[o] <= hangUps'
      BY <2>1, <2>4 DEF Retried
    <2>6. \A u \in Threads : Queued(u)' => hangUps' > 0
      BY <2>1, <2>2, <2>3, <2>4 DEF Retried, TypeOK
    <2> QED
      BY <2>1, <2>5, <2>6 DEF Retried
  <1>8. ASSUME NEW t \in Threads, Concludes(t) PROVE Retried'
    <2>1. PICK r : Ends(t, r)
      BY <1>8, ConcludesEnds
    <2>2. hangUps' >= hangUps /\ \A o \in Objs : uncancelled'[o] <= hangUps'
      <3>1. CASE completionCallback(t)
        BY <3>1 DEF completionCallback, TypeOK, Retried
      <3>2. CASE handleCompletionRetries(t)
        BY <3>2, RetryCounts, HangUpsTyped
      <3> QED
        BY <1>5, <1>8, <3>1, <3>2 DEF Concludes
    <2>3. \A u \in Threads : Queued(u)' => hangUps' > 0
      <3>1. \A u \in Threads : Queued(u)' => Queued(u)
        BY <2>1 DEF Ends, Finish, TypeOK
      <3>2. hangUps \in Nat /\ hangUps' \in Int
        BY <1>8, HangUpsTyped DEF Concludes, CompletesAtOnce, FailsAtOnce, completionCallback, handleCompletionRetries, TypeOK
      <3> QED
        BY <2>2, <3>1, <3>2 DEF Retried
    <2>4. lost \subseteq lost'
      BY <2>1 DEF Ends, Finish
    <2>5. \A p \in orphans' : p[2] \in lost'
      <3>1. CASE UNCHANGED orphans
        BY <2>4, <3>1 DEF Retried
      <3>2. CASE ~UNCHANGED orphans
        <4>1. /\ op[t] = "accept" /\ orphans' = orphans \cup {<<Resolve(handle[t]), prep[t]>>}
              /\ Finish(t, Resume(t, "Ok", 0, [bytes |-> 0, error |-> "WSA_IO_PENDING"], NoObj))
          BY <1>8, <3>2 DEF Concludes, CompletesAtOnce, FailsAtOnce, completionCallback, handleCompletionRetries
        <4>2. lost' = lost \cup ({prep[t]} \ {NoObj})
          BY <4>1, ResumeIs DEF Finish, AcceptResume
        <4>3. prep[t] # NoObj
          BY <2>1, <4>1 DEF Ends, Prepared
        <4> QED
          BY <4>1, <4>2, <4>3 DEF Retried
      <3> QED
        BY <3>1, <3>2
    <2> QED
      BY <2>2, <2>3, <2>5 DEF Retried
  <1> QED
    BY <1>1, <1>2, <1>3, <1>4, <1>6, <1>7, <1>8 DEF Next, Concludes, await_suspend, Callback

\* The sockets that somebody has got, will get or has lost.
Held == accepted \cup lost \cup {prep[t] : t \in Threads}

\* Nobody lets go of a socket without somebody having it.
LEMMA HeldStays ==
  ASSUME TypeOK, Operating, Prepared, [Next]_vars
  PROVE  \A o \in Objs : o \in Held => o \in Held'
  <1> USE DEF history, Held
  <1>1. CASE UNCHANGED <<accepted, lost, prep>>
    BY <1>1
  <1>2. ASSUME NEW t \in Threads, Call(t) PROVE \A o \in Objs : o \in Held => o \in Held'
    <2>1. UNCHANGED <<accepted, lost>>
      BY <1>2 DEF Call, init, bind, listen, closesocket, control, accept, connect, readv, writev, Transfer
    <2>2. UNCHANGED prep \/ \E o : prep' = [prep EXCEPT ![t] = o]
      BY <1>2 DEF Call, init, bind, listen, closesocket, control, accept, connect, readv, writev, Transfer, Refused, Return, Admitted
    <2>3. stage[t] = "idle"
      BY <1>2 DEF Call, init, bind, listen, closesocket, control, accept, connect, readv, writev, Transfer, Begin
    <2>4. prep[t] = NoObj
      BY <2>3 DEF Prepared, Active
    <2> QED
      BY <2>1, <2>2, <2>4, NoObjIsNone DEF TypeOK
  <1>3. ASSUME NEW t \in Threads, Concludes(t) PROVE \A o \in Objs : o \in Held => o \in Held'
    <2>1. PICK r : Ends(t, r)
      BY <1>3, ConcludesEnds
    <2>2. accepted \subseteq accepted' /\ lost \subseteq lost' /\ \A u \in Threads : u # t => prep'[u] = prep[u]
      BY <2>1 DEF Ends, Finish, TypeOK
    <2>3. prep[t] # NoObj => prep[t] \in accepted' \cup lost'
      BY <2>1 DEF Ends, Finish, Prepared
    <2> QED
      BY <2>2, <2>3, NoObjIsNone
  <1> QED
    BY <1>1, <1>2, <1>3 DEF Next, Concludes, await_suspend, Callback, closeInvalidates, Suspends, KernelCompletes, OrphanCompletes, vars, call

\* A socket that is open was open, was prepared for the accept that now hands
\* it out, or is new and belongs to this SocketImpl or to an accept.
LEMMA OpenSince ==
  ASSUME TypeOK, Operating, Prepared, [Next]_vars, NEW o \in Objs, Open(o)'
  PROVE  Open(o) \/ o \in Held' \/ (o = Resolve(socket)' /\ \E t \in Threads : init(t))
  <1> USE DEF kernel, Open
  <1>1. CASE UNCHANGED kobj
    BY <1>1
  <1>2. ASSUME NEW t \in Threads, Call(t), ~Open(o), ~UNCHANGED kobj
        PROVE  o \in Held' \/ (o = Resolve(socket)' /\ init(t))
    <2>1. CASE init(t)
      <3>1. PICK h, p : initSocketOk(h, p) /\ socket' = h
        BY <1>2, <2>1 DEF init, initSocketFails
      <3>2. o = p
        BY <1>2, <3>1, SocketMade DEF TypeOK
      <3> QED
        BY <2>1, <3>1, <3>2, SocketMade DEF Resolve
    <2>2. CASE bind(t) \/ listen(t)
      BY <1>2, <2>2 DEF bind, listen, TypeOK
    <2>3. CASE closesocket(t)
      BY <1>2, <2>3 DEF closesocket, TypeOK
    <2>4. CASE connect(t)
      BY <1>2, <2>4 DEF connect, Refused, TypeOK
    <2>5. CASE control(t) \/ readv(t) \/ writev(t)
      BY <1>2, <2>5 DEF control, readv, writev, Transfer, Refused
    <2>6. CASE accept(t)
      <3>1. PICK h, p : initSocketOk(h, p) /\ Admitted(t, "accept", p)
        BY <1>2, <2>6 DEF accept, Refused, initSocketFails
      <3>2. o = p
        BY <1>2, <3>1, SocketMade DEF TypeOK
      <3> QED
        BY <3>1, <3>2 DEF Admitted, Held, TypeOK
    <2> QED
      BY <1>2, <2>1, <2>2, <2>3, <2>4, <2>5, <2>6 DEF Call
  <1>3. ASSUME NEW t \in Threads, Concludes(t) \/ KernelCompletes(t), ~Open(o) PROVE o \in Held'
    <2>1. kobj'[o] # kobj[o]
      BY <1>3
    <2>2. o = prep[t]
      BY <1>3, <2>1, ConcludesConnects
    <2> QED
      BY <2>2, HeldStays DEF Held
  <1> QED
    BY <1>1, <1>2, <1>3 DEF Next, Concludes, await_suspend, Callback, closeInvalidates, Suspends, OrphanCompletes, vars

\* What the handle stands for changes when init or accept makes a socket with
\* it, and when it is closed.
LEMMA ResolveSince ==
  ASSUME TypeOK, Operating, Prepared, [Next]_vars
  PROVE  \/ UNCHANGED <<socket, names>>
         \/ Resolve(socket)' = NoObj /\ \E t \in Threads : closesocket(t) \/ closeInvalidates(t)
         \/ socket = INVALID_SOCKET /\ \E t \in Threads : init(t)
         \/ Resolve(socket)' = Resolve(socket)
         \/ \E t \in Threads : accept(t) /\ prep'[t] = Resolve(socket)' /\ kobj[prep'[t]] = "unused" /\ prep'[t] \in Objs
  <1> USE DEF impl, kernel
  <1>1. ASSUME NEW t \in Threads, Call(t), ~UNCHANGED <<socket, names>>
        PROVE \/ Resolve(socket)' = NoObj /\ closesocket(t)
              \/ socket = INVALID_SOCKET /\ init(t)
              \/ Resolve(socket)' = Resolve(socket)
              \/ accept(t) /\ prep'[t] = Resolve(socket)' /\ kobj[prep'[t]] = "unused" /\ prep'[t] \in Objs
    <2>1. CASE init(t)
      BY <1>1, <2>1 DEF init
    <2>2. CASE closesocket(t)
      BY <1>1, <2>2 DEF closesocket, Resolve, TypeOK
    <2>3. CASE accept(t)
      <3>1. PICK h, p : initSocketOk(h, p) /\ Admitted(t, "accept", p)
        BY <1>1, <2>3 DEF accept, Refused, initSocketFails
      <3>2. h \in Names /\ p \in Objs /\ kobj[p] = "unused" /\ names' = [names EXCEPT ![h] = p] /\ prep'[t] = p
        BY <3>1, SocketMade DEF Admitted, TypeOK
      <3> QED
        BY <2>3, <3>2 DEF Resolve, TypeOK, accept
    <2> QED
      BY <1>1, <2>1, <2>2, <2>3 DEF Call, bind, listen, control, connect, readv, writev, Transfer, Refused
  <1>2. ASSUME NEW t \in Threads, closeInvalidates(t) PROVE Resolve(socket)' = NoObj
    BY <1>2 DEF closeInvalidates, Resolve
  <1> QED
    BY <1>1, <1>2 DEF Next, vars, await_suspend, CompletesAtOnce, FailsAtOnce, Suspends, KernelCompletes, Callback,
                      completionCallback, handleCompletionRetries, OrphanCompletes

\* An open socket is held, that of the SocketImpl by its handle.
LEMMA HeldKept ==
  ASSUME TypeOK, OwnSocket, Operating, Prepared, OpenSocketsHeld, ClosingHeld, [Next]_vars
  PROVE  OpenSocketsHeld'
  <1> SUFFICES ASSUME NEW o \in Objs, Open(o)' PROVE o = Resolve(socket)' \/ o \in Held'
    BY DEF OpenSocketsHeld, Held
  <1>1. CASE o \in Held' \/ o = Resolve(socket)'
    BY <1>1
  <1>2. CASE Open(o) /\ o \in Held
    BY <1>2, HeldStays
  <1>3. CASE Open(o) /\ o = Resolve(socket) /\ o \notin Held
    <2>1. CASE Resolve(socket)' = Resolve(socket) \/ UNCHANGED <<socket, names>>
      BY <1>3, <2>1 DEF Resolve
    <2>2. socket # INVALID_SOCKET /\ ~Closing
      BY <1>3, NoObjIsNone DEF Resolve, ClosingHeld, Held
    <2>3. ASSUME NEW t \in Threads, closesocket(t) PROVE FALSE
      BY <1>3, <2>2, <2>3, NoObjIsNone DEF closesocket, Open, TypeOK
    <2>4. ASSUME NEW t \in Threads, closeInvalidates(t) PROVE FALSE
      BY <2>2, <2>4 DEF closeInvalidates, Closing
    <2>5. ASSUME NEW t \in Threads, accept(t), prep'[t] = Resolve(socket)', kobj[prep'[t]] = "unused",
                 Resolve(socket)' # Resolve(socket), ~UNCHANGED <<socket, names>>
          PROVE FALSE
      <3>1. PICK h, p : initSocketOk(h, p)
        BY <2>5 DEF accept, Refused, initSocketFails, impl
      <3>2. names[h] = NoObj /\ names' = [names EXCEPT ![h] = p] /\ UNCHANGED socket
        BY <2>5, <3>1, SocketMade DEF accept, impl
      <3>3. names[socket] = o /\ o # NoObj
        BY <1>3, <2>2, NoObjIsNone DEF Resolve
      <3> QED
        BY <2>2, <2>5, <3>2, <3>3 DEF Resolve
    <2> QED
      BY <2>1, <2>2, <2>3, <2>4, <2>5, ResolveSince
  <1>4. Open(o) => o = Resolve(socket) \/ o \in Held
    BY DEF OpenSocketsHeld, Held
  <1> QED
    BY <1>1, <1>2, <1>3, <1>4, OpenSince

\* During a close the handle may stand for a socket that somebody else has got.
LEMMA ClosingHeldKept ==
  ASSUME TypeOK, OwnSocket, Operating, Prepared, ClosingHeld, [Next]_vars
  PROVE  ClosingHeld'
  <1> SUFFICES ASSUME Closing', Open(Resolve(socket))' PROVE Resolve(socket)' \in Held'
    BY DEF ClosingHeld, Held
  <1>1. Resolve(socket)' # NoObj
    BY DEF Open
  <1>2. ASSUME NEW t \in Threads, init(t) PROVE FALSE
    <2>1. ~Closing
      BY <1>2 DEF init, Closing
    <2> QED
      BY <1>2, <2>1, ClosingSame
  <1>3. ASSUME NEW t \in Threads, accept(t), prep'[t] = Resolve(socket)' PROVE Resolve(socket)' \in Held'
    BY <1>3 DEF Held
  <1>4. CASE Resolve(socket)' = Resolve(socket) \/ UNCHANGED <<socket, names>>
    <2>1. Resolve(socket)' = Resolve(socket) /\ Resolve(socket) \in Objs
      BY <1>1, <1>4, ResolveTyped DEF Resolve
    <2>2. Open(Resolve(socket)) \/ Resolve(socket) \in Held'
      BY <1>2, <2>1, OpenSince
    <2>3. CASE Closing
      BY <2>1, <2>2, <2>3, HeldStays DEF ClosingHeld, Held
    <2>4. CASE ~Closing
      <3>1. \E t \in Threads : closesocket(t)
        <4>1. ASSUME NEW t \in Threads, closeInvalidates(t) PROVE FALSE
          BY <2>4, <4>1 DEF closeInvalidates, Closing
        <4>2. ASSUME NEW t \in Threads, Concludes(t) PROVE FALSE
          BY <2>4, <4>2, ConcludesEnds, ClosingSame
        <4>3. ~(UNCHANGED vars \/ OrphanCompletes)
          BY <2>4 DEF vars, call, OrphanCompletes, Closing
        <4> QED
          BY <2>4, <4>1, <4>2, <4>3, ClosingSame DEF Next, Call, Concludes, await_suspend, Callback
      <3> QED
        BY <1>1, <3>1 DEF closesocket, Resolve, impl, TypeOK
    <2> QED
      BY <2>3, <2>4
  <1> QED
    BY <1>1, <1>2, <1>3, <1>4, ResolveSince

\* Nothing happens to a socket that is handed out, or will be.
LEMMA ConnectedStays ==
  ASSUME TypeOK, OwnSocket, Operating, Prepared, HandedOut, Retried, ConnectedKept, [Next]_vars
  PROVE  ConnectedKept'
  <1> USE DEF Waiting
  <1>1. SUFFICES ASSUME ~foreign' PROVE ConnectedKept'
    BY DEF ConnectedKept
  <1>2. ~foreign
    BY <1>1, Zenon DEF Next, vars, Call, init, bind, listen, closesocket, control, accept, connect, readv, writev, Transfer,
          closeInvalidates, await_suspend, CompletesAtOnce, FailsAtOnce, Suspends, KernelCompletes, Callback,
          completionCallback, handleCompletionRetries, OrphanCompletes, history
  <1> DEFINE Kept(o) == o \in accepted \/ \E t \in Threads : Waiting(t) /\ op[t] = "accept" /\ o = prep[t]
  <1>3. \A o : Kept(o) => o \in Objs /\ o # Resolve(socket) /\ kobj[o] # "unused"
    BY <1>2 DEF ConnectedKept, HandedOut, Prepared, Active, TypeOK
  <1>4. \A o : Kept(o) => o # Resolve(socket)'
    BY <1>3, NoObjIsNone, ResolveSince, SocketMade DEF Resolve, init
  <1>5. \A o : Kept(o) => kobj'[o] = kobj[o] \/ kobj'[o] = "connected"
    <2> SUFFICES ASSUME NEW o, Kept(o) PROVE kobj'[o] = kobj[o] \/ kobj'[o] = "connected"
      OBVIOUS
    <2> HIDE DEF Kept
    <2>1. o \in Objs /\ o # Resolve(socket) /\ kobj[o] # "unused"
      BY <1>3
    <2>2. CASE UNCHANGED kobj
      BY <2>2
    <2>3. ASSUME NEW t \in Threads, Call(t) PROVE kobj'[o] = kobj[o]
      <3>1. CASE init(t) \/ accept(t)
        BY <2>1, <3>1, SocketMade DEF init, accept, Refused, initSocketFails, TypeOK
      <3>2. CASE bind(t) \/ listen(t)
        BY <2>1, <3>2 DEF bind, listen, TypeOK
      <3>3. CASE closesocket(t)
        BY <2>1, <3>3 DEF closesocket, TypeOK
      <3>4. CASE connect(t)
        BY <2>1, <3>4 DEF connect, Refused, TypeOK
      <3>5. CASE control(t) \/ readv(t) \/ writev(t)
        BY <3>5 DEF control, readv, writev, Transfer, Refused, kernel
      <3> QED
        BY <2>3, <3>1, <3>2, <3>3, <3>4, <3>5 DEF Call
    <2>4. ASSUME NEW t \in Threads, Concludes(t) \/ KernelCompletes(t) PROVE kobj'[o] = kobj[o] \/ kobj'[o] = "connected"
      BY <2>1, <2>4, ConcludesConnects
    <2> QED
      BY <2>2, <2>3, <2>4 DEF Next, Concludes, await_suspend, Callback, closeInvalidates, Suspends, OrphanCompletes, vars, kernel
  <1>6. ASSUME NEW o \in accepted' PROVE kobj'[o] = "connected" /\ o # Resolve(socket)'
    <2>1. CASE o \in accepted
      BY <1>2, <1>4, <1>5, <2>1 DEF ConnectedKept
    <2>2. CASE o \notin accepted
      <3>1. PICK t \in Threads : Concludes(t)
        BY <2>2 DEF Next, vars, Call, init, bind, listen, closesocket, control, accept, connect, readv, writev, Transfer,
          closeInvalidates, await_suspend, Concludes, Suspends, KernelCompletes, Callback, OrphanCompletes
      <3>2. PICK r : Ends(t, r)
        BY <3>1, ConcludesEnds
      <3>3. op[t] = "accept" /\ r[1] # NoObj /\ o = r[1] /\ o = prep[t]
        BY <2>2, <3>2 DEF Ends, Finish
      <3>4. Resolve(socket)' = Resolve(socket)
        BY <3>2 DEF Ends, impl, Resolve
      <3>5. o # Resolve(socket)
        <4>1. CASE stage[t] = "admitted"
          <5>1. Resolve(socket) \in {ptpIo, NoObj}
            BY <1>1, <3>1, <4>1, Zenon DEF Concludes, CompletesAtOnce, FailsAtOnce, completionCallback, handleCompletionRetries
          <5> QED
            BY <3>3, <5>1 DEF Prepared
        <4>2. CASE Waiting(t)
          BY <1>3, <3>3, <4>2
        <4> QED
          BY <3>2, <4>1, <4>2 DEF Ends, Active
      <3>6. o \in Objs
        BY <3>3 DEF TypeOK
      <3>7. kobj'[o] = "connected"
        <4>1. CASE kobj' = [kobj EXCEPT ![prep[t]] = "connected"]
          BY <3>3, <3>6, <4>1 DEF TypeOK
        <4>2. CASE stage[t] = "queued" /\ outcome[t].error = "ERROR_SUCCESS"
          <5>1. Kept(o) /\ kobj[o] = "connected"
            BY <1>2, <3>3, <4>2 DEF ConnectedKept
          <5> QED
            BY <1>5, <5>1
        <4> QED
          BY <3>2, <3>3, <4>1, <4>2 DEF Ends
      <3> QED
        BY <3>4, <3>5, <3>7
    <2> QED
      BY <2>1, <2>2
  <1>7. ASSUME NEW t \in Threads, Waiting(t)', op'[t] = "accept"
        PROVE  /\ prep'[t] # Resolve(socket)'
               /\ stage'[t] = "queued" /\ outcome'[t].error = "ERROR_SUCCESS" => kobj'[prep'[t]] = "connected"
    <2>1. CASE Waiting(t) /\ op[t] = "accept" /\ prep'[t] = prep[t] /\ stage'[t] = stage[t] /\ outcome'[t] = outcome[t]
      <3>1. Kept(prep[t]) /\ prep[t] # NoObj
        BY <2>1 DEF Prepared, Active
      <3>2. stage[t] = "queued" /\ outcome[t].error = "ERROR_SUCCESS" => kobj[prep[t]] = "connected"
        BY <1>2, <2>1 DEF ConnectedKept
      <3> QED
        BY <1>4, <1>5, <2>1, <3>1, <3>2
    <2>2. CASE Suspends(t)
      <3>1. Resolve(socket) = ptpIo
        BY <1>1, <2>2, Zenon DEF Suspends
      <3>2. stage'[t] = "pending" /\ prep'[t] = prep[t] /\ op[t] = "accept" /\ Active(t) /\ Resolve(socket)' = Resolve(socket)
        BY <1>7, <2>2 DEF Suspends, TypeOK, impl, Active, Resolve
      <3> QED
        BY <3>1, <3>2 DEF Prepared
    <2>3. CASE KernelCompletes(t)
      <3>1. Kept(prep[t]) /\ prep'[t] = prep[t] /\ op[t] = "accept"
        BY <1>7, <2>3 DEF KernelCompletes
      <3>2. outcome'[t].error = "ERROR_SUCCESS" => Connected(t, target[t])
        BY <2>3, ErrorsTyped DEF KernelCompletes, TypeOK
      <3> QED
        BY <1>4, <2>3, <3>1, <3>2, ConnectedTyped DEF KernelCompletes, Active
    <2>4. ASSUME NEW u \in Threads, Suspends(u) \/ KernelCompletes(u), u # t
          PROVE  stage'[t] = stage[t] /\ op'[t] = op[t] /\ prep'[t] = prep[t] /\ outcome'[t] = outcome[t]
      BY <2>4 DEF Suspends, KernelCompletes, TypeOK
    <2>5. ASSUME NEW u \in Threads, Concludes(u)
          PROVE  stage'[t] = stage[t] /\ op'[t] = op[t] /\ prep'[t] = prep[t] /\ outcome'[t] = outcome[t]
      <3>1. PICK r : Ends(u, r)
        BY <2>5, ConcludesEnds
      <3> QED
        BY <1>7, <3>1 DEF Ends, Finish, TypeOK
    <2>6. ASSUME NEW u \in Threads, Call(u) \/ closeInvalidates(u)
          PROVE  stage'[t] = stage[t] /\ op'[t] = op[t] /\ prep'[t] = prep[t] /\ outcome'[t] = outcome[t]
      <3>1. u # t /\ UNCHANGED outcome
        BY <1>7, <2>6 DEF Call, init, bind, listen, closesocket, control, accept, connect, readv, writev, Transfer, Refused,
                   Return, Admitted, Begin, closeInvalidates, TypeOK, history
      <3>2. /\ UNCHANGED stage \/ \E x : stage' = [stage EXCEPT ![u] = x]
            /\ UNCHANGED op \/ \E x : op' = [op EXCEPT ![u] = x]
            /\ UNCHANGED prep \/ \E x : prep' = [prep EXCEPT ![u] = x]
        BY <2>6 DEF Call, init, bind, listen, closesocket, control, accept, connect, readv, writev, Transfer, Refused,
                   Return, Admitted, closeInvalidates
      <3> QED
        BY <3>1, <3>2 DEF TypeOK
    <2>7. CASE UNCHANGED vars \/ OrphanCompletes
      BY <1>7, <2>1, <2>7 DEF vars, call, history, OrphanCompletes
    <2> QED
      BY <1>7, <2>1, <2>2, <2>3, <2>4, <2>5, <2>6, <2>7 DEF Next, Concludes, await_suspend, Callback
  <1> QED
    BY <1>6, <1>7 DEF ConnectedKept

\* What a call without an awaiter leaves of the other calls, and how it ends.
LEMMA CallReturns ==
  ASSUME TypeOK, NEW t \in Threads, Call(t)
  PROVE  /\ UNCHANGED <<accepted, orphans, started, outcome, lost, hangUps, uncancelled, unset, foreign, corrupt, target>>
         /\ stage[t] = "idle"
         /\ \A u \in Threads : u # t => stage'[u] = stage[u] /\ op'[u] = op[u] /\ result'[u] = result[u]
         /\ stage'[t] \in {"idle", "closing", "admitted"}
         /\ stage'[t] = "idle" /\ op'[t] = "accept" => result'[t][2] # "Ok"
         /\ stage'[t] = "idle" /\ op'[t] \in {"read", "write"} => result'[t][2] = "NotInitialized"
  <1> USE DEF history
  <1>1. stage[t] = "idle" /\ UNCHANGED <<accepted, orphans, started, outcome, lost, hangUps, uncancelled, unset, foreign, corrupt>>
    BY DEF Call, init, bind, listen, closesocket, control, accept, connect, readv, writev, Transfer, Begin, kernel
  <1>2. \/ \E k \in {"init", "bind", "listen", "close", "control", "connect"} : \E r : Return(t, k, r)
        \/ \E r : r # "Ok" /\ Return(t, "accept", r)
        \/ \E k \in {"read", "write"} : Return(t, k, "NotInitialized")
        \/ \E k, o : Admitted(t, k, o)
        \/ /\ stage' = [stage EXCEPT ![t] = "closing"] /\ UNCHANGED target
           /\ \E x : op' = [op EXCEPT ![t] = x]
           /\ \E x : result' = [result EXCEPT ![t] = x]
    <2>1. CASE init(t)
      BY <2>1 DEF init
    <2>2. CASE bind(t)
      BY <2>2 DEF bind
    <2>3. CASE listen(t)
      BY <2>3 DEF listen
    <2>4. CASE closesocket(t)
      BY <2>4 DEF closesocket
    <2>5. CASE control(t)
      BY <2>5 DEF control
    <2>6. CASE accept(t)
      BY <2>6, ErrorReported DEF accept, Refused
    <2>7. CASE connect(t)
      BY <2>7 DEF connect, Refused
    <2>8. CASE readv(t) \/ writev(t)
      BY <2>8 DEF readv, writev, Transfer, Refused
    <2> QED
      BY <2>1, <2>2, <2>3, <2>4, <2>5, <2>6, <2>7, <2>8 DEF Call
  <1> QED
    BY <1>1, <1>2 DEF Return, Admitted, TypeOK

\* The socket that an accept has returned was handed out, and a transfer has
\* returned what the kernel made of it.
LEMMA ResultsKept ==
  ASSUME TypeOK, Operating, Prepared, HandedOut, OkIsHandedOut, TransferAsKernel, [Next]_vars
  PROVE  OkIsHandedOut' /\ TransferAsKernel'
  <1>1. ASSUME NEW t \in Threads, accepted \subseteq accepted', \A o \in lost' \ lost : o \notin accepted,
               \A u \in Threads : u # t =>
                 stage'[u] = stage[u] /\ op'[u] = op[u] /\ result'[u] = result[u] /\ unset'[u] = unset[u] /\ outcome'[u] = outcome[u],
               op'[t] = "accept" /\ stage'[t] = "idle" /\ result'[t][2] = "Ok" /\ ~unset'[t] => result'[t][1] \in accepted' \ lost',
               op'[t] \in {"read", "write"} /\ stage'[t] = "idle" /\ result'[t][2] # "NotInitialized" =>
                 result'[t] = IF outcome'[t].error = "ERROR_SUCCESS"
                                THEN <<IF op'[t] = "read" THEN outcome'[t].bytes ELSE 0, "Ok">>
                                ELSE <<0, getSocketError(outcome'[t].error)>>
        PROVE  OkIsHandedOut' /\ TransferAsKernel'
    <2>1. OkIsHandedOut'
      BY <1>1 DEF OkIsHandedOut
    <2>2. TransferAsKernel'
      BY <1>1 DEF TransferAsKernel
    <2> QED
      BY <2>1, <2>2
  <1>2. CASE UNCHANGED vars \/ OrphanCompletes
    BY <1>2 DEF vars, call, history, OrphanCompletes, OkIsHandedOut, TransferAsKernel
  <1>3. ASSUME NEW t \in Threads, Call(t) PROVE OkIsHandedOut' /\ TransferAsKernel'
    BY <1>1, <1>3, CallReturns
  <1>4. ASSUME NEW t \in Threads, closeInvalidates(t) \/ Suspends(t) \/ KernelCompletes(t)
        PROVE  OkIsHandedOut' /\ TransferAsKernel'
    <2>1. UNCHANGED <<accepted, lost, op, result, unset>> /\ \A u \in Threads : u # t => stage'[u] = stage[u] /\ outcome'[u] = outcome[u]
      BY <1>4 DEF closeInvalidates, Suspends, KernelCompletes, TypeOK, history
    <2>2. stage'[t] # "idle" \/ op[t] = "close"
      BY <1>4 DEF closeInvalidates, Suspends, KernelCompletes, TypeOK, Operating
    <2> QED
      BY <1>1, <2>1, <2>2
  <1>5. ASSUME NEW t \in Threads, Concludes(t) PROVE OkIsHandedOut' /\ TransferAsKernel'
    <2>1. PICK r : Ends(t, r)
      BY <1>5, ConcludesEnds
    <2>2. /\ accepted \subseteq accepted' /\ \A o \in lost' \ lost : o \notin accepted
          /\ \A u \in Threads : u # t =>
               stage'[u] = stage[u] /\ op'[u] = op[u] /\ result'[u] = result[u] /\ unset'[u] = unset[u] /\ outcome'[u] = outcome[u]
      BY <2>1 DEF Ends, Finish, Prepared, TypeOK, HandedOut, NoObj
    <2>3. result'[t] = r /\ op'[t] = op[t]
      BY <2>1 DEF Ends, Finish, TypeOK
    <2>4. op[t] = "accept" /\ r[2] = "Ok" /\ ~unset'[t] => r[1] \in accepted' \ lost'
      BY <2>1 DEF Ends, Finish, Prepared
    <2>5. op[t] \in {"read", "write"} =>
            r = IF outcome'[t].error = "ERROR_SUCCESS"
                  THEN <<IF op[t] = "read" THEN outcome'[t].bytes ELSE 0, "Ok">>
                  ELSE <<0, getSocketError(outcome'[t].error)>>
      BY <2>1 DEF Ends
    <2> QED
      BY <1>1, <2>2, <2>3, <2>4, <2>5
  <1> QED
    BY <1>2, <1>3, <1>4, <1>5 DEF Next, Concludes, await_suspend, Callback

\* A callback finds the awaiter alive unless an accept was retried.
LEMMA AwaiterKept ==
  ASSUME TypeOK, Operating, Retried, CallbackFindsAwaiter, [Next]_vars
  PROVE  CallbackFindsAwaiter'
  <1> USE DEF history, CallbackFindsAwaiter
  <1>1. CASE OrphanCompletes
    BY <1>1 DEF OrphanCompletes
  <1>2. ASSUME NEW t \in Threads, handleCompletionRetries(t) PROVE CallbackFindsAwaiter'
    <2>1. hangUps > 0
      BY <1>2 DEF handleCompletionRetries, Retried
    <2>2. hangUps' >= hangUps /\ hangUps \in Nat /\ hangUps' \in Int
      BY <1>2, RetryCounts, HangUpsTyped DEF TypeOK
    <2> QED
      BY <2>1, <2>2
  <1>3. CASE UNCHANGED <<orphans, corrupt, hangUps>>
    BY <1>3
  <1>4. ASSUME NEW t \in Threads, CompletesAtOnce(t) \/ FailsAtOnce(t) \/ Suspends(t) PROVE CallbackFindsAwaiter'
    <2>1. UNCHANGED <<orphans, corrupt>>
      BY <1>4 DEF CompletesAtOnce, FailsAtOnce, Suspends
    <2>2. hangUps' >= hangUps /\ hangUps' \in Int /\ hangUps \in Nat
      BY <1>4, HangUpsTyped DEF CompletesAtOnce, FailsAtOnce, Suspends, TypeOK
    <2> QED
      BY <2>1, <2>2
  <1>5. ASSUME NEW t \in Threads, KernelCompletes(t) PROVE CallbackFindsAwaiter'
    BY <1>5 DEF KernelCompletes, TypeOK
  <1>6. ASSUME NEW t \in Threads, Call(t) PROVE UNCHANGED <<orphans, corrupt, hangUps>>
    BY <1>6, CallReturns
  <1> QED
    BY <1>1, <1>2, <1>3, <1>4, <1>5, <1>6 DEF Next, vars, closeInvalidates, await_suspend, Callback, completionCallback

\* The operations started on a pool object that an awaiter has lost sight of.
Owed(o) == {p \in orphans : p[1] = o}

\* What a pool object is owed can be counted.
LEMMA Counted ==
  ASSUME TypeOK, NEW o
  PROVE  /\ IsFiniteSet(Pending(o)) /\ Cardinality(Pending(o)) \in Nat
         /\ IsFiniteSet(Owed(o)) /\ Cardinality(Owed(o)) \in Nat
  <1>1. IsFiniteSet(Pending(o))
    BY WinSocketAssumption, FS_Subset DEF Pending
  <1>2. IsFiniteSet(Owed(o))
    BY Finite, FS_Subset DEF Owed
  <1> QED
    BY <1>1, <1>2, FS_CardinalityType

\* Each StartThreadpoolIo is matched.
LEMMA PoolKept ==
  ASSUME TypeOK, OwnSocket, Operating, Prepared, HandedOut, Retried, PoolBalanced, [Next]_vars
  PROVE  PoolBalanced'
  <1> USE DEF history
  <1>1. SUFFICES ASSUME ~foreign' PROVE PoolBalanced'
    BY DEF PoolBalanced
  <1>2. ~foreign
    BY <1>1, Zenon DEF Next, vars, Call, init, bind, listen, closesocket, control, accept, connect, readv, writev, Transfer,
          closeInvalidates, await_suspend, CompletesAtOnce, FailsAtOnce, Suspends, KernelCompletes, Callback,
          completionCallback, handleCompletionRetries, OrphanCompletes, history
  <1>3. \A o \in Objs : started[o] = Cardinality(Pending(o)) + Cardinality(Owed(o)) + uncancelled[o]
    BY <1>2 DEF PoolBalanced, Owed
  <1>4. \A o \in Objs : started[o] \in Int /\ uncancelled[o] \in Int
    BY DEF TypeOK
  <1>5. SUFFICES ASSUME NEW o \in Objs
                 PROVE  started'[o] = Cardinality(Pending(o)') + Cardinality(Owed(o)') + uncancelled'[o]
    BY DEF PoolBalanced, Owed
  <1> DEFINE Goal == started'[o] = Cardinality(Pending(o)') + Cardinality(Owed(o)') + uncancelled'[o]
  <1>counts. /\ started[o] = Cardinality(Pending(o)) + Cardinality(Owed(o)) + uncancelled[o]
        /\ started[o] \in Int /\ uncancelled[o] \in Int
        /\ Cardinality(Pending(o)) \in Int /\ Cardinality(Owed(o)) \in Int
    BY <1>3, <1>4, Counted
  <1>owed. UNCHANGED orphans => Owed(o)' = Owed(o)
    BY DEF Owed
  <1>6. CASE UNCHANGED <<started, orphans, uncancelled>> /\ Pending(o)' = Pending(o)
    BY <1>counts, <1>owed, <1>6
  <1>7. CASE UNCHANGED vars
    BY <1>6, <1>7 DEF vars, kernel, call, Pending
  <1>8. ASSUME NEW t \in Threads, Call(t) PROVE Goal
    <2>1. UNCHANGED <<started, orphans, uncancelled, target>>
      BY <1>8, CallReturns
    <2>2. \A u \in Threads : Waiting(u)' <=> Waiting(u)
      BY <1>8, CallReturns DEF Waiting
    <2> QED
      BY <1>6, <2>1, <2>2 DEF Pending, Waiting
  <1>9. ASSUME NEW t \in Threads, closeInvalidates(t) \/ KernelCompletes(t) PROVE Goal
    BY <1>6, <1>9 DEF closeInvalidates, KernelCompletes, Pending, TypeOK, kernel
  <1>10. ASSUME NEW t \in Threads, CompletesAtOnce(t) \/ FailsAtOnce(t) PROVE Goal
    <2>1. PICK n \in HangUps(t) : acceptExWithRetry(n) /\ started' = CancelThreadpoolIo(n)
      BY <1>10 DEF CompletesAtOnce, FailsAtOnce
    <2>2. n \in Int /\ uncancelled'[o] = uncancelled[o] + (IF o = ptpIo THEN n ELSE 0)
      BY <2>1, HangUpsTyped
    <2>3. started' = [started EXCEPT ![ptpIo] = started[ptpIo] + n]
      BY <2>1 DEF CancelThreadpoolIo, StartThreadpoolIo
    <2>4. started'[o] = started[o] + (IF o = ptpIo THEN n ELSE 0)
      BY <2>2, <2>3, StartedMoves
    <2>5. UNCHANGED orphans
      BY <1>10 DEF CompletesAtOnce, FailsAtOnce
    <2>6. Pending(o)' = Pending(o)
      <3>1. PICK r : Ends(t, r)
        BY <1>10, ConcludesEnds DEF Concludes
      <3>2. stage[t] = "admitted"
        BY <1>10 DEF CompletesAtOnce, FailsAtOnce
      <3> QED
        BY <3>1, <3>2 DEF Ends, Finish, Pending, TypeOK
    <2> QED
      BY <1>counts, <1>owed, <2>2, <2>4, <2>5, <2>6
  <1>11. ASSUME NEW t \in Threads, Suspends(t) PROVE Goal
    <2>1. PICK n \in HangUps(t) : acceptExWithRetry(n) /\ started' = StartThreadpoolIo(n + 1)
      BY <1>11 DEF Suspends
    <2>2. n \in Int /\ n + 1 \in Int /\ uncancelled'[o] = uncancelled[o] + (IF o = ptpIo THEN n ELSE 0)
      BY <2>1, HangUpsTyped
    <2>3. started' = [started EXCEPT ![ptpIo] = started[ptpIo] + (n + 1)]
      BY <2>1 DEF StartThreadpoolIo
    <2>4. started'[o] = started[o] + (IF o = ptpIo THEN n + 1 ELSE 0)
      BY <2>2, <2>3, StartedMoves
    <2>5. UNCHANGED orphans /\ stage[t] = "admitted"
      BY <1>11 DEF Suspends
    <2>6. Resolve(socket) = ptpIo
      BY <1>1, <1>11, Zenon DEF Suspends
    <2>7. Pending(o)' = IF o = ptpIo THEN Pending(o) \cup {t} ELSE Pending(o)
      BY <1>11, <2>5, <2>6 DEF Suspends, Pending, TypeOK
    <2>8. Cardinality(Pending(o)') = Cardinality(Pending(o)) + (IF o = ptpIo THEN 1 ELSE 0)
      <3>1. t \notin Pending(o)
        BY <2>5 DEF Pending
      <3>2. Cardinality(Pending(o) \cup {t}) = Cardinality(Pending(o)) + 1
        BY <3>1, Counted, FS_AddElement
      <3>3. CASE o = ptpIo
        BY <2>7, <3>2, <3>3
      <3>4. CASE o # ptpIo
        BY <1>counts, <2>7, <3>4
      <3> QED
        BY <3>3, <3>4
    <2> QED
      BY <1>counts, <1>owed, <2>2, <2>4, <2>5, <2>8
  <1>12. ASSUME NEW t \in Threads, completionCallback(t) \/ handleCompletionRetries(t)
         PROVE  /\ stage[t] = "queued" /\ target[t] \in Objs
                /\ Cardinality(Pending(o)') = Cardinality(Pending(o)) - (IF o = target[t] THEN 1 ELSE 0)
    <2>1. PICK r : Ends(t, r)
      BY <1>12, ConcludesEnds DEF Concludes
    <2>2. stage[t] = "queued" /\ target[t] \in Objs
      BY <1>12 DEF completionCallback, handleCompletionRetries, Operating, Waiting
    <2>3. Pending(o)' = Pending(o) \ {t} /\ (t \in Pending(o) <=> o = target[t])
      BY <2>1, <2>2 DEF Ends, Finish, Pending, TypeOK
    <2>4. Cardinality(Pending(o) \ {t}) = IF t \in Pending(o) THEN Cardinality(Pending(o)) - 1 ELSE Cardinality(Pending(o))
      BY Counted, FS_RemoveElement
    <2>5. Cardinality(Pending(o)') = Cardinality(Pending(o)) - (IF o = target[t] THEN 1 ELSE 0)
      <3>1. CASE o = target[t]
        BY <2>3, <2>4, <3>1
      <3>2. CASE o # target[t]
        BY <1>counts, <2>3, <2>4, <3>2
      <3> QED
        BY <3>1, <3>2
    <2> QED
      BY <2>2, <2>5
  <1>13. ASSUME NEW t \in Threads, completionCallback(t) PROVE Goal
    <2>1. started'[o] = started[o] - (IF o = target[t] THEN 1 ELSE 0) /\ UNCHANGED <<orphans, uncancelled>>
      BY <1>13 DEF completionCallback, TypeOK
    <2> QED
      BY <1>counts, <1>owed, <1>12, <1>13, <2>1
  <1>14. ASSUME NEW t \in Threads, handleCompletionRetries(t) PROVE Goal
    <2> DEFINE h == Resolve(handle[t])
    <2>1. h \in {ptpIo, NoObj}
      BY <1>1, <1>14, Zenon DEF handleCompletionRetries
    <2>2. PICK n \in HangUps(t), k \in Int :
            /\ acceptExWithRetry(n)
            /\ started' = [[started EXCEPT ![target[t]] = @ - 1] EXCEPT ![ptpIo] = @ + k]
            /\ \/ k = n /\ UNCHANGED orphans
               \/ k = n + 1 /\ Open(h) /\ orphans' = orphans \cup {<<h, prep[t]>>}
      BY <1>14, RetryCounts
    <2>n. n \in Int /\ uncancelled'[o] = uncancelled[o] + (IF o = ptpIo THEN n ELSE 0)
      BY <2>2, HangUpsTyped
    <2>k. started'[o] = started[o] - (IF o = target[t] THEN 1 ELSE 0) + (IF o = ptpIo THEN k ELSE 0)
      BY <2>2 DEF TypeOK
    <2>3. CASE k = n /\ UNCHANGED orphans
      BY <1>counts, <1>owed, <1>12, <1>14, <2>n, <2>k, <2>3
    <2>4. CASE k = n + 1 /\ Open(h) /\ orphans' = orphans \cup {<<h, prep[t]>>}
      <3>1. h = ptpIo
        BY <2>1, <2>4 DEF Open
      <3>2. <<h, prep[t]>> \notin orphans
        <4>1. Active(t) /\ op[t] = "accept"
          BY <1>14 DEF handleCompletionRetries, Active
        <4> QED
          BY <4>1 DEF Prepared, Retried
      <3>3. Cardinality(Owed(o)') = Cardinality(Owed(o)) + (IF o = ptpIo THEN 1 ELSE 0)
        <4>1. Owed(o)' = IF o = ptpIo THEN Owed(o) \cup {<<h, prep[t]>>} ELSE Owed(o)
          BY <2>4, <3>1 DEF Owed
        <4>2. <<h, prep[t]>> \notin Owed(o)
          BY <3>2 DEF Owed
        <4>3. Cardinality(Owed(o) \cup {<<h, prep[t]>>}) = Cardinality(Owed(o)) + 1
          BY <4>2, Counted, FS_AddElement
        <4>4. CASE o = ptpIo
          BY <4>1, <4>3, <4>4
        <4>5. CASE o # ptpIo
          BY <1>counts, <4>1, <4>5
        <4> QED
          BY <4>4, <4>5
      <3> QED
        BY <1>counts, <1>12, <1>14, <2>n, <2>k, <2>4, <3>3
    <2> QED
      BY <2>2, <2>3, <2>4
  <1>15. CASE OrphanCompletes
    <2>1. PICK p \in orphans : orphans' = orphans \ {p} /\ started' = [started EXCEPT ![p[1]] = @ - 1]
      BY <1>15 DEF OrphanCompletes
    <2>2. UNCHANGED <<uncancelled, stage, target>>
      BY <1>15 DEF OrphanCompletes, call
    <2>3. started'[o] = started[o] - (IF o = p[1] THEN 1 ELSE 0)
      BY <2>1 DEF TypeOK
    <2>4. Cardinality(Owed(o)') = Cardinality(Owed(o)) - (IF o = p[1] THEN 1 ELSE 0)
      <3>1. Owed(o)' = Owed(o) \ {p} /\ (p \in Owed(o) <=> o = p[1])
        BY <2>1 DEF Owed
      <3>2. Cardinality(Owed(o) \ {p}) = IF p \in Owed(o) THEN Cardinality(Owed(o)) - 1 ELSE Cardinality(Owed(o))
        BY Counted, FS_RemoveElement
      <3>3. CASE o = p[1]
        BY <3>1, <3>2, <3>3
      <3>4. CASE o # p[1]
        BY <1>counts, <3>1, <3>2, <3>4
      <3> QED
        BY <3>3, <3>4
    <2>5. Pending(o)' = Pending(o)
      BY <2>2 DEF Pending
    <2> QED
      BY <1>counts, <2>2, <2>3, <2>4, <2>5
  <1> QED
    BY <1>7, <1>8, <1>9, <1>10, <1>11, <1>13, <1>14, <1>15 DEF Next, await_suspend, Callback

-----------------------------------------------------------------------------
\* All of it holds at the start, ...
LEMMA InitInvariant == Init => IInv
  <1> SUFFICES ASSUME Init PROVE IInv
    OBVIOUS
  <1> USE WinSocketAssumption DEF Init
  <1>1. TypeOK
    <2>1. <<0, "Ok">> \in Results /\ NoCompletion \in [bytes : 0..1, error : KernelErrors \cup {"ERROR_SUCCESS"}]
      BY DEF NoCompletion, Results, SocketErrors
    <2>2. 0 \in 0..MaxCalls /\ 0 \in 0..MaxRetries
      OBVIOUS
    <2>3. unset \in [Threads -> BOOLEAN] /\ localAddr \in BOOLEAN /\ foreign \in BOOLEAN /\ corrupt \in BOOLEAN
      BY Zenon
    <2>4. /\ socket \in Names \cup {INVALID_SOCKET} /\ ptpIo \in Objs \cup {NoObj}
          /\ names \in [Names -> Objs \cup {NoObj}]
          /\ kobj \in [Objs -> {"unused", "fresh", "bound", "listening", "connected", "closed"}]
          /\ started \in [Objs -> Int] /\ uncancelled \in [Objs -> 0..MaxRetries]
      BY <2>2
    <2>5. /\ op \in [Threads -> IoOps \cup {"none", "init", "bind", "listen", "close", "control"}]
          /\ stage \in [Threads -> {"idle", "closing", "admitted", "pending", "queued"}]
          /\ handle \in [Threads -> Names \cup {INVALID_SOCKET}]
          /\ target \in [Threads -> Objs \cup {NoObj}] /\ prep \in [Threads -> Objs \cup {NoObj}]
          /\ result \in [Threads -> Results]
          /\ outcome \in [Threads -> [bytes : 0..1, error : KernelErrors \cup {"ERROR_SUCCESS"}]]
      BY <2>1
    <2> QED
      BY <2>2, <2>3, <2>4, <2>5 DEF TypeOK
  <1>2. OwnSocket /\ Operating /\ Prepared /\ HandedOut /\ Retried /\ ClosingHeld /\ ConnectedKept /\ OkIsHandedOut
    BY DEF OwnSocket, Operating, Prepared, HandedOut, Retried, ClosingHeld, ConnectedKept, OkIsHandedOut, Active, Waiting, Closing
  <1>3. PoolBalanced
    <2>1. \A o \in Objs : Pending(o) = {} /\ {p \in orphans : p[1] = o} = {}
      BY DEF Pending
    <2> QED
      BY <2>1, FS_EmptySet DEF PoolBalanced
  <1>4. OpenSocketsHeld /\ TransferAsKernel /\ CallbackFindsAwaiter
    BY DEF OpenSocketsHeld, TransferAsKernel, CallbackFindsAwaiter, Open
  <1> QED
    BY <1>1, <1>2, <1>3, <1>4 DEF IInv

\* ... and every step keeps it.
LEMMA NextInvariant == IInv /\ [Next]_vars => IInv'
  BY TypeKept, OwnKept, OperatingKept, PreparedKept, HandedOutKept, RetriedKept, ClosingHeldKept, ConnectedStays,
     ResultsKept, PoolKept, HeldKept, AwaiterKept DEF IInv

\* The inductive invariant holds in every behaviour.
THEOREM Invariance == Spec => []IInv
  BY InitInvariant, NextInvariant, PTL DEF Spec

\* What the calls have taken from the kernel and the pool is accounted for:
\* every StartThreadpoolIo is matched and every open socket is held by somebody,
\* however many threads close, accept and complete in whatever order.
THEOREM EverythingAccounted == Spec => []Accounted
  <1>1. IInv => Accounted
    BY DEF IInv, Accounted
  <1> QED
    BY <1>1, Invariance, PTL

\* A call returns what the kernel made of its operation: the bytes, the error,
\* or a connected socket that nobody else has.
THEOREM ResultsFromKernel == Spec => []ResultsAsKernel
  <1>1. IInv => OkAcceptHasSocket
    BY DEF IInv, OkIsHandedOut, ConnectedKept, OkAcceptHasSocket
  <1>2. IInv => ResultsAsKernel
    BY <1>1 DEF IInv, ResultsAsKernel
  <1> QED
    BY <1>2, Invariance, PTL

\* A callback finds the awaiter of its operation alive as long as no client
\* has hung up on an AcceptEx.
THEOREM AwaiterAlive == Spec => []CallbackFindsAwaiter
  <1>1. IInv => CallbackFindsAwaiter
    BY DEF IInv
  <1> QED
    BY <1>1, Invariance, PTL

\* A step that reaches a stranger's socket.
LEMMA ForeignStep ==
  ASSUME IInv, [Next]_vars, foreign' # foreign
  PROVE  Closing \/ hangUps > 0
  <1> USE DEF IInv
  <1>1. socket # INVALID_SOCKET /\ Resolve(socket) # ptpIo => Closing
    BY DEF OwnSocket
  <1>2. ASSUME NEW t \in Threads, CompletesAtOnce(t) \/ FailsAtOnce(t) \/ Suspends(t) PROVE Closing
    <2>1. Resolve(socket) # NoObj /\ Resolve(socket) # ptpIo
      <3>1. CASE FailsAtOnce(t)
        BY <3>1, Zenon DEF FailsAtOnce, TypeOK
      <3>2. CASE CompletesAtOnce(t)
        BY <3>2, Zenon DEF CompletesAtOnce, Open, TypeOK
      <3>3. CASE Suspends(t)
        BY <3>3, Zenon DEF Suspends, Open, TypeOK
      <3> QED
        BY <1>2, <3>1, <3>2, <3>3
    <2> QED
      BY <1>1, <2>1 DEF Resolve
  <1>3. ASSUME NEW t \in Threads, handleCompletionRetries(t) PROVE hangUps > 0
    BY <1>3 DEF handleCompletionRetries, Retried
  <1>4. ASSUME NEW t \in Threads, Call(t) PROVE FALSE
    BY <1>4, CallReturns
  <1> QED
    BY <1>2, <1>3, <1>4 DEF Next, vars, history, closeInvalidates, await_suspend, KernelCompletes, Callback,
       completionCallback, OrphanCompletes

\* An operation is started on the socket of somebody else only if the handle
\* was read during a close or kept for the retry of an accept.
THEOREM StrangersOnlyInClose == Spec => ForeignOnlyInClose
  <1>1. IInv /\ [Next]_vars => [foreign' # foreign => (\E t \in Threads : stage[t] = "closing") \/ hangUps > 0]_vars
    BY ForeignStep DEF Closing
  <1> QED
    BY <1>1, Invariance, PTL DEF Spec, ForeignOnlyInClose
=============================================================================
