------------------------ MODULE BufferedReaderProofs ------------------------
(***************************************************************************)
(* The theorems about BufferedReader, for every stream, buffer size and    *)
(* set of lengths, and callers that do not discard behind stale indices.   *)
(* The invariant IInv says at every point of every operation which bytes   *)
(* of the stream the buffer holds and what has been searched or compared;  *)
(* the exactness of the results and the refinement follow from it.         *)
(***************************************************************************)
EXTENDS BufferedReader, TLAPS

\* The stream is a sequence of characters, with positions from 0.
LEMMA InputType == N \in Nat /\ \A p \in 0 .. (N - 1) : Char(p) \in Chars
  BY InputAssumption DEF N, Char

\* Arithmetic of uint32_t is exact as long as nothing exceeds UINT32_MAX.
LEMMA WrapInRange == ASSUME NEW n \in 0 .. UintMax PROVE Wrap(n) = n
  BY SizeAssumption DEF Wrap, UintMax

\* endIndex - startIndex does not wrap: the indices are in order.
LEMMA AvailableIs ==
  ASSUME TypeOK, BufferHoldsUnread, SizesFit
  PROVE  /\ available = endIndex - startIndex
         /\ available \in Nat
         /\ endIndex - startIndex \in 0 .. bufferLen
  <1>1. endIndex - startIndex \in 0 .. UintMax
    BY SizeAssumption DEF TypeOK, BufferHoldsUnread, SizesFit, UintMax
  <1> QED
    BY <1>1, WrapInRange, SizeAssumption DEF available, TypeOK, BufferHoldsUnread, SizesFit, UintMax

\* What a call may return has the type of a result.
LEMMA ResultTyped ==
  ASSUME NEW e \in Errors, NEW m \in BOOLEAN, NEW from \in Nat, NEW n \in Nat
  PROVE  Result(e, m, from, n) \in ResultType
  BY DEF Result, ResultType

\* A buffer of one of the callers' lengths has the type of dest.
LEMMA DestTyped ==
  ASSUME NEW n \in {0} \cup DestLens, NEW d \in [0 .. (n - 1) -> Cell]
  PROVE  d \in UNION {[0 .. (k - 1) -> Cell] : k \in {0} \cup DestLens}
  OBVIOUS

\* So has the empty buffer.
LEMMA NoBytesTyped == NoBytes \in UNION {[0 .. (k - 1) -> Cell] : k \in {0} \cup DestLens}
  <1>1. NoBytes \in [0 .. (0 - 1) -> Cell]
    BY DEF NoBytes
  <1> QED
    BY <1>1, DestTyped

\* A reader that has just been initialised satisfies the invariant.
LEMMA InitIInv == Init => IInv
  <1> SUFFICES ASSUME Init PROVE IInv
    OBVIOUS
  <1> USE InputType, SizeAssumption DEF Init, init, UintMax
  <1>1. TypeOK
    <2>1. ret \in ResultType
      BY ResultTyped DEF Errors
    <2>2. buffer \in [0 .. (bufferLen - 1) -> Cell]
      BY DEF Cell
    <2>3. /\ received \in 0 .. N /\ consumed \in 0 .. N /\ base \in 0 .. N
          /\ bufferLen \in Nat /\ startIndex \in Nat /\ endIndex \in Nat
          /\ arg \in Nat /\ len \in Nat /\ index \in Nat
      OBVIOUS
    <2>4. dest \in UNION {[0 .. (k - 1) -> Cell] : k \in {0} \cup DestLens}
      BY NoBytesTyped
    <2>5. /\ pc \in {"idle", "read", "line", "peek", "discard"} \cup Waiting
          /\ op \in {"none", "read", "fixed", "line", "peek", "discard"}
          /\ pattern \in Patterns \cup {<< >>}
      OBVIOUS
    <2> HIDE DEF Init, init
    <2> QED
      BY <2>1, <2>2, <2>3, <2>4, <2>5 DEF TypeOK
  <1>2. BufferHoldsUnread /\ BytesBehind /\ SizesFit
    BY DEF BufferHoldsUnread, BytesBehind, SizesFit
  <1>3. CopiesInOrder /\ ReadInProgress /\ LineInProgress /\ PeekInProgress /\ DiscardInProgress
    BY DEF CopiesInOrder, ReadInProgress, LineInProgress, PeekInProgress, DiscardInProgress
  <1> QED
    BY <1>1, <1>2, <1>3 DEF IInv

Sane ==
  /\ N \in Nat /\ bufferLen \in Nat /\ startIndex \in Nat /\ endIndex \in Nat
  /\ received \in Nat /\ received <= N /\ consumed \in Nat /\ consumed <= N
  /\ len \in Nat /\ index \in Nat
  /\ arg \in Nat /\ base \in Nat /\ base <= consumed
  /\ available = endIndex - startIndex /\ available \in Nat
  /\ startIndex <= endIndex /\ endIndex <= bufferLen
  /\ received = consumed + (endIndex - startIndex)

\* The numeric facts that nearly every step needs.
LEMMA Basics == IInv => Sane
  <1> SUFFICES ASSUME IInv PROVE Sane
    OBVIOUS
  <1>1. TypeOK /\ BufferHoldsUnread /\ SizesFit /\ base <= consumed
    BY DEF IInv
  <1> QED
    BY <1>1, AvailableIs, InputType DEF TypeOK, BufferHoldsUnread, Sane

\* read copies what is buffered: bytes leave the buffer in stream order.
LEMMA ReadBufferedIInv == IInv /\ ReadBuffered => IInv'
  <1> SUFFICES ASSUME IInv, ReadBuffered PROVE IInv'
    OBVIOUS
  <1>0. /\ Sane /\ TypeOK /\ BufferHoldsUnread /\ BytesBehind /\ SizesFit
        /\ CopiesInOrder /\ ReadInProgress
    BY Basics DEF IInv
  <1>a. /\ op \in {"read", "fixed"} /\ pc = "read" 
        /\ len = arg - (consumed - base)
        /\ dest \in [0 .. (arg - 1) -> Cell]
        /\ \A i \in 0 .. (consumed - base - 1) : dest[i] = base + i
    BY <1>0 DEF ReadBuffered, ReadInProgress, CopiesInOrder
  <1>b. PICK c \in Nat : c = MinOf(available, len)
    BY <1>0 DEF MinOf, Sane
  <1>c. PICK at \in Nat : at = consumed - base
    BY <1>0 DEF Sane
  <1>d. c <= len /\ c <= available
    BY <1>b, <1>0 DEF MinOf, Sane
  <1>e. /\ startIndex' = startIndex + c /\ len' = len - c /\ consumed' = consumed + c
        /\ UNCHANGED <<buffer, bufferLen, endIndex, received, op, arg, pattern, base, index>>
        /\ pc' \in {"idle", "read"}
        /\ pc' = "read" => op # "read"
    BY <1>a, <1>b DEF ReadBuffered, Copied, callVars
  <1>f. dest' = [i \in 0 .. (arg - 1) |->
                         IF i >= at /\ i < at + c THEN buffer[startIndex + (i - at)] ELSE dest[i]]
    BY <1>a, <1>b, <1>c DEF ReadBuffered
  <1>g. ret' \in ResultType
    <2>1. Result("Ok", FALSE, 0, c) \in ResultType
      BY <1>b, ResultTyped DEF Errors
    <2> QED
      BY <1>0, <1>b, <2>1 DEF TypeOK, ReadBuffered, Copied
  <1>2. BufferHoldsUnread' 
    BY <1>0, <1>d, <1>e DEF Sane, BufferHoldsUnread
  <1>3. BytesBehind' 
    BY <1>0, <1>d, <1>e DEF Sane, BufferHoldsUnread, BytesBehind
  <1>4. SizesFit' 
    BY <1>0, <1>d, <1>e DEF SizesFit
  <1>5. dest' \in [0 .. (arg - 1) -> Cell]
    <2> buffer \in [0 .. (bufferLen - 1) -> Cell] 
      BY <1>0 DEF TypeOK
    <2> SUFFICES ASSUME NEW i \in 0 .. (arg - 1)
                 PROVE  (IF i >= at /\ i < at + c THEN buffer[startIndex + (i - at)] ELSE dest[i]) \in Cell
      BY <1>f
    <2>1. i >= at /\ i < at + c => startIndex + (i - at) \in 0 .. (bufferLen - 1)
      BY <1>0, <1>d DEF Sane
    <2> QED
      BY <1>a, <2>1
  <1>6. CopiesInOrder'
    <2>1. ASSUME NEW i \in 0 .. (at + c - 1) PROVE dest'[i] = base + i
      <3>1. i \in 0 .. (arg - 1)
        BY <1>0, <1>a, <1>c, <1>d DEF Sane
      <3>2. CASE i >= at
        <4>1. buffer[startIndex + (i - at)] = consumed + (i - at)
          BY <1>0, <1>d, <3>2 DEF Sane, BufferHoldsUnread
        <4> QED
          BY <1>0, <1>c, <1>f, <3>1, <3>2, <4>1 DEF Sane
      <3>3. CASE ~(i >= at)
        BY <1>0, <1>a, <1>c, <1>f, <3>1, <3>3 DEF Sane
      <3> QED
        BY <3>2, <3>3
    <2> QED
      BY <1>0, <1>5, <1>a, <1>c, <1>e, <2>1 DEF Sane, CopiesInOrder
  <1>1. TypeOK'
    <2>1. dest' \in UNION {[0 .. (k - 1) -> Cell] : k \in {0} \cup DestLens}
      BY <1>0, <1>5, <1>a, DestTyped DEF SizesFit
    <2> QED
      BY <1>0, <2>1, <1>a, <1>d, <1>e, <1>g DEF Sane, TypeOK
  <1>7. ReadInProgress' /\ LineInProgress' /\ PeekInProgress' /\ DiscardInProgress'
    BY <1>a, <1>e DEF ReadInProgress, LineInProgress, PeekInProgress, DiscardInProgress
  <1> QED
    BY <1>0, <1>1, <1>2, <1>3, <1>4, <1>6, <1>7, <1>e DEF Sane, IInv

-----------------------------------------------------------------------------
(* Entering a call.                                                        *)

\* The beginning of read and readFixedLength.
LEMMA EnterReadIInv ==
  ASSUME IInv, NEW o \in {"read", "fixed"}, NEW n \in DestLens, EnterRead(o, n)
  PROVE  IInv'
  <1>0. Sane /\ TypeOK /\ BufferHoldsUnread /\ BytesBehind /\ SizesFit
    BY Basics DEF IInv
  <1>1. n \in Nat
    BY SizeAssumption DEF UintMax
  <1>a. /\ pc' = "read" /\ op' = o /\ arg' = n /\ pattern' = << >> /\ base' = consumed
        /\ len' = n /\ dest' = [i \in 0 .. (n - 1) |-> NoByte]
        /\ UNCHANGED <<buffer, bufferLen, startIndex, endIndex, received, consumed, index, ret>>
    BY DEF EnterRead, Enter, bufferVars
  <1>2. dest' \in [0 .. (n - 1) -> Cell]
    BY <1>a DEF Cell
  <1>3. TypeOK'
    <2>1. dest' \in UNION {[0 .. (k - 1) -> Cell] : k \in {0} \cup DestLens}
      BY <1>2, DestTyped
    <2> QED
      BY <1>0, <1>1, <1>a, <2>1 DEF TypeOK, Sane
  <1>4. BufferHoldsUnread' /\ BytesBehind' /\ SizesFit'
    BY <1>0, <1>a DEF BufferHoldsUnread, BytesBehind, SizesFit
  <1>5. CopiesInOrder'
    BY <1>0, <1>1, <1>2, <1>a DEF CopiesInOrder, Sane
  <1>6. ReadInProgress' /\ LineInProgress' /\ PeekInProgress' /\ DiscardInProgress'
    BY <1>a DEF ReadInProgress, LineInProgress, PeekInProgress, DiscardInProgress
  <1> QED
    BY <1>0, <1>3, <1>4, <1>5, <1>6, <1>a DEF IInv, Sane

\* The beginning of readLine: nothing is searched yet.
LEMMA ReadLineIInv ==
  ASSUME IInv, NEW m \in MaxLengths, readLine(m)
  PROVE  IInv'
  <1>0. Sane /\ TypeOK /\ BufferHoldsUnread /\ BytesBehind /\ SizesFit
    BY Basics DEF IInv
  <1>1. m \in Nat
    BY SizeAssumption
  <1>a. /\ pc' = "line" /\ op' = "line" /\ arg' = m /\ pattern' = << >> /\ base' = consumed
        /\ len' = m /\ dest' = NoBytes /\ index' = startIndex
        /\ UNCHANGED <<buffer, bufferLen, startIndex, endIndex, received, consumed, ret>>
    BY DEF readLine, Enter, bufferVars
  <1>2. TypeOK'
    BY <1>0, <1>1, <1>a, NoBytesTyped DEF TypeOK, Sane
  <1>3. BufferHoldsUnread' /\ BytesBehind' /\ SizesFit'
    BY <1>0, <1>a DEF BufferHoldsUnread, BytesBehind, SizesFit
  <1>4. CopiesInOrder' /\ ReadInProgress' /\ PeekInProgress' /\ DiscardInProgress'
    BY <1>a DEF CopiesInOrder, ReadInProgress, PeekInProgress, DiscardInProgress
  <1>5. LineInProgress'
    BY <1>0, <1>a DEF LineInProgress, Sane
  <1> QED
    BY <1>0, <1>2, <1>3, <1>4, <1>5, <1>a DEF IInv, Sane

\* The beginning of peekMatch.
LEMMA PeekMatchIInv ==
  ASSUME IInv, NEW s \in Patterns, peekMatch(s)
  PROVE  IInv'
  <1>0. Sane /\ TypeOK /\ BufferHoldsUnread /\ BytesBehind /\ SizesFit
    BY Basics DEF IInv
  <1>1. Len(s) \in Nat
    BY SizeAssumption
  <1>a. /\ pc' = "peek" /\ op' = "peek" /\ arg' = Len(s) /\ pattern' = s /\ base' = consumed
        /\ len' = Len(s) /\ dest' = NoBytes
        /\ UNCHANGED <<buffer, bufferLen, startIndex, endIndex, received, consumed, index, ret>>
    BY DEF peekMatch, Enter, bufferVars
  <1>2. TypeOK'
    BY <1>0, <1>1, <1>a, NoBytesTyped DEF TypeOK, Sane
  <1>3. BufferHoldsUnread' /\ BytesBehind' /\ SizesFit'
    BY <1>0, <1>a DEF BufferHoldsUnread, BytesBehind, SizesFit
  <1>4. CopiesInOrder' /\ ReadInProgress' /\ LineInProgress' /\ PeekInProgress' /\ DiscardInProgress'
    BY <1>a DEF CopiesInOrder, ReadInProgress, LineInProgress, PeekInProgress, DiscardInProgress
  <1> QED
    BY <1>0, <1>2, <1>3, <1>4, <1>a DEF IInv, Sane

\* The beginning of discard, by a caller that has bytes buffered or fresh
\* indices.
LEMMA DiscardIInv ==
  ASSUME IInv, CarefulDiscardCall
  PROVE  IInv'
  <1>0. Sane /\ TypeOK /\ BufferHoldsUnread /\ BytesBehind /\ SizesFit
    BY Basics DEF IInv
  <1>1. PICK n \in DestLens : discard(n)
    BY DEF CarefulDiscardCall, DiscardCall
  <1>2. n \in Nat
    BY SizeAssumption DEF UintMax
  <1>a. /\ pc' = "discard" /\ op' = "discard" /\ arg' = n /\ pattern' = << >> /\ base' = consumed
        /\ len' = n /\ dest' = NoBytes
        /\ UNCHANGED <<buffer, bufferLen, startIndex, endIndex, received, consumed, index, ret>>
    BY <1>1 DEF discard, Enter, bufferVars
  <1>3. TypeOK'
    BY <1>0, <1>2, <1>a, NoBytesTyped DEF TypeOK, Sane
  <1>4. BufferHoldsUnread' /\ BytesBehind' /\ SizesFit'
    BY <1>0, <1>a DEF BufferHoldsUnread, BytesBehind, SizesFit
  <1>5. CopiesInOrder' /\ ReadInProgress' /\ LineInProgress' /\ PeekInProgress'
    BY <1>a DEF CopiesInOrder, ReadInProgress, LineInProgress, PeekInProgress
  <1>6. DiscardInProgress'
    BY <1>0, <1>2, <1>a DEF CarefulDiscardCall, DiscardInProgress, Sane
  <1> QED
    BY <1>0, <1>3, <1>4, <1>5, <1>6, <1>a DEF IInv, Sane

-----------------------------------------------------------------------------
(* read and readFixedLength                                                *)

\* With nothing buffered, read starts from fresh indices and asks the socket.
LEMMA ReadVectoredIInv == IInv /\ ReadVectored => IInv'
  <1> SUFFICES ASSUME IInv, ReadVectored PROVE IInv'
    OBVIOUS
  <1>0. /\ Sane /\ TypeOK /\ BufferHoldsUnread /\ SizesFit
        /\ CopiesInOrder /\ ReadInProgress
    BY Basics DEF IInv
  <1>a. /\ pc = "read" /\ pc' = "readSocket" /\ available = 0
        /\ startIndex' = 0 /\ endIndex' = 0
        /\ op = "read" \/ len > 0
        /\ UNCHANGED <<buffer, bufferLen, received, consumed, op, arg, pattern, base, len, index, dest, ret>>
    BY DEF ReadVectored, callVars
  <1>1. TypeOK' /\ SizesFit'
    BY <1>0, <1>a DEF TypeOK, SizesFit, Waiting
  <1>2. BufferHoldsUnread' /\ BytesBehind'
    BY <1>0, <1>a DEF BufferHoldsUnread, BytesBehind, Sane
  <1>3. CopiesInOrder'
    BY <1>0, <1>a DEF CopiesInOrder
  <1>4. ReadInProgress' /\ LineInProgress' /\ PeekInProgress' /\ DiscardInProgress'
    BY <1>0, <1>a DEF ReadInProgress, LineInProgress, PeekInProgress, DiscardInProgress
  <1> QED
    BY <1>0, <1>1, <1>2, <1>3, <1>4, <1>a DEF IInv, Sane

\* A call that returns without touching the buffer.
LEMMA QuietReturn ==
  ASSUME IInv, pc' = "idle", ret' \in ResultType,
         UNCHANGED <<bufferVars, received, consumed, callVars, len, index, dest>>
  PROVE  IInv'
  <1>0. Sane /\ TypeOK /\ BufferHoldsUnread /\ BytesBehind /\ SizesFit /\ CopiesInOrder
    BY Basics DEF IInv
  <1>a. UNCHANGED <<buffer, bufferLen, startIndex, endIndex, received, consumed,
                    op, arg, pattern, base, len, index, dest>>
    BY DEF bufferVars, callVars
  <1>1. TypeOK'
    BY <1>0, <1>a DEF TypeOK
  <1>2. BufferHoldsUnread' /\ BytesBehind' /\ SizesFit' /\ CopiesInOrder'
    BY <1>0, <1>a DEF BufferHoldsUnread, BytesBehind, SizesFit, CopiesInOrder
  <1>3. ReadInProgress' /\ LineInProgress' /\ PeekInProgress' /\ DiscardInProgress'
    BY <1>a DEF ReadInProgress, LineInProgress, PeekInProgress, DiscardInProgress
  <1> QED
    BY <1>0, <1>1, <1>2, <1>3, <1>a DEF IInv, Sane

\* A call that returns an error has a result of the right type.
LEMMA ReturnTyped ==
  ASSUME NEW e \in Errors, Return(e) PROVE ret' \in ResultType /\ pc' = "idle"
  BY ResultTyped DEF Return

\* The four steps that return and leave the buffer alone.
LEMMA QuietIInv == IInv /\ (FixedDone \/ LineTooLong \/ SocketEof \/ SocketError) => IInv'
  <1>1. IInv /\ FixedDone => IInv'
    BY QuietReturn, ReturnTyped DEF FixedDone, Errors
  <1>2. IInv /\ LineTooLong => IInv'
    BY QuietReturn, ReturnTyped DEF LineTooLong, Errors
  <1>3. IInv /\ SocketEof => IInv'
    BY QuietReturn, ReturnTyped DEF SocketEof, Errors
  <1>4. IInv /\ SocketError => IInv'
    BY QuietReturn, ReturnTyped DEF SocketError, Errors
  <1> QED
    BY <1>1, <1>2, <1>3, <1>4

\* Where a read of the socket puts its bytes: in stream order from `at' on.
LEMMA StoreIs ==
  ASSUME Sane, NEW m \in Nat, NEW b \in [0 .. (m - 1) -> Cell],
         NEW at \in Nat, NEW k \in Nat, received + k <= N
  PROVE  /\ Store(b, at, k) \in [0 .. (m - 1) -> Cell]
         /\ \A i \in 0 .. (m - 1) :
              Store(b, at, k)[i] = IF i >= at /\ i < at + k THEN received + (i - at) ELSE b[i]
  <1>1. ASSUME NEW i \in 0 .. (m - 1), i >= at /\ i < at + k
        PROVE  received + (i - at) \in Cell
    BY <1>1 DEF Sane, Cell
  <1> QED
    BY <1>1 DEF Store

\* A read of the socket brings at least one byte and no more than asked for.
LEMMA ArrivingIs ==
  ASSUME Sane, NEW n \in Nat, NEW k \in Arriving(n)
  PROVE  k \in Nat /\ k >= 1 /\ k <= n /\ received + k <= N
  BY DEF Arriving, MinOf, Sane

\* The vectored read: what does not fit the caller's buffer begins the reader's
\* own.
LEMMA ReadArriveIInv == IInv /\ ReadArrive => IInv'
  <1> SUFFICES ASSUME IInv, ReadArrive PROVE IInv'
    OBVIOUS
  <1>0. /\ Sane /\ TypeOK /\ BufferHoldsUnread /\ SizesFit /\ CopiesInOrder /\ ReadInProgress
    BY Basics DEF IInv
  <1>a. /\ op \in {"read", "fixed"} /\ pc = "readSocket" /\ startIndex = 0 /\ endIndex = 0
        /\ len = arg - (consumed - base)
        /\ dest \in [0 .. (arg - 1) -> Cell]
        /\ \A i \in 0 .. (consumed - base - 1) : dest[i] = base + i
    BY <1>0 DEF ReadArrive, ReadInProgress, CopiesInOrder
  <1>b. PICK k \in Arriving(len + bufferLen) :
         LET direct == MinOf(k, len)
             at == consumed - base
         IN  /\ dest' = Store(dest, at, direct)
             /\ buffer' = [i \in DOMAIN buffer |->
                             IF i < k - direct THEN received + direct + i ELSE buffer[i]]
             /\ endIndex' = k - direct
             /\ received' = received + k
             /\ Copied(direct)
    BY DEF ReadArrive
  <1>c. PICK d \in Nat : d = MinOf(k, len)
    <2>1. k \in Nat
      BY <1>0, ArrivingIs DEF Sane
    <2> QED
      BY <1>0, <2>1 DEF MinOf, Sane
  <1>d. k \in Nat /\ k >= 1 /\ k <= len + bufferLen /\ received + k <= N /\ d <= k /\ d <= len
        /\ k - d <= bufferLen
    <2>1. k \in Nat /\ k >= 1 /\ k <= len + bufferLen /\ received + k <= N
      BY <1>0, ArrivingIs DEF Sane
    <2> QED
      BY <1>0, <1>c, <2>1 DEF MinOf, Sane
  <1>e. /\ endIndex' = k - d /\ received' = received + k
        /\ consumed' = consumed + d /\ len' = len - d
        /\ UNCHANGED <<bufferLen, startIndex, op, arg, pattern, base, index>>
        /\ pc' \in {"idle", "read"}
        /\ pc' = "read" => op # "read"
    BY <1>a, <1>b, <1>c DEF ReadArrive, Copied, callVars
  <1>f. PICK at \in Nat : at = consumed - base
    BY <1>0 DEF Sane
  <1>g. dest' = Store(dest, at, d)
    BY <1>b, <1>c, <1>f
  <1>h. received = consumed
    BY <1>0, <1>a DEF Sane
  <1>i. buffer \in [0 .. (bufferLen - 1) -> Cell]
    BY <1>0 DEF TypeOK
  <1>j. buffer' = [i \in 0 .. (bufferLen - 1) |->
                      IF i < k - d THEN received + d + i ELSE buffer[i]]
    BY <1>b, <1>c, <1>i
  <1>k. ret' \in ResultType
    <2>1. Result("Ok", FALSE, 0, d) \in ResultType
      BY ResultTyped DEF Errors
    <2> QED
      BY <1>0, <1>b, <1>c, <2>1 DEF TypeOK, Copied
  <1>1. buffer' \in [0 .. (bufferLen - 1) -> Cell]
    <2>1. ASSUME NEW i \in 0 .. (bufferLen - 1), i < k - d
          PROVE  received + d + i \in Cell
      BY <1>0, <1>d, <2>1 DEF Sane, Cell
    <2> QED
      BY <1>i, <1>j, <2>1
  <1>2. /\ dest' \in [0 .. (arg - 1) -> Cell]
        /\ \A i \in 0 .. (arg - 1) :
              dest'[i] = IF i >= at /\ i < at + d THEN received + (i - at) ELSE dest[i]
    <2>1. received + d <= N
      BY <1>0, <1>d DEF Sane
    <2> QED
      BY <1>0, <1>a, <1>g, <2>1, StoreIs DEF Sane
  <1>3. BufferHoldsUnread' /\ BytesBehind'
    BY <1>0, <1>a, <1>d, <1>e, <1>h, <1>j DEF BufferHoldsUnread, BytesBehind, Sane
  <1>4. CopiesInOrder'
    BY <1>0, <1>a, <1>d, <1>e, <1>f, <1>h, <1>2 DEF CopiesInOrder, Sane
  <1>5. TypeOK'
    <2>1. dest' \in UNION {[0 .. (n - 1) -> Cell] : n \in {0} \cup DestLens}
      BY <1>0, <1>2, <1>a, DestTyped DEF SizesFit
    <2> QED
      BY <1>0, <1>1, <1>d, <1>e, <1>h, <1>k, <2>1 DEF TypeOK, Sane
  <1>6. SizesFit'
    BY <1>0, <1>e DEF SizesFit
  <1>7. ReadInProgress' /\ LineInProgress' /\ PeekInProgress' /\ DiscardInProgress'
    BY <1>a, <1>e DEF ReadInProgress, LineInProgress, PeekInProgress, DiscardInProgress
  <1> QED
    BY <1>0, <1>3, <1>4, <1>5, <1>6, <1>7, <1>e DEF IInv, Sane

-----------------------------------------------------------------------------
(* readLine                                                                *)

\* readLine returns a line and goes on behind its newline.
LEMMA LineFoundIInv == IInv /\ LineFound => IInv'
  <1> SUFFICES ASSUME IInv, LineFound PROVE IInv'
    OBVIOUS
  <1>0. /\ Sane /\ TypeOK /\ BufferHoldsUnread /\ SizesFit /\ LineInProgress
    BY Basics DEF IInv
  <1>a. PICK i \in index .. (endIndex - 1) :
         /\ startIndex' = i + 1
         /\ consumed' = consumed + (i + 1 - startIndex)
         /\ ret' = Result("Ok", FALSE, startIndex, Wrap(LineEndIndex(i) - startIndex))
    BY DEF LineFound
  <1>b. /\ pc = "line" /\ pc' = "idle" /\ op = "line"
        /\ UNCHANGED <<buffer, bufferLen, endIndex, received, op, arg, pattern, base, len, index, dest>>
    BY <1>0 DEF LineFound, callVars, LineInProgress
  <1>c. i \in Nat /\ i >= startIndex /\ i < endIndex
    BY <1>0, <1>b DEF LineInProgress, Sane
  <1>d. ret' \in ResultType
    <2>1. Wrap(LineEndIndex(i) - startIndex) \in Nat
      BY <1>0, <1>c, SizeAssumption DEF Wrap, LineEndIndex, Sane, SizesFit, UintMax
    <2> QED
      BY <1>0, <1>a, <2>1, ResultTyped DEF Errors, Sane
  <1>1. TypeOK'
    BY <1>0, <1>a, <1>b, <1>c, <1>d DEF TypeOK, Sane
  <1>2. BufferHoldsUnread' /\ BytesBehind'
    BY <1>0, <1>a, <1>b, <1>c DEF BufferHoldsUnread, BytesBehind, Sane
  <1>3. SizesFit' /\ CopiesInOrder'
    BY <1>0, <1>b DEF SizesFit, CopiesInOrder
  <1>4. ReadInProgress' /\ LineInProgress' /\ PeekInProgress' /\ DiscardInProgress'
    BY <1>b DEF ReadInProgress, LineInProgress, PeekInProgress, DiscardInProgress
  <1> QED
    BY <1>0, <1>1, <1>2, <1>3, <1>4, <1>a, <1>b, <1>c DEF IInv, Sane

\* memmove to the front of the buffer keeps the unread bytes in order.
LEMMA MovedIs ==
  ASSUME Sane, NEW m \in Nat, bufferLen <= m, NEW b \in [0 .. (m - 1) -> Cell]
  PROVE  /\ MovedToFront(b) \in [0 .. (m - 1) -> Cell]
         /\ \A i \in 0 .. (m - 1) :
              MovedToFront(b)[i] = IF i < available THEN b[startIndex + i] ELSE b[i]
  <1>1. ASSUME NEW i \in 0 .. (m - 1), i < available
        PROVE  startIndex + i \in 0 .. (m - 1)
    BY <1>1 DEF Sane
  <1> QED
    BY <1>1 DEF MovedToFront

\* The lines of the stream are scanned from the front only once.
LEMMA NoLineEnd ==
  ASSUME Sane, LineInProgress, pc = "line", ~FoundLineEnd
  PROVE  \A i \in startIndex .. (endIndex - 1) : Char(buffer[i]) # LF
  BY DEF Sane, LineInProgress, FoundLineEnd, IsNewline

\* readLine moves the unread bytes, and the search index with them.
LEMMA LineMoveIInv == IInv /\ LineMove => IInv'
  <1> SUFFICES ASSUME IInv, LineMove PROVE IInv'
    OBVIOUS
  <1>0. Sane /\ TypeOK /\ BufferHoldsUnread /\ SizesFit /\ LineInProgress
    BY Basics DEF IInv
  <1>a. /\ pc = "line" /\ pc' = "lineSocket" /\ op = "line" /\ consumed = base /\ startIndex # 0
        /\ startIndex' = 0 /\ endIndex' = available /\ index' = available
        /\ buffer' = MovedToFront(buffer)
        /\ UNCHANGED <<bufferLen, received, consumed, op, arg, pattern, base, len, dest, ret>>
    BY <1>0 DEF LineMove, MovedSearchIndex, Sane, callVars, LineInProgress
  <1>b. /\ buffer' \in [0 .. (bufferLen - 1) -> Cell]
        /\ \A i \in 0 .. (bufferLen - 1) : i < available => buffer'[i] = buffer[startIndex + i]
    BY <1>0, <1>a, MovedIs DEF TypeOK, Sane
  <1>1. TypeOK'
    BY <1>0, <1>a, <1>b DEF TypeOK, Sane, Waiting
  <1>2. BufferHoldsUnread' /\ BytesBehind'
    BY <1>0, <1>a, <1>b DEF BufferHoldsUnread, BytesBehind, Sane
  <1>3. SizesFit' /\ CopiesInOrder'
    BY <1>0, <1>a DEF SizesFit, CopiesInOrder
  <1>4. ReadInProgress' /\ PeekInProgress' /\ DiscardInProgress'
    BY <1>a DEF ReadInProgress, PeekInProgress, DiscardInProgress
  <1>5. LineInProgress'
    <2>1. \A i \in 0 .. (available - 1) : Char(buffer'[i]) # LF
      <3> SUFFICES ASSUME NEW i \in 0 .. (available - 1) PROVE Char(buffer'[i]) # LF
        OBVIOUS
      <3>1. startIndex + i \in startIndex .. (endIndex - 1) /\ i \in 0 .. (bufferLen - 1)
        BY <1>0 DEF Sane
      <3>2. ~FoundLineEnd
        BY DEF LineMove
      <3>3. \A j \in startIndex .. (endIndex - 1) : Char(buffer[j]) # LF
        BY <1>0, <1>a, <3>2, NoLineEnd
      <3>4. buffer'[i] = buffer[startIndex + i]
        BY <1>0, <1>b, <3>1 DEF Sane
      <3> QED
        BY <3>1, <3>3, <3>4
    <2> QED
      BY <1>0, <1>a, <2>1 DEF LineInProgress, Sane
  <1> QED
    BY <1>0, <1>1, <1>2, <1>3, <1>4, <1>5, <1>a DEF IInv, Sane

\* A larger buffer begins with what was in the old one.
LEMMA GrownIs ==
  ASSUME Sane, TypeOK, NEW n \in Nat, bufferLen <= n
  PROVE  /\ Grown(n) \in [0 .. (n - 1) -> Cell]
         /\ \A i \in 0 .. (bufferLen - 1) : Grown(n)[i] = buffer[i]
  BY DEF Grown, Cell, TypeOK, Sane

\* maxLength + 2 does not wrap, and doubling neither wraps nor stops growing.
LEMMA NewBufferLenIs ==
  ASSUME IInv, op = "line", bufferLen < arg
  PROVE  NewBufferLen \in 1 .. UintMax /\ bufferLen < NewBufferLen /\ NewBufferLen <= arg + 2
  <1>0. Sane /\ SizesFit
    BY Basics DEF IInv
  <1>1. arg \in Nat /\ arg + 2 <= UintMax /\ HalfRange \in Nat
    BY <1>0, SizeAssumption DEF SizesFit
  <1>2. Wrap(arg + 2) = arg + 2
    BY <1>1, WrapInRange DEF UintMax
  <1>3. checkedDouble(bufferLen) \in Nat /\ bufferLen < checkedDouble(bufferLen)
    BY <1>0, <1>1 DEF checkedDouble, SizesFit, UintMax, Sane
  <1> QED
    BY <1>0, <1>1, <1>2, <1>3 DEF NewBufferLen, MinOf, Sane, SizesFit, UintMax

\* readLine gets a larger buffer.
LEMMA LineGrowIInv == IInv /\ LineGrow => IInv'
  <1> SUFFICES ASSUME IInv, LineGrow PROVE IInv'
    OBVIOUS
  <1>0. Sane /\ TypeOK /\ BufferHoldsUnread /\ SizesFit /\ LineInProgress
    BY Basics DEF IInv
  <1>a. /\ pc = "line" /\ pc' = "lineSocket" /\ op = "line" /\ consumed = base
        /\ startIndex = 0 /\ endIndex = bufferLen /\ bufferLen < arg
        /\ buffer' = Grown(NewBufferLen) /\ bufferLen' = NewBufferLen /\ index' = endIndex
        /\ UNCHANGED <<startIndex, endIndex, received, consumed, op, arg, pattern, base, len, dest, ret>>
    BY <1>0 DEF LineGrow, AtLimit, Sane, callVars, LineInProgress
  <1>b. bufferLen' \in Nat /\ bufferLen' \in 1 .. UintMax /\ bufferLen < bufferLen'
    BY <1>a, NewBufferLenIs DEF UintMax
  <1>c. /\ buffer' \in [0 .. (bufferLen' - 1) -> Cell]
        /\ \A i \in 0 .. (bufferLen - 1) : buffer'[i] = buffer[i]
    <2>1. NewBufferLen \in Nat /\ bufferLen <= NewBufferLen
      BY <1>0, <1>a, <1>b DEF Sane
    <2> QED
      BY <1>0, <1>a, <2>1, GrownIs
  <1>1. TypeOK'
    BY <1>0, <1>a, <1>b, <1>c DEF TypeOK, Waiting
  <1>2. BufferHoldsUnread' /\ BytesBehind'
    BY <1>0, <1>a, <1>b, <1>c DEF BufferHoldsUnread, BytesBehind, Sane
  <1>3. SizesFit' /\ CopiesInOrder'
    BY <1>0, <1>a, <1>b DEF SizesFit, CopiesInOrder
  <1>4. ReadInProgress' /\ PeekInProgress' /\ DiscardInProgress'
    BY <1>a DEF ReadInProgress, PeekInProgress, DiscardInProgress
  <1>5. LineInProgress'
    <2>1. ~FoundLineEnd
      BY DEF LineGrow
    <2>2. \A i \in startIndex .. (endIndex - 1) : Char(buffer[i]) # LF
      BY <1>0, <1>a, <2>1, NoLineEnd
    <2> QED
      BY <1>0, <1>a, <1>b, <1>c, <2>2 DEF LineInProgress, Sane
  <1> QED
    BY <1>0, <1>1, <1>2, <1>3, <1>4, <1>5, <1>a DEF IInv, Sane

\* readLine has room and asks for more.
LEMMA LineMoreIInv == IInv /\ LineMore => IInv'
  <1> SUFFICES ASSUME IInv, LineMore PROVE IInv'
    OBVIOUS
  <1>0. Sane /\ TypeOK /\ BufferHoldsUnread /\ BytesBehind /\ SizesFit /\ LineInProgress
    BY Basics DEF IInv
  <1>a. /\ pc = "line" /\ pc' = "lineSocket" /\ op = "line" /\ consumed = base
        /\ startIndex = 0 /\ endIndex # bufferLen /\ index' = endIndex /\ ~FoundLineEnd
        /\ UNCHANGED <<buffer, bufferLen, startIndex, endIndex, received, consumed,
                       op, arg, pattern, base, len, dest, ret>>
    BY <1>0 DEF LineMore, bufferVars, callVars, LineInProgress
  <1>1. TypeOK'
    BY <1>0, <1>a DEF TypeOK, Waiting
  <1>2. BufferHoldsUnread' /\ BytesBehind' /\ SizesFit' /\ CopiesInOrder'
    BY <1>0, <1>a DEF BufferHoldsUnread, BytesBehind, SizesFit, CopiesInOrder
  <1>3. ReadInProgress' /\ PeekInProgress' /\ DiscardInProgress'
    BY <1>a DEF ReadInProgress, PeekInProgress, DiscardInProgress
  <1>4. LineInProgress'
    <2>1. \A i \in startIndex .. (endIndex - 1) : Char(buffer[i]) # LF
      BY <1>0, <1>a, NoLineEnd
    <2> QED
      BY <1>0, <1>a, <2>1 DEF LineInProgress, Sane
  <1> QED
    BY <1>0, <1>1, <1>2, <1>3, <1>4, <1>a DEF IInv, Sane

\* More bytes arrive behind the ones that have been searched.
LEMMA LineArriveIInv == IInv /\ LineArrive => IInv'
  <1> SUFFICES ASSUME IInv, LineArrive PROVE IInv'
    OBVIOUS
  <1>0. Sane /\ TypeOK /\ BufferHoldsUnread /\ BytesBehind /\ SizesFit /\ LineInProgress
    BY Basics DEF IInv
  <1>a. PICK k \in Arriving(bufferLen - endIndex) :
         /\ buffer' = Store(buffer, endIndex, k)
         /\ endIndex' = endIndex + k
         /\ received' = received + k
    BY DEF LineArrive
  <1>b. /\ pc = "lineSocket" /\ pc' = "line" /\ op = "line" /\ consumed = base
        /\ startIndex = 0 /\ index = endIndex
        /\ UNCHANGED <<bufferLen, startIndex, consumed, op, arg, pattern, base, len, index, dest, ret>>
    BY <1>0 DEF LineArrive, callVars, LineInProgress
  <1>c. k \in Nat /\ k >= 1 /\ endIndex + k <= bufferLen /\ received + k <= N
    <2>1. bufferLen - endIndex \in Nat
      BY <1>0 DEF Sane
    <2>2. k \in Nat /\ k >= 1 /\ k <= bufferLen - endIndex /\ received + k <= N
      BY <1>0, <2>1, ArrivingIs
    <2> QED
      BY <1>0, <2>2 DEF Sane
  <1>d. /\ buffer' \in [0 .. (bufferLen - 1) -> Cell]
        /\ \A i \in 0 .. (bufferLen - 1) :
             buffer'[i] = IF i >= endIndex /\ i < endIndex + k THEN received + (i - endIndex) ELSE buffer[i]
    BY <1>0, <1>a, <1>c, StoreIs DEF TypeOK, Sane
  <1>1. TypeOK'
    BY <1>0, <1>a, <1>b, <1>c, <1>d DEF TypeOK, Sane
  <1>2. BufferHoldsUnread' /\ BytesBehind'
    BY <1>0, <1>a, <1>b, <1>c, <1>d DEF BufferHoldsUnread, BytesBehind, Sane
  <1>3. SizesFit' /\ CopiesInOrder'
    BY <1>0, <1>b DEF SizesFit, CopiesInOrder
  <1>4. ReadInProgress' /\ PeekInProgress' /\ DiscardInProgress'
    BY <1>b DEF ReadInProgress, PeekInProgress, DiscardInProgress
  <1>5. LineInProgress'
    BY <1>0, <1>a, <1>b, <1>c, <1>d DEF LineInProgress, Sane
  <1> QED
    BY <1>0, <1>1, <1>2, <1>3, <1>4, <1>5, <1>a, <1>b DEF IInv, Sane

\* The stream ends and the rest of the buffer is the line.
LEMMA LineEofIInv == IInv /\ LineEof => IInv'
  <1> SUFFICES ASSUME IInv, LineEof PROVE IInv'
    OBVIOUS
  <1>0. Sane /\ TypeOK /\ BufferHoldsUnread /\ SizesFit /\ LineInProgress
    BY Basics DEF IInv
  <1>a. /\ pc = "lineSocket" /\ pc' = "idle" /\ op = "line"
        /\ startIndex' = 0 /\ endIndex' = 0 /\ consumed' = consumed + available
        /\ ret' = Result("Ok", FALSE, startIndex, Wrap(available))
        /\ UNCHANGED <<buffer, bufferLen, received, op, arg, pattern, base, len, index, dest>>
    BY <1>0 DEF LineEof, callVars, LineInProgress
  <1>b. ret' \in ResultType
    <2>1. Wrap(available) \in Nat
      BY <1>0, WrapInRange, SizeAssumption DEF Sane, SizesFit, UintMax
    <2> QED
      BY <1>0, <1>a, <2>1, ResultTyped DEF Errors, Sane
  <1>1. TypeOK'
    BY <1>0, <1>a, <1>b DEF TypeOK, Sane
  <1>2. BufferHoldsUnread' /\ BytesBehind'
    BY <1>0, <1>a DEF BufferHoldsUnread, BytesBehind, Sane
  <1>3. SizesFit' /\ CopiesInOrder'
    BY <1>0, <1>a DEF SizesFit, CopiesInOrder
  <1>4. ReadInProgress' /\ LineInProgress' /\ PeekInProgress' /\ DiscardInProgress'
    BY <1>a DEF ReadInProgress, LineInProgress, PeekInProgress, DiscardInProgress
  <1> QED
    BY <1>0, <1>1, <1>2, <1>3, <1>4, <1>a DEF IInv, Sane
-----------------------------------------------------------------------------
(* peekMatch                                                               *)

\* peekMatch makes room at the front and compares what is there.
LEMMA PeekBufferedIInv == IInv /\ PeekBuffered => IInv'
  <1> SUFFICES ASSUME IInv, PeekBuffered PROVE IInv'
    OBVIOUS
  <1>0. Sane /\ TypeOK /\ BufferHoldsUnread /\ BytesBehind /\ SizesFit /\ PeekInProgress
    BY Basics DEF IInv
  <1> DEFINE newLen  == IF arg > bufferLen THEN checkedDouble(arg) ELSE bufferLen
             resized == IF arg > bufferLen THEN Grown(newLen) ELSE buffer
             move    == newLen - startIndex < arg
             amount  == MinOf(available, arg)
             match   == Matches(buffer, startIndex, pattern, 0, amount)
  <1>a. /\ pc = "peek" /\ op = "peek" /\ consumed = base
        /\ buffer' = IF move THEN MovedToFront(resized) ELSE resized
        /\ bufferLen' = newLen
        /\ startIndex' = IF move THEN 0 ELSE startIndex
        /\ endIndex' = IF move THEN available ELSE endIndex
        /\ index' = amount
        /\ pc' = IF match /\ PeekWantsMore(endIndex', arg) THEN "peekSocket" ELSE "idle"
        /\ ret' = IF match /\ PeekWantsMore(endIndex', arg) THEN ret ELSE Result("Ok", match, 0, 0)
        /\ UNCHANGED <<received, consumed, op, arg, pattern, base, len, dest>>
    BY <1>0 DEF PeekBuffered, callVars, PeekInProgress
  <1>b. arg = Len(pattern) /\ 2 * arg <= UintMax
    BY <1>0, <1>a, SizeAssumption DEF SizesFit
  <1>c. newLen \in 1 .. UintMax /\ newLen \in Nat /\ bufferLen <= newLen /\ arg <= newLen
    BY <1>0, <1>b, SizeAssumption DEF SizesFit, Sane, checkedDouble, UintMax
  <1>d. /\ resized \in [0 .. (newLen - 1) -> Cell]
        /\ \A i \in 0 .. (bufferLen - 1) : resized[i] = buffer[i]
    BY <1>0, <1>c, GrownIs DEF TypeOK
  <1>e. amount \in Nat /\ amount <= arg /\ amount <= available
    BY <1>0 DEF Sane, MinOf
  <1>f. match \in BOOLEAN
    BY DEF Matches
  <1>g. ret' \in ResultType
    <2>1. Result("Ok", match, 0, 0) \in ResultType
      BY <1>f, ResultTyped DEF Errors
    <2> QED
      BY <1>0, <1>a, <2>1 DEF TypeOK
  <1>h. pc' = "peekSocket" => match /\ endIndex' < arg
    BY <1>a DEF PeekWantsMore
  <1>i. pc' \in {"idle", "peekSocket"}
    BY <1>a
  <1> HIDE DEF newLen, resized, amount, match
  <1>j. CASE move
    <2>a. /\ startIndex' = 0 /\ endIndex' = available
          /\ buffer' = MovedToFront(resized) /\ bufferLen' = newLen
      BY <1>a, <1>j
    <2>b. /\ buffer' \in [0 .. (newLen - 1) -> Cell]
          /\ \A i \in 0 .. (newLen - 1) : i < available => buffer'[i] = resized[startIndex + i]
      BY <1>0, <1>c, <1>d, <2>a, MovedIs
    <2>c. \A i \in 0 .. (available - 1) : buffer'[i] = buffer[startIndex + i]
      BY <1>0, <1>c, <1>d, <2>b DEF Sane
    <2>d. /\ bufferLen' \in Nat /\ startIndex' \in Nat /\ endIndex' \in Nat /\ index' \in Nat
          /\ buffer' \in [0 .. (bufferLen' - 1) -> Cell]
      BY <1>0, <1>a, <1>c, <1>e, <2>a, <2>b DEF Sane
    <2>1. TypeOK'
      BY <1>0, <1>a, <1>g, <1>i, <2>d DEF TypeOK, Waiting
    <2>2. BufferHoldsUnread' /\ BytesBehind'
      BY <1>0, <1>a, <1>c, <2>a, <2>c DEF BufferHoldsUnread, BytesBehind, Sane
    <2>3. PeekInProgress'
      <3> SUFFICES ASSUME pc' = "peekSocket" PROVE PeekInProgress'
        BY <1>a, <1>i DEF PeekInProgress
      <3>1. match /\ endIndex' < arg
        BY <1>h
      <3>2. index' = available
        BY <1>0, <1>a, <2>a, <3>1 DEF MinOf, Sane, amount
      <3>3. Matches(buffer', startIndex', pattern, 0, index')
        BY <1>0, <1>a, <2>a, <2>c, <3>1, <3>2 DEF Matches, match, Sane
      <3> QED
        BY <1>0, <1>a, <1>c, <2>a, <3>1, <3>2, <3>3 DEF PeekInProgress, Sane
    <2>4. SizesFit' /\ CopiesInOrder'
      BY <1>0, <1>a, <1>c, <2>a DEF SizesFit, CopiesInOrder
    <2>5. ReadInProgress' /\ LineInProgress' /\ DiscardInProgress'
      BY <1>i DEF ReadInProgress, LineInProgress, DiscardInProgress
    <2> QED
      BY <1>0, <1>a, <2>1, <2>2, <2>3, <2>4, <2>5 DEF IInv, Sane
  <1>k. CASE ~move
    <2>a. /\ startIndex' = startIndex /\ endIndex' = endIndex
          /\ buffer' = resized /\ bufferLen' = newLen
      BY <1>a, <1>k
    <2>1. TypeOK'
      BY <1>0, <1>a, <1>c, <1>d, <1>e, <1>g, <1>i, <2>a DEF TypeOK, Sane, Waiting
    <2>2. BufferHoldsUnread' /\ BytesBehind'
      BY <1>0, <1>a, <1>c, <1>d, <2>a DEF BufferHoldsUnread, BytesBehind, Sane
    <2>3. PeekInProgress'
      <3> SUFFICES ASSUME pc' = "peekSocket" PROVE PeekInProgress'
        BY <1>a, <1>i DEF PeekInProgress
      <3>1. match /\ endIndex' < arg
        BY <1>h
      <3>2. index' = available
        BY <1>0, <1>a, <2>a, <3>1 DEF MinOf, Sane, amount
      <3>3. Matches(buffer', startIndex', pattern, 0, index')
        <4>1. \A i \in 0 .. (available - 1) : buffer'[startIndex + i] = buffer[startIndex + i]
          BY <1>0, <1>d, <2>a DEF Sane
        <4>2. Matches(buffer, startIndex, pattern, 0, available)
          BY <1>a, <3>1, <3>2 DEF match
        <4> QED
          BY <1>0, <2>a, <3>2, <4>1, <4>2 DEF Matches, Sane
      <3> QED
        BY <1>0, <1>a, <1>c, <2>a, <3>1, <3>2, <3>3 DEF PeekInProgress, Sane
    <2>4. SizesFit' /\ CopiesInOrder'
      BY <1>0, <1>a, <1>c, <2>a DEF SizesFit, CopiesInOrder
    <2>5. ReadInProgress' /\ LineInProgress' /\ DiscardInProgress'
      BY <1>i DEF ReadInProgress, LineInProgress, DiscardInProgress
    <2> QED
      BY <1>0, <1>a, <2>1, <2>2, <2>3, <2>4, <2>5 DEF IInv, Sane
  <1> QED
    BY <1>j, <1>k

\* More bytes arrive for peekMatch, which may now know its answer.
LEMMA PeekArriveIInv == IInv /\ PeekArrive => IInv'
  <1> SUFFICES ASSUME IInv, PeekArrive PROVE IInv'
    OBVIOUS
  <1>0. Sane /\ TypeOK /\ BufferHoldsUnread /\ BytesBehind /\ SizesFit /\ PeekInProgress
    BY Basics DEF IInv
  <1>a. /\ pc = "peekSocket" /\ op = "peek" /\ consumed = base
        /\ endIndex < arg /\ arg <= bufferLen /\ index = endIndex - startIndex
        /\ Matches(buffer, startIndex, pattern, 0, index)
        /\ UNCHANGED <<bufferLen, startIndex, consumed, op, arg, pattern, base, len, dest>>
    BY <1>0 DEF PeekArrive, callVars, PeekInProgress
  <1>b. PICK k \in Arriving(bufferLen - endIndex) :
         LET b     == Store(buffer, endIndex, k)
             amount == MinOf(k, arg - index)
             match == Matches(b, endIndex, pattern, index, amount)
             more  == match /\ PeekWantsMore(endIndex + k, arg)
         IN  /\ buffer' = b
             /\ endIndex' = endIndex + k
             /\ received' = received + k
             /\ index' = IF match THEN index + amount ELSE index
             /\ pc' = IF more THEN "peekSocket" ELSE "idle"
             /\ ret' = IF more THEN ret ELSE Result("Ok", match, 0, 0)
    BY DEF PeekArrive
  <1> DEFINE amount == MinOf(k, arg - index)
             match  == Matches(buffer', endIndex, pattern, index, amount)
  <1>c. k \in Nat /\ k >= 1 /\ endIndex + k <= bufferLen /\ received + k <= N
    <2>1. bufferLen - endIndex \in Nat
      BY <1>0 DEF Sane
    <2>2. k \in Nat /\ k >= 1 /\ k <= bufferLen - endIndex /\ received + k <= N
      BY <1>0, <2>1, ArrivingIs
    <2> QED
      BY <1>0, <2>2 DEF Sane
  <1>d. /\ buffer' \in [0 .. (bufferLen - 1) -> Cell]
        /\ \A i \in 0 .. (bufferLen - 1) :
             buffer'[i] = IF i >= endIndex /\ i < endIndex + k THEN received + (i - endIndex) ELSE buffer[i]
    BY <1>0, <1>b, <1>c, StoreIs DEF TypeOK, Sane
  <1>e. /\ endIndex' = endIndex + k /\ received' = received + k
        /\ index' = IF match THEN index + amount ELSE index
        /\ pc' = IF match /\ PeekWantsMore(endIndex + k, arg) THEN "peekSocket" ELSE "idle"
        /\ ret' = IF match /\ PeekWantsMore(endIndex + k, arg) THEN ret ELSE Result("Ok", match, 0, 0)
    BY <1>b
  <1>f. match \in BOOLEAN /\ amount \in Nat
    BY <1>0, <1>a, <1>c DEF Matches, MinOf, Sane
  <1>g. ret' \in ResultType
    <2>1. Result("Ok", match, 0, 0) \in ResultType
      BY <1>f, ResultTyped DEF Errors
    <2> QED
      BY <1>0, <1>e, <2>1 DEF TypeOK
  <1>h. pc' = "peekSocket" => match /\ endIndex' < arg
    BY <1>e DEF PeekWantsMore
  <1>i. pc' \in {"idle", "peekSocket"} /\ index' \in Nat
    BY <1>0, <1>e, <1>f DEF Sane
  <1>j. endIndex' = endIndex + k /\ received' = received + k
    BY <1>e
  <1> HIDE DEF amount, match
  <1>1. TypeOK'
    BY <1>0, <1>a, <1>c, <1>d, <1>j, <1>g, <1>i DEF TypeOK, Sane, Waiting
  <1>2. BufferHoldsUnread' /\ BytesBehind'
    BY <1>0, <1>a, <1>c, <1>d, <1>j DEF BufferHoldsUnread, BytesBehind, Sane
  <1>3. PeekInProgress'
    <2> SUFFICES ASSUME pc' = "peekSocket" PROVE PeekInProgress'
      BY <1>a, <1>i DEF PeekInProgress
    <2>1. match /\ endIndex + k < arg
      BY <1>h, <1>j
    <2>2. amount = k
      BY <1>0, <1>a, <1>c, <2>1 DEF MinOf, Sane, amount
    <2>3. index' = index + k
      BY <1>e, <2>1, <2>2
    <2>4. ASSUME NEW i \in 0 .. (index + k - 1)
          PROVE  Char(buffer'[startIndex + i]) = pattern[i + 1]
      <3>1. CASE i < index
        <4>1. startIndex + i \in 0 .. (bufferLen - 1) /\ startIndex + i < endIndex /\ i \in 0 .. (index - 1)
          BY <1>0, <1>a, <3>1 DEF Sane
        <4>2. buffer'[startIndex + i] = buffer[startIndex + i]
          BY <1>0, <1>d, <4>1 DEF Sane
        <4> QED
          BY <1>0, <1>a, <4>1, <4>2 DEF Matches, Sane
      <3>2. CASE ~(i < index)
        <4>1. i - index \in 0 .. (k - 1) /\ endIndex + (i - index) = startIndex + i
              /\ index + (i - index) + 1 = i + 1
          BY <1>0, <1>a, <1>c, <3>2 DEF Sane
        <4>2. Matches(buffer', endIndex, pattern, index, k)
          BY <2>1, <2>2 DEF match
        <4>3. Char(buffer'[endIndex + (i - index)]) = pattern[index + (i - index) + 1]
          BY <4>1, <4>2 DEF Matches
        <4> QED
          BY <4>1, <4>3
      <3> QED
        BY <3>1, <3>2
    <2>5. Matches(buffer', startIndex', pattern, 0, index')
      <3> SUFFICES ASSUME NEW i \in 0 .. (index' - 1)
                   PROVE  Char(buffer'[startIndex' + i]) = pattern[0 + i + 1]
        BY DEF Matches
      <3>1. i \in 0 .. (index + k - 1) /\ 0 + i + 1 = i + 1 /\ startIndex' = startIndex
        BY <1>0, <1>a, <1>c, <2>3 DEF Sane
      <3> QED
        BY <2>4, <3>1
    <2> QED
      BY <1>0, <1>a, <1>c, <1>j, <2>1, <2>3, <2>5 DEF PeekInProgress, Sane
  <1>4. SizesFit' /\ CopiesInOrder'
    BY <1>0, <1>a DEF SizesFit, CopiesInOrder
  <1>5. ReadInProgress' /\ LineInProgress' /\ DiscardInProgress'
    BY <1>i DEF ReadInProgress, LineInProgress, DiscardInProgress
  <1> QED
    BY <1>0, <1>a, <1>1, <1>2, <1>3, <1>4, <1>5 DEF IInv, Sane

-----------------------------------------------------------------------------
(* discard                                                                 *)

\* discard has enough buffered.
LEMMA DiscardDoneIInv == IInv /\ DiscardDone => IInv'
  <1> SUFFICES ASSUME IInv, DiscardDone PROVE IInv'
    OBVIOUS
  <1>0. Sane /\ TypeOK /\ BufferHoldsUnread /\ BytesBehind /\ SizesFit /\ DiscardInProgress
    BY Basics DEF IInv
  <1>a. /\ pc = "discard" /\ pc' = "idle" /\ op = "discard" /\ available > len
        /\ startIndex' = startIndex + len /\ consumed' = consumed + len
        /\ UNCHANGED <<buffer, bufferLen, endIndex, received, op, arg, pattern, base, len, index, dest>>
    BY <1>0 DEF DiscardDone, Return, callVars, DiscardInProgress
  <1>b. ret' \in ResultType
    BY ReturnTyped DEF DiscardDone, Errors
  <1>1. TypeOK'
    BY <1>0, <1>a, <1>b DEF TypeOK, Sane
  <1>2. BufferHoldsUnread' /\ BytesBehind'
    BY <1>0, <1>a DEF BufferHoldsUnread, BytesBehind, Sane
  <1>3. SizesFit' /\ CopiesInOrder'
    BY <1>0, <1>a DEF SizesFit, CopiesInOrder
  <1>4. ReadInProgress' /\ LineInProgress' /\ PeekInProgress' /\ DiscardInProgress'
    BY <1>a DEF ReadInProgress, LineInProgress, PeekInProgress, DiscardInProgress
  <1> QED
    BY <1>0, <1>1, <1>2, <1>3, <1>4, <1>a DEF IInv, Sane

\* discard drops the whole buffer and goes on.
LEMMA DiscardAllIInv == IInv /\ DiscardAll => IInv'
  <1> SUFFICES ASSUME IInv, DiscardAll PROVE IInv'
    OBVIOUS
  <1>0. Sane /\ TypeOK /\ BufferHoldsUnread /\ SizesFit /\ DiscardInProgress
    BY Basics DEF IInv
  <1>a. /\ pc = "discard" /\ pc' = "discardSocket" /\ op = "discard" /\ available <= len
        /\ len = arg - (consumed - base)
        /\ len' = len - available /\ consumed' = consumed + available
        /\ startIndex' = 0 /\ endIndex' = 0
        /\ UNCHANGED <<buffer, bufferLen, received, op, arg, pattern, base, index, dest, ret>>
    BY <1>0 DEF DiscardAll, StillToDiscard, callVars, DiscardInProgress
  <1>1. TypeOK'
    BY <1>0, <1>a DEF TypeOK, Sane, Waiting
  <1>2. BufferHoldsUnread' /\ BytesBehind'
    BY <1>0, <1>a DEF BufferHoldsUnread, BytesBehind, Sane
  <1>3. SizesFit' /\ CopiesInOrder'
    BY <1>0, <1>a DEF SizesFit, CopiesInOrder
  <1>4. ReadInProgress' /\ LineInProgress' /\ PeekInProgress'
    BY <1>a DEF ReadInProgress, LineInProgress, PeekInProgress
  <1>5. DiscardInProgress'
    BY <1>0, <1>a DEF DiscardInProgress, Sane
  <1> QED
    BY <1>0, <1>1, <1>2, <1>3, <1>4, <1>5, <1>a DEF IInv, Sane

\* discard asks for more bytes.
LEMMA DiscardReadIInv == IInv /\ DiscardRead => IInv'
  <1> SUFFICES ASSUME IInv, DiscardRead PROVE IInv'
    OBVIOUS
  <1>0. Sane /\ TypeOK /\ BufferHoldsUnread /\ BytesBehind /\ SizesFit /\ DiscardInProgress
    BY Basics DEF IInv
  <1>a. /\ pc = "discard" /\ pc' = "discardSocket" /\ op = "discard" /\ available = 0
        /\ UNCHANGED <<buffer, bufferLen, startIndex, endIndex, received, consumed,
                       op, arg, pattern, base, len, index, dest, ret>>
    BY <1>0 DEF DiscardRead, bufferVars, callVars, DiscardInProgress
  <1>1. TypeOK'
    BY <1>0, <1>a DEF TypeOK, Waiting
  <1>2. BufferHoldsUnread' /\ BytesBehind' /\ SizesFit' /\ CopiesInOrder'
    BY <1>0, <1>a DEF BufferHoldsUnread, BytesBehind, SizesFit, CopiesInOrder
  <1>3. ReadInProgress' /\ LineInProgress' /\ PeekInProgress'
    BY <1>a DEF ReadInProgress, LineInProgress, PeekInProgress
  <1>4. DiscardInProgress'
    BY <1>0, <1>a DEF DiscardInProgress, Sane
  <1> QED
    BY <1>0, <1>1, <1>2, <1>3, <1>4, <1>a DEF IInv, Sane

\* More bytes arrive to be discarded.
LEMMA DiscardArriveIInv == IInv /\ DiscardArrive => IInv'
  <1> SUFFICES ASSUME IInv, DiscardArrive PROVE IInv'
    OBVIOUS
  <1>0. Sane /\ TypeOK /\ BufferHoldsUnread /\ BytesBehind /\ SizesFit /\ DiscardInProgress
    BY Basics DEF IInv
  <1>a. PICK k \in Arriving(bufferLen) :
         /\ buffer' = Store(buffer, 0, k)
         /\ endIndex' = k
         /\ received' = received + k
    BY DEF DiscardArrive
  <1>b. /\ pc = "discardSocket" /\ pc' = "discard" /\ op = "discard"
        /\ startIndex = 0 /\ endIndex = 0 /\ len = arg - (consumed - base)
        /\ UNCHANGED <<bufferLen, startIndex, consumed, op, arg, pattern, base, len, index, dest, ret>>
    BY <1>0 DEF DiscardArrive, callVars, DiscardInProgress
  <1>c. k \in Nat /\ k >= 1 /\ k <= bufferLen /\ received + k <= N
    BY <1>0, ArrivingIs DEF Sane
  <1>d. /\ buffer' \in [0 .. (bufferLen - 1) -> Cell]
        /\ \A i \in 0 .. (bufferLen - 1) :
             buffer'[i] = IF i >= 0 /\ i < 0 + k THEN received + (i - 0) ELSE buffer[i]
    BY <1>0, <1>a, <1>c, StoreIs DEF TypeOK, Sane
  <1>1. TypeOK'
    BY <1>0, <1>a, <1>b, <1>c, <1>d DEF TypeOK, Sane
  <1>2. BufferHoldsUnread' /\ BytesBehind'
    BY <1>0, <1>a, <1>b, <1>c, <1>d DEF BufferHoldsUnread, BytesBehind, Sane
  <1>3. SizesFit' /\ CopiesInOrder'
    BY <1>0, <1>b DEF SizesFit, CopiesInOrder
  <1>4. ReadInProgress' /\ LineInProgress' /\ PeekInProgress'
    BY <1>b DEF ReadInProgress, LineInProgress, PeekInProgress
  <1>5. DiscardInProgress'
    BY <1>0, <1>a, <1>b, <1>c DEF DiscardInProgress, Sane
  <1> QED
    BY <1>0, <1>1, <1>2, <1>3, <1>4, <1>5, <1>a, <1>b DEF IInv, Sane

-----------------------------------------------------------------------------

\* A stuttering step.
LEMMA StutterIInv == IInv /\ UNCHANGED vars => IInv'
  BY DEF vars, IInv, TypeOK, BufferHoldsUnread, BytesBehind, SizesFit, CopiesInOrder,
         ReadInProgress, LineInProgress, PeekInProgress, DiscardInProgress, Matches

\* Every step of a careful caller preserves the invariant, one case per action.
LEMMA NextIInv == IInv /\ [CarefulNext]_vars => IInv'
  <1> SUFFICES ASSUME IInv, [CarefulNext]_vars PROVE IInv'
    OBVIOUS
  <1>1. CASE ReadCall
    BY <1>1, EnterReadIInv, ReadLineIInv, PeekMatchIInv DEF ReadCall, read, readFixedLength
  <1>2. CASE CarefulDiscardCall
    BY <1>2, DiscardIInv
  <1>3. CASE ReaderStep
    BY <1>3, ReadBufferedIInv, ReadVectoredIInv, QuietIInv, LineFoundIInv, LineMoveIInv,
       LineGrowIInv, LineMoreIInv, PeekBufferedIInv, DiscardDoneIInv, DiscardAllIInv,
       DiscardReadIInv DEF ReaderStep
  <1>4. CASE SocketStep
    BY <1>4, ReadArriveIInv, LineArriveIInv, LineEofIInv, PeekArriveIInv, DiscardArriveIInv,
       QuietIInv DEF SocketStep
  <1>5. CASE UNCHANGED vars
    BY <1>5, StutterIInv
  <1> QED
    BY <1>1, <1>2, <1>3, <1>4, <1>5 DEF CarefulNext

\* The inductive invariant: what each call has done so far, at every pc.
THEOREM Invariance == CarefulSpec => []IInv
  BY InitIInv, NextIInv, PTL DEF CarefulSpec

\* The indices and cells of BufferedReader keep their ranges.
THEOREM TypeCorrect == CarefulSpec => []TypeOK
  BY Invariance, PTL DEF IInv

\* However the bytes arrive and whatever the calls are, the buffer holds exactly
\* the unread bytes, in order.
THEOREM NoByteLost == CarefulSpec => []BufferHoldsUnread
  BY Invariance, PTL DEF IInv

\* Growing and moving always make room before the socket is read.
THEOREM AlwaysRoom == CarefulSpec => []RoomToRead
  <1>1. IInv => RoomToRead
    <2> SUFFICES ASSUME IInv PROVE RoomToRead
      OBVIOUS
    <2>1. Sane /\ SizesFit /\ LineInProgress /\ PeekInProgress
      BY Basics DEF IInv
    <2> QED
      BY <2>1 DEF RoomToRead, LineInProgress, PeekInProgress, SizesFit, Sane
  <1> QED
    BY <1>1, Invariance, PTL

-----------------------------------------------------------------------------
(* What the calls return.                                                  *)

Failed == ret'.err \in {"Eof", "IoError"} /\ ret'.match = FALSE

\* A call that returns an error of the socket has failed.
LEMMA FailedIs ==
  ASSUME NEW e \in {"Eof", "IoError"}, Return(e) PROVE Failed
  BY DEF Return, Result, Failed

\* Which step it was, when a call has returned.
LEMMA WhoReturns ==
  ASSUME IInv, [CarefulNext]_vars, pc' = "idle"
  PROVE  \/ UNCHANGED vars
         \/ op' \in {"read", "fixed"}
         \/ op' = op /\ op = "line" /\ (LineFound \/ LineEof \/ LineTooLong \/ Failed)
         \/ op' = op /\ op = "peek" /\ (PeekBuffered \/ PeekArrive \/ Failed)
         \/ op' = op /\ op = "discard" /\ (DiscardDone \/ Failed)
  <1>0. ReadInProgress /\ LineInProgress /\ PeekInProgress /\ DiscardInProgress
    BY DEF IInv
  <1>1. CASE ReadCall \/ CarefulDiscardCall
    BY <1>1 DEF ReadCall, read, readFixedLength, EnterRead, readLine, peekMatch,
                CarefulDiscardCall, DiscardCall, discard, Enter
  <1>2. CASE ReadBuffered \/ ReadVectored \/ FixedDone \/ ReadArrive
    BY <1>0, <1>2 DEF ReadBuffered, ReadVectored, FixedDone, ReadArrive, ReadInProgress, callVars
  <1>3. CASE LineFound \/ LineMove \/ LineTooLong \/ LineGrow \/ LineMore \/ LineArrive \/ LineEof
    BY <1>0, <1>3 DEF LineFound, LineMove, LineTooLong, LineGrow, LineMore, LineArrive, LineEof,
                      LineInProgress, callVars
  <1>4. CASE PeekBuffered \/ PeekArrive
    BY <1>0, <1>4 DEF PeekBuffered, PeekArrive, PeekInProgress, callVars
  <1>5. CASE DiscardDone \/ DiscardAll \/ DiscardRead \/ DiscardArrive
    BY <1>0, <1>5 DEF DiscardDone, DiscardAll, DiscardRead, DiscardArrive, DiscardInProgress, callVars
  <1>6. CASE SocketEof \/ SocketError
    <2>1. Failed
      BY <1>6, FailedIs DEF SocketEof, SocketError
    <2>2. pc \in Waiting /\ op' = op
      BY <1>6 DEF SocketEof, SocketError, callVars
    <2> QED
      BY <1>0, <2>1, <2>2 DEF Waiting, ReadInProgress, LineInProgress, PeekInProgress, DiscardInProgress
  <1> QED
    BY <1>1, <1>2, <1>3, <1>4, <1>5, <1>6 DEF CarefulNext, ReaderStep, SocketStep

\* A line found in the buffer is the next line of the stream, as no newline comes
\* before it and its carriage return is its own.
LEMMA LineFoundExact ==
  ASSUME IInv, LineFound
  PROVE  LineExactUnlessAfterCR'
  <1>0. Sane /\ BufferHoldsUnread /\ BytesBehind /\ SizesFit /\ LineInProgress
    BY Basics DEF IInv
  <1>a. PICK i \in index .. (endIndex - 1) :
         /\ IsNewline(i)
         /\ \A j \in index .. (i - 1) : ~IsNewline(j)
         /\ startIndex' = i + 1
         /\ consumed' = consumed + (i + 1 - startIndex)
         /\ ret' = Result("Ok", FALSE, startIndex, Wrap(LineEndIndex(i) - startIndex))
    BY DEF LineFound
  <1>b. /\ pc = "line" /\ op = "line" /\ consumed = base
        /\ UNCHANGED <<buffer, bufferLen, endIndex, received, op, arg, pattern, base, len, index, dest>>
    BY <1>0 DEF LineFound, callVars, LineInProgress
  <1>c. i \in Nat /\ i >= startIndex /\ i < endIndex
    BY <1>0, <1>b DEF LineInProgress, Sane
  <1>d. \A j \in startIndex .. (endIndex - 1) : buffer[j] = base + (j - startIndex)
    BY <1>0, <1>b DEF BufferHoldsUnread
  <1>e. PICK q \in Nat : q = base + (i - startIndex)
    BY <1>0, <1>c DEF Sane
  <1>f. Char(q) = LF /\ q < N /\ consumed' = q + 1
    BY <1>0, <1>a, <1>b, <1>c, <1>d, <1>e DEF IsNewline, Sane
  <1>g. \A p \in base .. (q - 1) : Char(p) # LF
    <2> SUFFICES ASSUME NEW p \in base .. (q - 1) PROVE Char(p) # LF
      OBVIOUS
    <2>1. PICK j \in Nat : j = startIndex + (p - base)
      BY <1>0 DEF Sane
    <2>2. j \in startIndex .. (i - 1) /\ buffer[j] = p
      BY <1>0, <1>c, <1>d, <1>e, <2>1 DEF Sane
    <2>3. Char(buffer[j]) # LF
      BY <1>0, <1>a, <1>b, <1>c, <2>2 DEF LineInProgress, IsNewline, Sane
    <2> QED
      BY <2>2, <2>3
  <1> SUFFICES ASSUME ~AfterCR' PROVE LineIsNext'
    BY DEF LineExactUnlessAfterCR
  <1>h. ret'.from = startIndex /\ ret'.count = Wrap(LineEndIndex(i) - startIndex)
    BY <1>a DEF Result
  <1>i. \A m \in Nat : startIndex + m <= i => Wrap(m) = m
    <2> SUFFICES ASSUME NEW m \in Nat, startIndex + m <= i PROVE Wrap(m) = m
      OBVIOUS
    <2>1. m \in 0 .. UintMax
      BY <1>0, <1>c, SizeAssumption DEF Sane, SizesFit, UintMax
    <2> QED
      BY <2>1, WrapInRange
  <1>1. CASE i # 0 /\ Char(buffer[i - 1]) = CR
    <2>1. i > startIndex
      <3> SUFFICES ASSUME i = startIndex PROVE FALSE
        BY <1>0, <1>c DEF Sane
      <3>1. buffer[i - 1] = base - 1 /\ base > 0 /\ q = base
        BY <1>0, <1>1, <1>b, <1>c, <1>e DEF BytesBehind, Sane
      <3>2. Char(base - 1) = CR /\ Char(base) = LF
        BY <1>1, <1>f, <3>1
      <3> QED
        BY <1>0, <1>b, <1>f, <3>1, <3>2 DEF AfterCR, Sane
    <2>2. PICK n \in Nat : n = i - 1 - startIndex
      BY <1>0, <1>c, <2>1 DEF Sane
    <2>3. ret'.count = n
      BY <1>0, <1>1, <1>c, <1>h, <1>i, <2>2 DEF LineEndIndex, Sane
    <2>4. base + n = q - 1 /\ buffer[i - 1] = base + n
      BY <1>0, <1>c, <1>d, <1>e, <2>1, <2>2 DEF Sane
    <2>5. \A j \in 0 .. (n - 1) : buffer[startIndex + j] = base + j /\ Char(base + j) # LF
      BY <1>0, <1>c, <1>d, <1>g, <2>2, <2>4 DEF Sane
    <2>6. Char(base + n) = CR /\ Char(base + n + 1) = LF /\ consumed' = base + n + 2
      <3>1. base + n + 1 = q
        BY <1>0, <2>4 DEF Sane
      <3> QED
        BY <1>0, <1>1, <1>f, <2>4, <3>1 DEF Sane
    <2> QED
      BY <1>0, <1>b, <1>h, <2>3, <2>5, <2>6 DEF LineIsNext, Sane
  <1>2. CASE ~(i # 0 /\ Char(buffer[i - 1]) = CR)
    <2>2. PICK n \in Nat : n = i - startIndex
      BY <1>0, <1>c DEF Sane
    <2>3. ret'.count = n
      BY <1>0, <1>2, <1>c, <1>h, <1>i, <2>2 DEF LineEndIndex, Sane
    <2>4. base + n = q
      BY <1>e, <2>2
    <2>5. \A j \in 0 .. (n - 1) : buffer[startIndex + j] = base + j /\ Char(base + j) # LF
      BY <1>0, <1>c, <1>d, <1>g, <2>2, <2>4 DEF Sane
    <2>6. Char(base + n) = LF /\ consumed' = base + n + 1
      BY <1>f, <2>4
    <2>7. n > 0 => Char(base + n - 1) # CR
      <3> SUFFICES ASSUME n > 0 PROVE Char(base + n - 1) # CR
        OBVIOUS
      <3>1. buffer[i - 1] = base + n - 1
        BY <1>0, <1>c, <1>d, <2>2 DEF Sane
      <3> QED
        BY <1>0, <1>2, <1>c, <2>2, <3>1 DEF Sane
    <2> QED
      BY <1>0, <1>b, <1>h, <2>3, <2>5, <2>6, <2>7 DEF LineIsNext, Sane
  <1> QED
    BY <1>1, <1>2

\* So is the line that the end of the stream ends.
LEMMA LineEofExact ==
  ASSUME IInv, LineEof
  PROVE  LineExactUnlessAfterCR'
  <1>0. Sane /\ BufferHoldsUnread /\ SizesFit /\ LineInProgress
    BY Basics DEF IInv
  <1>a. /\ op = "line" /\ consumed = base /\ startIndex = 0 /\ index = endIndex /\ received = N
        /\ consumed' = consumed + available
        /\ ret' = Result("Ok", FALSE, startIndex, Wrap(available))
        /\ UNCHANGED <<buffer, base>>
        /\ \A i \in startIndex .. (index - 1) : Char(buffer[i]) # LF
    BY <1>0 DEF LineEof, callVars, LineInProgress
  <1>b. Wrap(available) = endIndex
    BY <1>0, <1>a, WrapInRange, SizeAssumption DEF Sane, SizesFit, UintMax
  <1>c. ret'.from = 0 /\ ret'.count = endIndex
    BY <1>a, <1>b DEF Result
  <1>d. \A j \in 0 .. (endIndex - 1) : buffer[0 + j] = base + j /\ Char(base + j) # LF
    BY <1>0, <1>a DEF BufferHoldsUnread, Sane
  <1>f. consumed' = base + endIndex /\ consumed' = N /\ endIndex \in Nat /\ base \in Nat
    BY <1>0, <1>a DEF Sane
  <1>g. \A j \in 0 .. (ret'.count - 1) : buffer'[ret'.from + j] = base' + j /\ Char(base' + j) # LF
    BY <1>a, <1>c, <1>d
  <1>h. base' + ret'.count <= consumed' /\ consumed' = base' + ret'.count /\ consumed' = N
    <2>1. base' = base /\ base + endIndex <= consumed'
      BY <1>a, <1>f
    <2> QED
      BY <1>c, <1>f, <2>1
  <1>e. LineIsNext'
    BY <1>g, <1>h DEF LineIsNext
  <1> QED
    BY <1>e DEF LineExactUnlessAfterCR

\* readLine returns the next line of the stream, however the line, the '\r' and
\* the '\n' of its end are cut into socket reads and however often the buffer
\* moved or grew meanwhile; the one exception is a '\r' consumed just before.
THEOREM LinesExact == CarefulSpec => []LineExactUnlessAfterCR
  <1>1. Init => LineExactUnlessAfterCR
    BY DEF Init, LineExactUnlessAfterCR, Returned
  <1>2. IInv /\ LineExactUnlessAfterCR /\ [CarefulNext]_vars => LineExactUnlessAfterCR'
    <2> SUFFICES ASSUME IInv, LineExactUnlessAfterCR, [CarefulNext]_vars,
                        pc' = "idle", op' = "line", ret'.err = "Ok"
                 PROVE  LineExactUnlessAfterCR'
      BY DEF LineExactUnlessAfterCR, Returned, Ok
    <2>1. CASE UNCHANGED vars
      BY <2>1 DEF vars, LineExactUnlessAfterCR, Returned, Ok, LineIsNext, AfterCR
    <2>2. CASE LineTooLong \/ Failed
      BY <2>2 DEF LineTooLong, Failed, Return, Result
    <2> QED
      BY <2>1, <2>2, WhoReturns, LineFoundExact, LineEofExact
  <1> QED
    BY <1>1, <1>2, Invariance, PTL DEF CarefulSpec

\* An answer of peekMatch from buffered bytes alone is right.
LEMMA PeekBufferedSound ==
  ASSUME IInv, PeekBuffered, pc' = "idle"
  PROVE  PeekSound'
  <1>0. Sane /\ BufferHoldsUnread /\ SizesFit /\ PeekInProgress
    BY Basics DEF IInv
  <1> DEFINE newLen == IF arg > bufferLen THEN checkedDouble(arg) ELSE bufferLen
             move   == newLen - startIndex < arg
             amount == MinOf(available, arg)
             match  == Matches(buffer, startIndex, pattern, 0, amount)
  <1>a. /\ op = "peek" /\ consumed = base
        /\ startIndex' = IF move THEN 0 ELSE startIndex
        /\ endIndex' = IF move THEN available ELSE endIndex
        /\ ~(match /\ endIndex' < arg)
        /\ ret' = Result("Ok", match, 0, 0)
        /\ UNCHANGED <<received, consumed, op, arg, pattern, base, len, dest>>
    BY <1>0 DEF PeekBuffered, callVars, PeekInProgress, PeekWantsMore
  <1>b. arg = Len(pattern)
    BY <1>0, <1>a DEF SizesFit
  <1>c. amount \in Nat /\ amount <= arg /\ amount <= available
    BY <1>0 DEF Sane, MinOf
  <1>d. \A i \in 0 .. (amount - 1) : buffer[startIndex + i] = base + i
    BY <1>0, <1>a, <1>c DEF BufferHoldsUnread, Sane
  <1>e. ret'.match = match
    BY <1>a DEF Result
  <1>1. CASE match
    <2> SUFFICES ASSUME startIndex' = 0 PROVE StartsWith(base, pattern)
      BY <1>1, <1>a, <1>e DEF PeekSound
    <2>1. amount = arg /\ available >= arg
      BY <1>0, <1>1, <1>a DEF MinOf, Sane
    <2>2. base + arg <= N
      BY <1>0, <1>a, <2>1 DEF Sane
    <2>3. \A i \in 0 .. (arg - 1) : Char(base + i) = pattern[i + 1]
      <3> SUFFICES ASSUME NEW i \in 0 .. (arg - 1) PROVE Char(base + i) = pattern[i + 1]
        OBVIOUS
      <3>1. Char(buffer[startIndex + i]) = pattern[0 + i + 1] /\ 0 + i + 1 = i + 1
        BY <1>1, <2>1 DEF Matches
      <3> QED
        BY <1>d, <2>1, <3>1
    <2> QED
      BY <1>b, <2>2, <2>3 DEF StartsWith
  <1>2. CASE ~match
    <2>1. PICK i \in 0 .. (amount - 1) : Char(buffer[startIndex + i]) # pattern[0 + i + 1]
      BY <1>2 DEF Matches
    <2>2. Char(base + i) # pattern[i + 1]
      <3>1. 0 + i + 1 = i + 1
        OBVIOUS
      <3> QED
        BY <1>d, <2>1, <3>1
    <2>3. ~StartsWith(base, pattern)
      BY <1>0, <1>b, <1>c, <2>2 DEF StartsWith, Sane
    <2> QED
      BY <1>2, <1>a, <1>e, <2>3 DEF PeekSound
  <1> QED
    BY <1>1, <1>2

\* An answer of peekMatch after a read is right.
LEMMA PeekArriveSound ==
  ASSUME IInv, PeekArrive, pc' = "idle"
  PROVE  PeekSound'
  <1>0. Sane /\ TypeOK /\ BufferHoldsUnread /\ SizesFit /\ PeekInProgress
    BY Basics DEF IInv
  <1>a. /\ op = "peek" /\ consumed = base
        /\ endIndex < arg /\ index = endIndex - startIndex
        /\ Matches(buffer, startIndex, pattern, 0, index)
        /\ UNCHANGED <<startIndex, consumed, op, arg, pattern, base>>
    BY <1>0 DEF PeekArrive, callVars, PeekInProgress
  <1>b. PICK k \in Arriving(bufferLen - endIndex) :
          /\ buffer' = Store(buffer, endIndex, k)
          /\ ~(Matches(Store(buffer, endIndex, k), endIndex, pattern, index, MinOf(k, arg - index))
                 /\ endIndex + k < arg)
          /\ ret' = Result("Ok", Matches(Store(buffer, endIndex, k), endIndex, pattern, index,
                                         MinOf(k, arg - index)), 0, 0)
    BY DEF PeekArrive, PeekWantsMore
  <1>c. k \in Nat /\ k >= 1 /\ endIndex + k <= bufferLen /\ received + k <= N
    <2>1. bufferLen - endIndex \in Nat
      BY <1>0 DEF Sane
    <2>2. k \in Nat /\ k >= 1 /\ k <= bufferLen - endIndex /\ received + k <= N
      BY <1>0, <2>1, ArrivingIs
    <2> QED
      BY <1>0, <2>2 DEF Sane
  <1>d. PICK a \in Nat : a = MinOf(k, arg - index)
    <2>1. arg - index \in Nat
      BY <1>0, <1>a DEF Sane
    <2> QED
      BY <1>c, <2>1 DEF MinOf
  <1>e. a <= k /\ index + a <= arg /\ (a = k \/ index + a = arg)
    BY <1>0, <1>a, <1>c, <1>d DEF MinOf, Sane
  <1>f. \A i \in 0 .. (k - 1) : buffer'[endIndex + i] = base + (index + i)
    <2>1. \A i \in 0 .. (bufferLen - 1) :
            buffer'[i] = IF i >= endIndex /\ i < endIndex + k THEN received + (i - endIndex) ELSE buffer[i]
      BY <1>0, <1>b, <1>c, StoreIs DEF TypeOK, Sane
    <2> QED
      BY <1>0, <1>a, <1>c, <2>1 DEF Sane
  <1>g. arg = Len(pattern)
    BY <1>0, <1>a DEF SizesFit
  <1>h. \A i \in 0 .. (index - 1) : Char(base + i) = pattern[i + 1]
    <2> SUFFICES ASSUME NEW i \in 0 .. (index - 1) PROVE Char(base + i) = pattern[i + 1]
      OBVIOUS
    <2>1. buffer[startIndex + i] = base + i
      BY <1>0, <1>a DEF BufferHoldsUnread, Sane
    <2>2. Char(buffer[startIndex + i]) = pattern[0 + i + 1] /\ 0 + i + 1 = i + 1
      BY <1>a DEF Matches
    <2> QED
      BY <2>1, <2>2
  <1> DEFINE match == Matches(buffer', endIndex, pattern, index, a)
  <1>i. ret'.match = match /\ ~(match /\ endIndex + k < arg)
    BY <1>b, <1>d DEF Result
  <1>1. CASE match
    <2> SUFFICES ASSUME startIndex' = 0 PROVE StartsWith(base, pattern)
      BY <1>1, <1>a, <1>i DEF PeekSound
    <2>1. index + a = arg /\ base + arg <= N
      BY <1>0, <1>1, <1>a, <1>c, <1>e, <1>i DEF Sane
    <2>2. ASSUME NEW i \in 0 .. (arg - 1), ~(i < index) PROVE Char(base + i) = pattern[i + 1]
      <3>1. PICK j \in 0 .. (a - 1) : index + j = i
        <4>1. i - index \in 0 .. (a - 1) /\ index + (i - index) = i
          BY <1>0, <2>1, <2>2 DEF Sane
        <4> QED
          BY <4>1
      <3>2. Char(buffer'[endIndex + j]) = pattern[index + j + 1]
        BY <1>1 DEF Matches
      <3>3. buffer'[endIndex + j] = base + (index + j)
        BY <1>c, <1>e, <1>f
      <3> QED
        BY <3>1, <3>2, <3>3
    <2>3. \A i \in 0 .. (arg - 1) : Char(base + i) = pattern[i + 1]
      BY <1>0, <1>h, <2>2 DEF Sane
    <2> QED
      BY <1>g, <2>1, <2>3 DEF StartsWith
  <1>2. CASE ~match
    <2>1. PICK j \in 0 .. (a - 1) : Char(buffer'[endIndex + j]) # pattern[index + j + 1]
      BY <1>2 DEF Matches
    <2>2. buffer'[endIndex + j] = base + (index + j)
      BY <1>c, <1>e, <1>f
    <2>3. index + j \in 0 .. (arg - 1) /\ Char(base + (index + j)) # pattern[(index + j) + 1]
      BY <1>0, <1>e, <2>1, <2>2 DEF Sane
    <2>4. ~StartsWith(base, pattern)
      BY <1>g, <2>3 DEF StartsWith
    <2> QED
      BY <1>2, <1>a, <1>i, <2>4 DEF PeekSound
  <1> QED
    BY <1>1, <1>2

\* peekMatch is never wrong in answering false, and never in answering true while
\* the unread bytes are at the front of the buffer, as in the one call the code
\* makes, at the start of a connection.
THEOREM PeeksSound == CarefulSpec => []PeekSound
  <1>1. Init => PeekSound
    BY DEF Init, PeekSound, Returned
  <1>2. IInv /\ PeekSound /\ [CarefulNext]_vars => PeekSound'
    <2> SUFFICES ASSUME IInv, PeekSound, [CarefulNext]_vars,
                        pc' = "idle", op' = "peek", ret'.err = "Ok"
                 PROVE  PeekSound'
      BY DEF PeekSound, Returned, Ok
    <2>1. CASE UNCHANGED vars
      BY <2>1 DEF vars, PeekSound, Returned, Ok
    <2>2. CASE Failed
      BY <2>2 DEF Failed
    <2> QED
      BY <2>1, <2>2, WhoReturns, PeekBufferedSound, PeekArriveSound
  <1> QED
    BY <1>1, <1>2, Invariance, PTL DEF CarefulSpec

\* A refused line fills a buffer of at least the limit's length.
LEMMA LineTooLongIsLong ==
  ASSUME IInv, LineTooLong
  PROVE  TooLongIsLong'
  <1>0. Sane /\ BufferHoldsUnread /\ LineInProgress
    BY Basics DEF IInv
  <1>a. /\ pc = "line" /\ startIndex = 0 /\ endIndex = bufferLen /\ bufferLen >= arg /\ ~FoundLineEnd
        /\ UNCHANGED <<consumed, arg>>
    BY DEF LineTooLong, AtLimit, callVars
  <1>b. \A i \in startIndex .. (endIndex - 1) : Char(buffer[i]) # LF
    BY <1>0, <1>a, NoLineEnd
  <1>c. consumed + arg <= N
    BY <1>0, <1>a DEF Sane
  <1>d. \A i \in 0 .. (arg - 1) : Char(consumed + i) # LF
    <2> SUFFICES ASSUME NEW i \in 0 .. (arg - 1) PROVE Char(consumed + i) # LF
      OBVIOUS
    <2>1. i \in startIndex .. (endIndex - 1) /\ buffer[i] = consumed + i
      BY <1>0, <1>a DEF BufferHoldsUnread, Sane
    <2> QED
      BY <1>b, <2>1
  <1> QED
    BY <1>a, <1>c, <1>d DEF TooLongIsLong

\* readLine refuses only lines that are longer than its caller's limit.
THEOREM RefusalsJustified == CarefulSpec => []TooLongIsLong
  <1>1. Init => TooLongIsLong
    BY DEF Init, TooLongIsLong, Returned
  <1>2. IInv /\ TooLongIsLong /\ [CarefulNext]_vars => TooLongIsLong'
    <2> SUFFICES ASSUME IInv, TooLongIsLong, [CarefulNext]_vars,
                        pc' = "idle", op' = "line", ret'.err = "LineTooLong"
                 PROVE  TooLongIsLong'
      BY DEF TooLongIsLong, Returned
    <2>1. CASE UNCHANGED vars
      BY <2>1 DEF vars, TooLongIsLong, Returned
    <2>2. CASE Failed
      BY <2>2 DEF Failed
    <2>3. CASE LineFound \/ LineEof
      BY <2>3 DEF LineFound, LineEof, Result
    <2> QED
      BY <2>1, <2>2, <2>3, WhoReturns, LineTooLongIsLong
  <1> QED
    BY <1>1, <1>2, Invariance, PTL DEF CarefulSpec

\* A discard that succeeds has skipped exactly the bytes asked for.
THEOREM DiscardsExact == CarefulSpec => []DiscardExact
  <1>1. Init => DiscardExact
    BY DEF Init, DiscardExact, Returned
  <1>2. IInv /\ DiscardExact /\ [CarefulNext]_vars => DiscardExact'
    <2> SUFFICES ASSUME IInv, DiscardExact, [CarefulNext]_vars,
                        pc' = "idle", op' = "discard", ret'.err = "Ok"
                 PROVE  DiscardExact'
      BY DEF DiscardExact, Returned, Ok
    <2>1. CASE UNCHANGED vars
      BY <2>1 DEF vars, DiscardExact, Returned, Ok
    <2>2. CASE Failed
      BY <2>2 DEF Failed
    <2>3. CASE DiscardDone
      <3>0. Sane /\ BufferHoldsUnread /\ DiscardInProgress
        BY Basics DEF IInv
      <3>a. /\ len = arg - (consumed - base) /\ available > len
            /\ startIndex' = startIndex + len /\ consumed' = consumed + len
            /\ UNCHANGED <<buffer, endIndex, arg, base>>
        BY <2>3, <3>0 DEF DiscardDone, callVars, DiscardInProgress
      <3> QED
        BY <3>0, <3>a DEF DiscardExact, BufferHoldsUnread, Sane
    <2> QED
      BY <2>1, <2>2, <2>3, WhoReturns
  <1> QED
    BY <1>1, <1>2, Invariance, PTL DEF CarefulSpec

\* The buffer never grows beyond what a caller asks for: two bytes more than the limit
\* of a readLine, or twice the length of a pattern.
THEOREM GrowsAsAsked == CarefulSpec => []BufferBounded
  <1>1. Init => BufferBounded
    BY DEF Init, init, BufferBounded
  <1>2. IInv /\ BufferBounded /\ [CarefulNext]_vars => BufferBounded'
    <2> SUFFICES ASSUME IInv, BufferBounded, [CarefulNext]_vars PROVE BufferBounded'
      OBVIOUS
    <2>0. Sane /\ SizesFit /\ LineInProgress /\ PeekInProgress
      BY Basics DEF IInv
    <2>1. CASE UNCHANGED bufferLen
      BY <2>1 DEF BufferBounded
    <2>2. CASE LineGrow
      <3>1. bufferLen' = MinOf(checkedDouble(bufferLen), Wrap(arg + 2)) /\ arg \in MaxLengths
        BY <2>0, <2>2 DEF LineGrow, NewBufferLen, LineInProgress, SizesFit
      <3>2. Wrap(arg + 2) = arg + 2
        BY <3>1, WrapInRange, SizeAssumption DEF UintMax
      <3>3. checkedDouble(bufferLen) \in Int
        BY <2>0, SizeAssumption DEF checkedDouble, UintMax, Sane
      <3>4. bufferLen' <= arg + 2
        BY <2>0, <3>1, <3>2, <3>3 DEF MinOf, Sane
      <3> QED
        BY <3>1, <3>4 DEF BufferBounded
    <2>3. CASE PeekBuffered /\ bufferLen' # bufferLen
      <3>1. bufferLen' = checkedDouble(arg) /\ pattern \in Patterns /\ arg = Len(pattern)
        BY <2>0, <2>3 DEF PeekBuffered, PeekInProgress, SizesFit
      <3>2. bufferLen' <= 2 * Len(pattern)
        BY <2>0, <3>1, SizeAssumption DEF checkedDouble, UintMax, Sane
      <3> QED
        BY <3>1, <3>2 DEF BufferBounded
    <2>4. LineGrow \/ PeekBuffered \/ UNCHANGED bufferLen
      BY DEF vars, bufferVars, CarefulNext, ReadCall, read, readFixedLength, EnterRead, readLine, peekMatch,
             CarefulDiscardCall, DiscardCall, discard, ReaderStep, ReadBuffered, ReadVectored, FixedDone,
             LineFound, LineMove, LineTooLong, LineMore, DiscardDone, DiscardAll, DiscardRead, SocketStep,
             ReadArrive, LineArrive, LineEof, PeekArrive, DiscardArrive, SocketEof, SocketError
    <2> QED
      BY <2>1, <2>2, <2>3, <2>4
  <1> QED
    BY <1>1, <1>2, Invariance, PTL DEF CarefulSpec

-----------------------------------------------------------------------------
(* The refinement.                                                         *)

\* The initial states are ones of the abstract stream.
LEMMA InitRefines == Init => Promise!Init
  BY DEF Init, Promise!Init, Result, Out, NoBytes, Promise!NoBytes

\* The beginning of a call is one of the abstract stream.
LEMMA CallRefines ==
  ASSUME IInv, ReadCall \/ CarefulDiscardCall
  PROVE  Promise!Begin
  <1>0. Sane
    BY Basics
  <1>1. /\ pc = "idle" /\ pc' # "idle" /\ base' = consumed
        /\ UNCHANGED <<consumed, ret>>
        /\ \/ op' \in {"read", "fixed", "discard"} /\ arg' \in DestLens
           \/ op' = "line" /\ arg' \in MaxLengths
           \/ op' = "peek" /\ arg' \in {Len(s) : s \in Patterns}
    BY DEF ReadCall, read, readFixedLength, EnterRead, readLine, peekMatch,
           CarefulDiscardCall, DiscardCall, discard, Enter
  <1>2. Out' = NoBytes
    <2>1. (IF op' \in {"read", "fixed"} THEN consumed' - base' - 1 ELSE -1) = -1
      BY <1>0, <1>1 DEF Sane
    <2> QED
      BY <2>1 DEF Out, NoBytes
  <1> QED
    BY <1>1, <1>2 DEF Promise!Begin, NoBytes, Promise!NoBytes

\* Lines, peeks and discards hand nothing over byte by byte.
LEMMA OutEmpty ==
  ASSUME op \notin {"read", "fixed"}, op' = op PROVE Out = NoBytes /\ Out' = NoBytes
  BY DEF Out, NoBytes

\* What has been handed over changes only with dest.
LEMMA OutSame ==
  ASSUME UNCHANGED <<consumed, op, base, dest>> PROVE Out' = Out
  BY DEF Out

\* A copy to the caller hands over the next bytes of the stream.
LEMMA CopyRefines ==
  ASSUME IInv, IInv', ReadBuffered \/ ReadArrive
  PROVE  Promise!Copy
  <1>0. Sane /\ ReadInProgress /\ Sane' /\ CopiesInOrder'
    <2>1. IInv' => Sane'
      BY Basics, PTL
    <2> QED
      BY <2>1, Basics DEF IInv
  <1>1. /\ pc \in {"read", "readSocket"} /\ op \in {"read", "fixed"}
        /\ UNCHANGED <<op, arg, base>>
    BY <1>0 DEF ReadBuffered, ReadArrive, ReadInProgress, callVars
  <1>2. \E c \in Int : Copied(c)
    <2>1. CASE ReadBuffered
      <3>1. MinOf(available, len) \in Int
        BY <1>0 DEF MinOf, Sane
      <3> QED
        BY <2>1, <3>1 DEF ReadBuffered
    <2>2. CASE ReadArrive
      <3>1. PICK k \in Arriving(len + bufferLen) : Copied(MinOf(k, len))
        BY <2>2 DEF ReadArrive
      <3>2. k \in Nat
        BY <1>0, ArrivingIs DEF Sane
      <3>3. MinOf(k, len) \in Int
        BY <1>0, <3>2 DEF MinOf, Sane
      <3> QED
        BY <3>1, <3>3
    <2> QED
      BY <2>1, <2>2
  <1>3. consumed' \in consumed .. N /\ consumed' <= base + arg
    <2>1. consumed' >= consumed
      <3>1. CASE ReadBuffered
        <4>1. MinOf(available, len) \in Nat /\ consumed' = consumed + MinOf(available, len)
          BY <1>0, <3>1 DEF MinOf, Sane, ReadBuffered, Copied
        <4> QED
          BY <1>0, <4>1 DEF Sane
      <3>2. CASE ReadArrive
        <4>1. PICK k \in Arriving(len + bufferLen) : consumed' = consumed + MinOf(k, len)
          BY <3>2 DEF ReadArrive, Copied
        <4>2. k \in Nat
          BY <1>0, ArrivingIs DEF Sane
        <4>3. MinOf(k, len) \in Nat
          BY <1>0, <4>2 DEF MinOf, Sane
        <4> QED
          BY <1>0, <4>1, <4>3 DEF Sane
      <3> QED
        BY <3>1, <3>2
    <2>2. /\ consumed' \in Nat /\ consumed' <= N /\ len' \in Nat /\ N \in Nat
          /\ consumed \in Nat /\ arg \in Nat /\ base \in Nat
      BY <1>0 DEF Sane
    <2>3. \A c, a, b, l \in Nat : l = a - (c - b) => c <= b + a
      OBVIOUS
    <2>4. len' = arg - (consumed' - base)
      BY <1>0, <1>1 DEF CopiesInOrder
    <2>5. consumed' <= base + arg
      BY <2>2, <2>3, <2>4
    <2> QED
      BY <2>1, <2>2, <2>5
  <1>4. Out' = [i \in 0 .. (consumed' - base - 1) |-> base + i]
    BY <1>0, <1>1 DEF Out, CopiesInOrder
  <1>5. IF op = "read" THEN pc' = "idle" /\ ret'.err = "Ok" ELSE pc' # "idle" /\ ret' = ret
    BY <1>1, <1>2 DEF Copied, Result
  <1>6. CASE op = "read"
    BY <1>1, <1>3, <1>4, <1>5, <1>6 DEF Promise!Copy, Promise!Return, N, Promise!N
  <1>7. CASE op # "read"
    BY <1>1, <1>3, <1>4, <1>5, <1>7 DEF Promise!Copy, Promise!GoOn, N, Promise!N
  <1> QED
    BY <1>6, <1>7

\* readFixedLength returns once it has all its bytes.
LEMMA FixedDoneRefines ==
  ASSUME IInv, FixedDone
  PROVE  Promise!Filled
  <1>0. Sane /\ CopiesInOrder
    BY Basics DEF IInv
  <1>1. /\ pc = "read" /\ pc' = "idle" /\ op = "fixed" /\ len = 0 /\ ret'.err = "Ok"
        /\ UNCHANGED <<consumed, op, arg, base, dest>>
    BY DEF FixedDone, Return, Result, callVars
  <1>2. consumed = base + arg
    BY <1>0, <1>1 DEF CopiesInOrder, Sane
  <1> QED
    BY <1>1, <1>2, OutSame DEF Promise!Filled, Promise!Return

\* A line consumes the bytes up to its end and no others.
LEMMA LineFoundRefines ==
  ASSUME IInv, LineFound
  PROVE  Promise!Line
  <1>0. Sane /\ BufferHoldsUnread /\ LineInProgress
    BY Basics DEF IInv
  <1>a. PICK i \in index .. (endIndex - 1) :
         /\ IsNewline(i)
         /\ \A j \in index .. (i - 1) : ~IsNewline(j)
         /\ consumed' = consumed + (i + 1 - startIndex)
         /\ ret' = Result("Ok", FALSE, startIndex, Wrap(LineEndIndex(i) - startIndex))
    BY DEF LineFound
  <1>b. /\ pc = "line" /\ pc' = "idle" /\ op = "line" /\ UNCHANGED <<op, arg, base>>
    BY <1>0 DEF LineFound, callVars, LineInProgress
  <1>c. i \in Nat /\ i >= startIndex /\ i < endIndex
    BY <1>0, <1>b DEF LineInProgress, Sane
  <1>d. ret'.err = "Ok"
    BY <1>a DEF Result
  <1>1. consumed' \in (consumed + 1) .. N
    BY <1>0, <1>a, <1>c DEF Sane
  <1>2. \A p \in consumed .. (consumed' - 2) : Char(p) # LF
    <2> SUFFICES ASSUME NEW p \in consumed .. (consumed' - 2) PROVE Char(p) # LF
      OBVIOUS
    <2>1. PICK j \in Nat : j = startIndex + (p - consumed)
      BY <1>0 DEF Sane
    <2>2. j \in startIndex .. (i - 1) /\ buffer[j] = p
      BY <1>0, <1>a, <1>c, <2>1 DEF BufferHoldsUnread, Sane
    <2>3. Char(buffer[j]) # LF
      BY <1>0, <1>a, <1>b, <1>c, <2>2 DEF LineInProgress, IsNewline, Sane
    <2> QED
      BY <2>2, <2>3
  <1>3. Char(consumed' - 1) = LF
    <2>1. buffer[i] = consumed' - 1
      BY <1>0, <1>a, <1>c DEF BufferHoldsUnread, Sane
    <2> QED
      BY <1>a, <2>1 DEF IsNewline
  <1> QED
    BY <1>1, <1>2, <1>3, <1>b, <1>d, OutEmpty
       DEF Promise!Line, Promise!Return, N, Promise!N, Char, Promise!Char

\* The last line consumes what is left.
LEMMA LineEofRefines ==
  ASSUME IInv, LineEof
  PROVE  Promise!Line
  <1>0. Sane /\ BufferHoldsUnread /\ LineInProgress
    BY Basics DEF IInv
  <1>a. /\ pc = "lineSocket" /\ pc' = "idle" /\ op = "line" /\ received = N
        /\ startIndex = 0 /\ index = endIndex /\ startIndex # endIndex
        /\ consumed' = consumed + available /\ ret'.err = "Ok"
        /\ UNCHANGED <<op, arg, base>>
        /\ \A i \in startIndex .. (index - 1) : Char(buffer[i]) # LF
    BY <1>0 DEF LineEof, callVars, Result, LineInProgress
  <1>1. consumed' \in (consumed + 1) .. N /\ consumed' = N
    BY <1>0, <1>a DEF Sane
  <1>2. \A p \in consumed .. (consumed' - 2) : Char(p) # LF
    <2> SUFFICES ASSUME NEW p \in consumed .. (consumed' - 2) PROVE Char(p) # LF
      OBVIOUS
    <2>1. PICK j \in Nat : j = p - consumed
      BY <1>0 DEF Sane
    <2>2. j \in startIndex .. (endIndex - 1) /\ buffer[j] = p
      BY <1>0, <1>a, <2>1 DEF BufferHoldsUnread, Sane
    <2> QED
      BY <1>a, <2>2
  <1> QED
    BY <1>1, <1>2, <1>a, OutEmpty DEF Promise!Line, Promise!Return, N, Promise!N, Char, Promise!Char

\* discard consumes bytes, up to the number asked for.
LEMMA DiscardRefines ==
  ASSUME IInv, DiscardDone \/ DiscardAll
  PROVE  Promise!Drop
  <1>0. Sane /\ DiscardInProgress
    BY Basics DEF IInv
  <1>a. /\ pc = "discard" /\ op = "discard" /\ UNCHANGED <<op, arg, base>>
        /\ len = arg - (consumed - base)
    BY <1>0 DEF DiscardDone, DiscardAll, DiscardInProgress, callVars
  <1>1. CASE DiscardDone
    <2>1. /\ consumed' = consumed + len /\ available > len
          /\ pc' = "idle" /\ ret'.err = "Ok"
      BY <1>1 DEF DiscardDone, Return, Result
    <2>2. consumed' \in consumed .. N /\ consumed' = base + arg /\ consumed' <= base + arg
      BY <1>0, <1>a, <2>1 DEF Sane
    <2> QED
      BY <1>a, <2>1, <2>2, OutEmpty DEF Promise!Drop, Promise!Return, N, Promise!N
  <1>2. CASE DiscardAll
    <2>1. /\ consumed' = consumed + available /\ available <= len
          /\ pc' # "idle" /\ ret' = ret
      BY <1>2 DEF DiscardAll
    <2>2. consumed' \in consumed .. N /\ consumed' <= base + arg
      BY <1>0, <1>a, <2>1 DEF Sane
    <2> QED
      BY <1>a, <2>1, <2>2, OutEmpty DEF Promise!Drop, Promise!GoOn, N, Promise!N
  <1> QED
    BY <1>1, <1>2

\* peekMatch consumes nothing.
LEMMA PeekRefines ==
  ASSUME IInv, PeekBuffered \/ PeekArrive
  PROVE  Promise!Peek \/ UNCHANGED Promise!vars
  <1>0. PeekInProgress
    BY DEF IInv
  <1>a. /\ pc \in {"peek", "peekSocket"} /\ op = "peek"
        /\ UNCHANGED <<consumed, op, arg, base, dest>>
    BY <1>0 DEF PeekBuffered, PeekArrive, PeekInProgress, callVars
  <1>b. \/ pc' = "idle" /\ ret'.err = "Ok"
        \/ pc' = "peekSocket" /\ ret' = ret
    BY DEF PeekBuffered, PeekArrive, Result
  <1> QED
    BY <1>a, <1>b, OutSame DEF Promise!Peek, Promise!Return, Promise!vars

\* A call that fails consumes nothing in that step.
LEMMA FailRefines ==
  ASSUME IInv, LineTooLong \/ SocketEof \/ SocketError
  PROVE  Promise!Fail
  <1>0. Sane /\ ReadInProgress /\ LineInProgress /\ PeekInProgress /\ DiscardInProgress
    BY Basics DEF IInv
  <1>a. pc # "idle" /\ pc' = "idle" /\ UNCHANGED <<consumed, op, arg, base, dest>>
    BY DEF LineTooLong, SocketEof, SocketError, Return, callVars, Waiting
  <1>1. CASE LineTooLong
    BY <1>0, <1>1, <1>a, OutSame DEF LineTooLong, Return, Result, LineInProgress,
       Promise!Fail, Promise!Return
  <1>2. CASE SocketError
    BY <1>2, <1>a, OutSame DEF SocketError, Return, Result, Promise!Fail, Promise!Return
  <1>3. CASE SocketEof
    <2>1. consumed = N \/ (op = "peek" /\ consumed + arg > N)
      <3>1. received = N /\ pc \in Waiting /\ (pc = "lineSocket" => startIndex = endIndex)
        BY <1>3 DEF SocketEof, EofReturned
      <3>2. CASE pc = "peekSocket"
        BY <1>0, <3>1, <3>2 DEF PeekInProgress, Sane
      <3>3. CASE pc # "peekSocket"
        BY <1>0, <3>1, <3>3 DEF Waiting, ReadInProgress, DiscardInProgress, Sane
      <3> QED
        BY <3>2, <3>3
    <2>2. ret'.err = "Eof"
      BY <1>3 DEF SocketEof, Return, Result
    <2> QED
      BY <1>a, <2>1, <2>2, OutSame DEF Promise!Fail, Promise!Return, N, Promise!N
  <1> QED
    BY <1>1, <1>2, <1>3

\* Moving, growing and filling the buffer cannot be seen from outside.
LEMMA SilentRefines ==
  ASSUME IInv, \/ ReadVectored \/ LineMove \/ LineGrow \/ LineMore \/ LineArrive
               \/ DiscardRead \/ DiscardArrive \/ UNCHANGED vars
  PROVE  UNCHANGED Promise!vars
  <1>1. /\ UNCHANGED <<consumed, op, arg, base, dest, ret>>
        /\ (pc' # "idle") = (pc # "idle")
    BY DEF ReadVectored, LineMove, LineGrow, LineMore, LineArrive, DiscardRead, DiscardArrive,
           vars, callVars
  <1> QED
    BY <1>1, OutSame DEF Promise!vars

\* The buffered reader implements the byte stream of ByteStream: every call
\* consumes and delivers exactly what it promises.
THEOREM Refinement == CarefulSpec => ImplementsByteStream
  <1>1. IInv /\ IInv' /\ [CarefulNext]_vars => [Promise!Next]_(Promise!vars)
    BY CallRefines, CopyRefines, FixedDoneRefines, LineFoundRefines, LineEofRefines,
       DiscardRefines, PeekRefines, FailRefines, SilentRefines
       DEF CarefulNext, ReaderStep, SocketStep, Promise!Next
  <1> QED
    BY <1>1, InitRefines, Invariance, PTL DEF CarefulSpec, ImplementsByteStream, Promise!Spec
=============================================================================
