--------------------------- MODULE ChannelProofs ---------------------------
(***************************************************************************)
(* Theorems about Channel, for every set of sizes, items and callers: its  *)
(* invariants, and that the ring buffer implements the bounded FIFO queue  *)
(* of ChannelQueue.                                                        *)
(***************************************************************************)
EXTENDS Channel, FiniteSetTheorems, SequenceTheorems, TLAPS

(* Arithmetic of cursors *)

LEMMA ModRange == ASSUME NEW n \in Nat \ {0}, NEW a \in Int
                  PROVE  a % n \in 0..n-1
  BY SMT

LEMMA ModSmall == ASSUME NEW n \in Nat \ {0}, NEW a \in 0..n-1
                  PROVE  a % n = a
  BY SMT

LEMMA ModOver == ASSUME NEW n \in Nat \ {0}, NEW a \in n..2*n-1
                 PROVE  a % n = a - n
  BY SMT

LEMMA ModTwice == ASSUME NEW n \in Nat \ {0}, NEW a \in 2*n..3*n-1
                  PROVE  a % n = a - 2*n
  BY SMT

LEMMA ModUnder == ASSUME NEW n \in Nat \ {0}, NEW a \in -n..-1
                  PROVE  a % n = a + n
  BY SMT

LEMMA ModFarUnder == ASSUME NEW n \in Nat \ {0}, NEW a \in -2*n..-n-1
                     PROVE  a % n = a + 2*n
  BY SMT

\* Moving a cursor keeps it in range and its flag in step, for every size
\* whose cursors fit a C int.
LEMMA Advance ==
  ASSUME NEW cursor \in 0..2*size-1, NEW flag \in {1, 2, 3}, size \in 1..IntMax,
         IntMax \in Nat, SafeSize(size), FlagAgrees(cursor, flag)
  PROVE  /\ NextCursor(cursor, flag) = IF cursor + 1 = 2*size THEN 0 ELSE cursor + 1
         /\ NextFlag(cursor, flag) \in {1, 2, 3}
         /\ FlagAgrees(NextCursor(cursor, flag), NextFlag(cursor, flag))
<1>1. NextCursor(cursor, flag) = IF cursor + 1 = 2*size THEN 0 ELSE cursor + 1
  <2>1. (cursor + 1) % (2*size) = IF cursor + 1 = 2*size THEN 0 ELSE cursor + 1
    <3>1. 2*size \in Nat \ {0} /\ cursor + 1 \in 0..2*size
      OBVIOUS
    <3>2. CASE cursor + 1 = 2*size
      <4>1. 2*size \in 2*size..2*(2*size)-1
        BY <3>1
      <4> QED BY <3>1, <3>2, <4>1, ModOver
    <3>3. CASE cursor + 1 # 2*size
      <4>1. cursor + 1 \in 0..2*size-1
        BY <3>1, <3>3
      <4> QED BY <3>1, <3>3, <4>1, ModSmall
    <3> QED BY <3>2, <3>3
  <2>2. CASE flag = 3
    BY <2>1, <2>2 DEF NextCursor
  <2>3. CASE flag # 3
    <3>1. 2 * size <= IntMax
      BY <2>3 DEF SafeSize, FlagAgrees, Abs
    <3>2. Wrap(cursor + 1) = cursor + 1
      BY <3>1 DEF Wrap
    <3> QED BY <2>1, <2>3, <3>2 DEF NextCursor
  <2> QED BY <2>2, <2>3
<1> QED BY <1>1 DEF NextFlag, FlagAgrees, Abs

-----------------------------------------------------------------------------
(* Types *)

\* The outcomes of a step that a reader needs to tell the steps apart are in
\* Step; the frame it leaves behind is typed here once.
LEMMA SlotsAreSlots ==
  ASSUME TypeOK PROVE SendSlot \in 0..size-1 /\ RecvSlot \in 0..size-1
<1>1. size \in Nat \ {0} /\ sendx \in Int /\ recvx \in Int
  BY SizesAssumption DEF TypeOK
<1> QED BY <1>1, ModRange DEF SendSlot, RecvSlot

LEMMA NextFlagType ==
  ASSUME NEW cursor, NEW flag PROVE NextFlag(cursor, flag) \in {1, 2, 3}
  BY DEF NextFlag

LEMMA NextCursorType ==
  ASSUME NEW cursor \in Int, NEW flag, TypeOK PROVE NextCursor(cursor, flag) \in Int
<1>1. size \in Nat \ {0} /\ 2*size \in Nat \ {0} /\ IntMax \in Nat
  BY SizesAssumption, IntMaxAssumption DEF TypeOK
<1>2. Wrap(cursor + 1) \in Int
  BY <1>1 DEF Wrap
<1>3. (cursor + 1) % (2*size) \in Int /\ Wrap(cursor + 1) % (2*size) \in Int
  BY <1>1, <1>2, ModRange
<1> QED BY <1>1, <1>2, <1>3 DEF NextCursor

LEMMA InitTypeOK == Init => TypeOK
<1> SUFFICES ASSUME Init PROVE TypeOK OBVIOUS
<1>1. size \in Nat \ {0}
  BY SizesAssumption DEF Init
<1> QED BY <1>1 DEF Init, TypeOK, Idle, Frame, Frames, Breaches, Faults

LEMMA ReleaseType ==
  ASSUME TypeOK, NEW x, NEW n \in Nat, Release(x, n)
  PROVE  rc' \in [Items -> Int] /\ fault' \in Faults
<1>1. rc' \in [Items -> Int]
  <2>1. x \in Items => rc[x] - n \in Int
    BY DEF TypeOK
  <2> QED BY <2>1 DEF Release, TypeOK
<1> QED BY <1>1 DEF Release, TypeOK, Faults

LEMMA ReturnsType ==
  ASSUME TypeOK, NEW c \in Callers, Returns(c)
  PROVE  call' \in [Callers -> Frames] /\ \A d \in Callers : call'[d].idx < size
<1>1. size \in Nat \ {0}
  BY SizesAssumption DEF TypeOK
<1> QED BY <1>1 DEF TypeOK, Returns, Idle, Frame, Frames

LEMMA GoesType ==
  ASSUME TypeOK, NEW c \in Callers, NEW op \in {"recv", "nothing", "consume", "drop", "clear"},
         NEW i \in 0..size-1, NEW x \in Items \cup {NULL}, Goes(c, op, i, x)
  PROVE  call' \in [Callers -> Frames] /\ \A d \in Callers : call'[d].idx < size
<1>1. Frame(op, i, x) \in Frames /\ Frame(op, i, x).idx = i
  BY DEF Frame, Frames
<1>2. size \in Nat \ {0}
  BY SizesAssumption DEF TypeOK
<1> QED BY <1>1, <1>2 DEF TypeOK, Goes

LEMMA FrameType ==
  ASSUME TypeOK, NEW c \in Callers
  PROVE  call[c].idx \in 0..size-1 /\ call[c].item \in Items \cup {NULL}
<1>1. size \in Nat \ {0}
  BY SizesAssumption DEF TypeOK
<1> QED BY <1>1 DEF TypeOK, Frames, Idle, Frame

LEMMA ClearFromTypeOK ==
  ASSUME TypeOK, NEW c \in Callers, NEW buffer \in [0..size-1 -> Items \cup {NULL}],
         NEW from \in Nat, ClearFrom(c, buffer, from)
  PROVE  /\ call' \in [Callers -> Frames]
         /\ \A d \in Callers : call'[d].idx < size
         /\ rc' \in [Items -> Int]
         /\ fault' \in Faults
<1> size \in Nat \ {0}
  BY SizesAssumption DEF TypeOK
<1>1. CASE Occupied(buffer, from) = {}
  BY <1>1, ReturnsType DEF ClearFrom, TypeOK
<1>2. CASE Occupied(buffer, from) # {}
  <2>1. PICK i \in Occupied(buffer, from) :
          /\ Goes(c, "clear", i, buffer[i])
          /\ Release(buffer[i], 1)
    BY <1>2 DEF ClearFrom
  <2>2. i \in 0..size-1 /\ buffer[i] \in Items
    BY DEF Occupied
  <2> QED BY <2>1, <2>2, GoesType, ReleaseType
<1> QED BY <1>1, <1>2

LEMMA StepTypeOK == TypeOK /\ [Next]_vars => TypeOK'
<1> SUFFICES ASSUME TypeOK, [Next]_vars PROVE TypeOK' OBVIOUS
<1>0. size \in Nat \ {0} /\ size \in Sizes
  BY SizesAssumption DEF TypeOK
<1> USE <1>0, SlotsAreSlots
<1>1. CASE UNCHANGED vars
  BY <1>1 DEF TypeOK, vars, ring
<1>2. ASSUME NEW c \in Callers, Step(c) PROVE TypeOK'
  <2> USE FrameType
  <2>1. ASSUME NEW x \in Items, Send(c, x) PROVE TypeOK'
    BY SMTT(40), <2>1, NextFlagType, NextCursorType DEF Send, TypeOK, Faults
  <2>2. CASE SendRefused(c)
    BY <2>2 DEF SendRefused, TypeOK, ring
  <2>3. ASSUME NEW op \in {"recv", "consume"}, TakeRefused(c, op) PROVE TypeOK'
    BY <2>3 DEF TakeRefused, TypeOK, ring
  <2>4. CASE RecvBegin(c)
    BY <2>4, GoesType DEF RecvBegin, TypeOK, ring, Overlap, Breaches
  <2>5. CASE RecvSeesEmpty(c)
    <3>1. 0 \in 0..size-1
      OBVIOUS
    <3> QED BY <2>5, <3>1, GoesType DEF RecvSeesEmpty, TypeOK, ring
  <2>5a. CASE RecvNothing(c) \/ RecvNoMemory(c)
    BY <2>5a, ReturnsType DEF RecvNothing, RecvNoMemory, TypeOK, ring
  <2>6. CASE RecvEnd(c)
    <3>1. rc' \in [Items -> Int] /\ fault' \in Faults
      BY <2>6, ReleaseType DEF RecvEnd, Faults, TypeOK
    <3> QED BY <2>6, <3>1, NextFlagType, NextCursorType, ReturnsType
            DEF RecvEnd, Taken, TypeOK
  <2>7. CASE ConsumeBegin(c)
    <3>1. CASE ob_item[RecvSlot] = NULL
      BY <2>7, <3>1 DEF ConsumeBegin, TypeOK, ring, Faults, Overlap, Breaches
    <3>2. CASE ob_item[RecvSlot] # NULL
      BY <2>7, <3>2, GoesType DEF ConsumeBegin, TypeOK, ring, Overlap, Breaches
    <3> QED BY <3>1, <3>2
  <2>8. CASE ConsumeKeep(c)
    BY <2>8, ReturnsType, ReleaseType DEF ConsumeKeep, TypeOK, ring
  <2>9. CASE ConsumeDrop(c)
    BY <2>9, GoesType, ReleaseType DEF ConsumeDrop, TypeOK, ring
  <2>10. CASE ConsumeFinish(c)
    BY <2>10, NextFlagType, NextCursorType, ReturnsType DEF ConsumeFinish, Taken, TypeOK
  <2>11. CASE ClearBegin(c)
    BY <2>11, ClearFromTypeOK DEF ClearBegin, TypeOK, ring, Overlap, Breaches
  <2>12. CASE ClearNext(c)
    <3>1. ob_item' \in [0..size-1 -> Items \cup {NULL}]
      BY <2>12 DEF ClearNext, TypeOK
    <3>2. ClearFrom(c, ob_item', call[c].idx + 1) /\ call[c].idx + 1 \in Nat
      BY <2>12 DEF ClearNext
    <3>3. /\ call' \in [Callers -> Frames] /\ \A d \in Callers : call'[d].idx < size
          /\ rc' \in [Items -> Int] /\ fault' \in Faults
      BY <3>1, <3>2, ClearFromTypeOK
    <3> QED BY <2>12, <3>1, <3>3 DEF ClearNext, TypeOK
  <2>13. ASSUME NEW send \in BOOLEAN, NEW recv \in BOOLEAN, Close(c, send, recv) PROVE TypeOK'
    BY <2>13 DEF Close, TypeOK, Breaches
  <2>14. CASE Sendable(c) \/ Recvable(c)
    BY <2>14 DEF Sendable, Recvable, TypeOK, ring
  <2> QED BY <1>2, <2>1, <2>2, <2>3, <2>4, <2>5, <2>5a, <2>6, <2>7, <2>8, <2>9, <2>10,
             <2>11, <2>12, <2>13, <2>14 DEF Step
<1> QED BY <1>1, <1>2 DEF Next

\* Every reachable state of a channel is well typed.
THEOREM TypeCorrect == Spec => []TypeOK
  BY InitTypeOK, StepTypeOK, PTL DEF Spec

-----------------------------------------------------------------------------
(* Cursors *)

\* Nobody closes the receive side under a running receiver, so the receiver
\* still finds it open when it moves recvx.
OpenFrames ==
  "close" \notin breach =>
    \A c \in Callers : call[c].op \in {"recv", "consume", "drop"} => rflag > 0

CInv == TypeOK /\ CursorsInRange /\ OpenFrames

LEMMA CInvType ==
  ASSUME CInv
  PROVE  /\ size \in 1..IntMax /\ IntMax \in Nat
         /\ sflag \in {-3, -2, -1, 1, 2, 3} /\ rflag \in {-3, -2, -1, 1, 2, 3}
  BY SizesAssumption, IntMaxAssumption DEF CInv, TypeOK

LEMMA InitCInv == Init => CInv
<1> SUFFICES ASSUME Init PROVE CInv OBVIOUS
<1>1. size \in Nat \ {0}
  BY SizesAssumption DEF Init
<1>2. CursorsInRange
  BY <1>1 DEF Init, CursorsInRange, InRange, FlagAgrees, Abs
<1>3. OpenFrames
  BY DEF Init, OpenFrames, Idle, Frame
<1> QED BY <1>2, <1>3, InitTypeOK DEF CInv

\* Channel_incr_recvx, called by recv() and safe_consume()
LEMMA TakenCursors ==
  ASSUME CInv, NEW i, Taken(i), UNCHANGED <<size, sendx, sflag, breach>>,
         "close" \notin breach => rflag > 0
  PROVE  CursorsInRange' /\ rflag' > 0
<1>1. rflag' > 0
  BY NextFlagType DEF Taken
<1>2. SUFFICES ASSUME SafeSize(size), "close" \notin breach
               PROVE InRange(recvx)' /\ FlagAgrees(recvx, rflag)'
  BY <1>1 DEF CInv, CursorsInRange, InRange, FlagAgrees
<1>3. recvx \in 0..2*size-1 /\ rflag \in {1, 2, 3} /\ FlagAgrees(recvx, rflag)
  BY <1>2, CInvType DEF CInv, CursorsInRange, InRange
<1>4. /\ recvx' = IF recvx + 1 = 2*size THEN 0 ELSE recvx + 1
      /\ FlagAgrees(NextCursor(recvx, rflag), NextFlag(recvx, rflag))
  BY <1>2, <1>3, CInvType, Advance DEF Taken
<1>5. InRange(recvx)'
  BY <1>3, <1>4, CInvType DEF InRange
<1>6. FlagAgrees(recvx, rflag)'
  BY <1>4 DEF Taken, FlagAgrees
<1> QED BY <1>5, <1>6

LEMMA StepCInv == CInv /\ [Next]_vars => CInv'
<1> SUFFICES ASSUME CInv, [Next]_vars PROVE CInv' OBVIOUS
<1>0. TypeOK' /\ TypeOK
  BY StepTypeOK DEF CInv
<1> USE CInvType
<1>1. CASE UNCHANGED vars
  <2>1. CursorsInRange'
    BY <1>1 DEF CInv, vars, ring, CursorsInRange, InRange, FlagAgrees
  <2>2. OpenFrames'
    BY <1>1 DEF CInv, vars, ring, OpenFrames
  <2> QED BY <1>0, <2>1, <2>2 DEF CInv
<1>2. ASSUME NEW c \in Callers, Step(c) PROVE CursorsInRange' /\ OpenFrames'
  <2>a. ASSUME UNCHANGED <<size, sendx, recvx, sflag, rflag>>,
               "close" \notin breach' => "close" \notin breach
        PROVE  CursorsInRange'
    BY <2>a DEF CInv, CursorsInRange, InRange, FlagAgrees
  <2>b. ASSUME rflag' = rflag, "close" \notin breach' => "close" \notin breach,
               \A d \in Callers : call'[d].op \in {"recv", "consume", "drop"} =>
                  rflag > 0 \/ call[d].op \in {"recv", "consume", "drop"}
        PROVE  OpenFrames'
    BY <2>b DEF CInv, OpenFrames
  <2>c. ASSUME Returns(c) PROVE \A d \in Callers :
               call'[d].op \in {"recv", "consume", "drop"} => call'[d] = call[d]
    BY <2>c, <1>0 DEF Returns, TypeOK, Idle, Frame
  <2>d. ASSUME NEW op, NEW i, NEW x, Goes(c, op, i, x)
        PROVE  \A d \in Callers : call'[d] = IF d = c THEN Frame(op, i, x) ELSE call[d]
    BY <2>d, <1>0 DEF Goes, TypeOK
  <2>1. ASSUME NEW x \in Items, Send(c, x) PROVE CursorsInRange' /\ OpenFrames'
    <3>1. OpenFrames'
      BY <2>1, <2>b DEF Send
    <3>2. sflag \in {1, 2, 3}
      BY <2>1 DEF Send, SendClosed
    <3>3. ASSUME SafeSize(size) PROVE InRange(sendx)' /\ FlagAgrees(sendx, sflag)'
      <4>1. sendx \in 0..2*size-1 /\ FlagAgrees(sendx, sflag)
        BY <3>3 DEF CInv, CursorsInRange, InRange
      <4>2. /\ sendx' = IF sendx + 1 = 2*size THEN 0 ELSE sendx + 1
            /\ FlagAgrees(NextCursor(sendx, sflag), NextFlag(sendx, sflag))
        BY <2>1, <3>2, <3>3, <4>1, Advance DEF Send
      <4>3. InRange(sendx)'
        BY <2>1, <4>1, <4>2 DEF Send, InRange
      <4>4. FlagAgrees(sendx, sflag)'
        BY <2>1, <4>2 DEF Send, FlagAgrees
      <4> QED BY <4>3, <4>4
    <3> QED BY <2>1, <3>1, <3>3 DEF Send, CInv, CursorsInRange, InRange, FlagAgrees
  <2>2. CASE SendRefused(c)
    BY <2>2, <2>a, <2>b DEF SendRefused, ring
  <2>3. ASSUME NEW op \in {"recv", "consume"}, TakeRefused(c, op)
        PROVE  CursorsInRange' /\ OpenFrames'
    BY <2>3, <2>a, <2>b DEF TakeRefused, ring
  <2>4. CASE RecvBegin(c)
    BY <2>4, <2>a, <2>b, <2>d DEF RecvBegin, RecvClosed, ring
  <2>5. CASE RecvSeesEmpty(c)
    <3>1. Frame("nothing", 0, NULL).op = "nothing"
      BY DEF Frame
    <3> QED BY <2>5, <3>1, <2>a, <2>b, <2>d DEF RecvSeesEmpty, ring
  <2>5a. CASE RecvNothing(c) \/ RecvNoMemory(c)
    BY <2>5a, <2>a, <2>b, <2>c DEF RecvNothing, RecvNoMemory, ring
  <2>6. CASE RecvEnd(c)
    <3>1. "close" \notin breach => rflag > 0
      BY <2>6 DEF RecvEnd, Inside, CInv, OpenFrames
    <3>2. CursorsInRange' /\ rflag' > 0
      BY <2>6, <3>1, TakenCursors DEF RecvEnd
    <3> QED BY <3>2 DEF OpenFrames
  <2>7. CASE ConsumeBegin(c)
    <3>1. CASE ob_item[RecvSlot] = NULL
      BY <2>7, <3>1, <2>a, <2>b DEF ConsumeBegin, ring
    <3>2. CASE ob_item[RecvSlot] # NULL
      BY <2>7, <3>2, <2>a, <2>b, <2>d DEF ConsumeBegin, RecvClosed, ring
    <3> QED BY <3>1, <3>2
  <2>8. CASE ConsumeKeep(c)
    BY <2>8, <2>a, <2>b, <2>c DEF ConsumeKeep, ring
  <2>9. CASE ConsumeDrop(c)
    BY <2>9, <2>a, <2>b, <2>d DEF ConsumeDrop, Inside, ring
  <2>10. CASE ConsumeFinish(c)
    <3>1. "close" \notin breach => rflag > 0
      BY <2>10 DEF ConsumeFinish, Inside, CInv, OpenFrames
    <3>2. CursorsInRange' /\ rflag' > 0
      BY <2>10, <3>1, TakenCursors DEF ConsumeFinish
    <3> QED BY <3>2 DEF OpenFrames
  <2>c1. ASSUME NEW buffer, NEW from, ClearFrom(c, buffer, from)
         PROVE  \A d \in Callers :
                   call'[d].op \in {"recv", "consume", "drop"} => call'[d] = call[d]
    <3>1. CASE Returns(c)
      BY <3>1, <2>c
    <3>2. CASE \E i \in Occupied(buffer, from) : Goes(c, "clear", i, buffer[i])
      <4>1. PICK i \in Occupied(buffer, from) : Goes(c, "clear", i, buffer[i])
        BY <3>2
      <4>2. Frame("clear", i, buffer[i]).op = "clear"
        BY DEF Frame
      <4> QED BY <4>1, <4>2, <2>d
    <3> QED BY <2>c1, <3>1, <3>2 DEF ClearFrom
  <2>11. CASE ClearBegin(c)
    <3>1. ClearFrom(c, ob_item, 0) /\ UNCHANGED ring
      BY <2>11 DEF ClearBegin
    <3>2. "close" \notin breach' => "close" \notin breach
      BY <2>11 DEF ClearBegin
    <3> QED BY <3>1, <3>2, <2>a, <2>b, <2>c1 DEF ring
  <2>12. CASE ClearNext(c)
    BY <2>12, <2>a, <2>b, <2>c1 DEF ClearNext
  <2>13. ASSUME NEW send \in BOOLEAN, NEW recv \in BOOLEAN, Close(c, send, recv)
         PROVE  CursorsInRange' /\ OpenFrames'
    <3>1. Abs(-sflag) = Abs(sflag) /\ Abs(-rflag) = Abs(rflag)
      BY DEF Abs
    <3>2. CursorsInRange'
      BY <2>13, <3>1 DEF Close, CInv, CursorsInRange, InRange, FlagAgrees
    <3>3. "close" \notin breach' => "close" \notin breach /\ (rflag' = rflag \/ ~Receiving)
      BY <2>13 DEF Close
    <3>4. OpenFrames'
      BY <2>13, <3>3 DEF Close, CInv, OpenFrames, Receiving
    <3> QED BY <3>2, <3>4
  <2>14. CASE Sendable(c) \/ Recvable(c)
    BY <2>14, <2>a, <2>b DEF Sendable, Recvable, ring
  <2> QED BY <1>2, <2>1, <2>2, <2>3, <2>4, <2>5, <2>5a, <2>6, <2>7, <2>8, <2>9, <2>10,
             <2>11, <2>12, <2>13, <2>14 DEF Step
<1> QED BY <1>0, <1>1, <1>2 DEF Next, CInv

\* Whatever clients do, the cursors of a channel whose size is safe stay in
\* [0, 2*size) with the flag the comment on CtsChannel gives them.
THEOREM CursorsCorrect == Spec => []CursorsInRange
<1>1. CInv => CursorsInRange
  BY DEF CInv
<1> QED BY <1>1, InitCInv, StepCInv, PTL DEF Spec

-----------------------------------------------------------------------------
(* The window between the cursors *)

LEMMA SlotArith ==
  ASSUME NEW n \in Nat \ {0}, NEW r \in 0..2*n-1
  PROVE  r % n = IF r < n THEN r ELSE r - n
<1>1. CASE r < n BY <1>1, ModSmall
<1>2. CASE r >= n BY <1>2, ModOver
<1> QED BY <1>1, <1>2

LEMMA CountArith ==
  ASSUME NEW n \in Nat \ {0}, NEW s \in 0..2*n-1, NEW r \in 0..2*n-1
  PROVE  (s - r) % (2*n) = IF s >= r THEN s - r ELSE s - r + 2*n
<1>0. 2*n \in Nat \ {0} OBVIOUS
<1>1. CASE s >= r
  <2>1. s - r \in 0..2*n-1 BY <1>1
  <2> QED BY <1>0, <1>1, <2>1, ModSmall
<1>2. CASE s < r
  <2>1. s - r \in -(2*n)..-1 BY <1>2
  <2> QED BY <1>0, <1>2, <2>1, ModUnder
<1> QED BY <1>1, <1>2

LEMMA AheadArith ==
  ASSUME NEW n \in Nat \ {0}, NEW i \in 0..n-1, NEW r \in 0..2*n-1
  PROVE  (i - r) % n = IF i >= r THEN i - r
                       ELSE IF i - r >= -n THEN i - r + n ELSE i - r + 2*n
<1>1. CASE i >= r
  <2>1. i - r \in 0..n-1 BY <1>1
  <2> QED BY <1>1, <2>1, ModSmall
<1>2. CASE i < r /\ i - r >= -n
  <2>1. i - r \in -n..-1 BY <1>2
  <2> QED BY <1>2, <2>1, ModUnder
<1>3. CASE i - r < -n
  <2>1. i - r \in -2*n..-n-1 BY <1>3
  <2> QED BY <1>3, <2>1, ModFarUnder
<1> QED BY <1>1, <1>2, <1>3

LEMMA OppositeArith ==
  ASSUME NEW n \in Nat \ {0}, NEW r \in 0..2*n-1
  PROVE  (r + n) % (2*n) = IF r < n THEN r + n ELSE r - n
<1>0. 2*n \in Nat \ {0} OBVIOUS
<1>1. CASE r < n
  <2>1. r + n \in 0..2*n-1 BY <1>1
  <2> QED BY <1>0, <1>1, <2>1, ModSmall
<1>2. CASE r >= n
  <2>1. r + n \in 2*n..2*(2*n)-1 BY <1>2
  <2> QED BY <1>0, <1>2, <2>1, ModOver
<1> QED BY <1>1, <1>2

\* Moving sendx takes one more slot, the one it was on, into the window.
LEMMA SendWindow ==
  ASSUME NEW n \in Nat \ {0}, NEW s \in 0..2*n-1, NEW r \in 0..2*n-1,
         (s - r) % (2*n) < n
  PROVE  LET s2 == IF s + 1 = 2*n THEN 0 ELSE s + 1
             C == (s - r) % (2*n)
         IN /\ C \in Nat
            /\ (s2 - r) % (2*n) = C + 1
            /\ \A i \in 0..n-1 : /\ (i - r) % n \in 0..n-1
                                 /\ (i - r) % n = C <=> i = s % n
<1> DEFINE s2 == IF s + 1 = 2*n THEN 0 ELSE s + 1
<1>1. s2 \in 0..2*n-1 OBVIOUS
<1>2. (s - r) % (2*n) = IF s >= r THEN s - r ELSE s - r + 2*n BY CountArith
<1>3. (s2 - r) % (2*n) = IF s2 >= r THEN s2 - r ELSE s2 - r + 2*n BY <1>1, CountArith
<1>4. s % n = IF s < n THEN s ELSE s - n BY SlotArith
<1>5. ASSUME NEW i \in 0..n-1
      PROVE  (i - r) % n \in 0..n-1 /\ ((i - r) % n = (s - r) % (2*n) <=> i = s % n)
  <2>1. (i - r) % n = IF i >= r THEN i - r
                      ELSE IF i - r >= -n THEN i - r + n ELSE i - r + 2*n
    BY AheadArith
  <2> HIDE DEF s2
  <2>2. (s - r) % (2*n) < n OBVIOUS
  <2> QED BY <1>2, <1>4, <2>1, <2>2
<1>6. (s2 - r) % (2*n) = ((s - r) % (2*n)) + 1
  BY <1>2, <1>3
<1> QED BY <1>2, <1>5, <1>6

\* Moving recvx takes the slot it was on out of the window, and every other
\* slot of the window is one step nearer.
LEMMA TakeWindow ==
  ASSUME NEW n \in Nat \ {0}, NEW s \in 0..2*n-1, NEW r \in 0..2*n-1,
         (s - r) % (2*n) \in 1..n
  PROVE  LET r2 == IF r + 1 = 2*n THEN 0 ELSE r + 1
         IN /\ (s - r2) % (2*n) = ((s - r) % (2*n)) - 1
            /\ \A i \in 0..n-1 :
                 /\ i = r % n => (i - r) % n = 0 /\ (i - r2) % n = n - 1
                 /\ i # r % n => (i - r) % n > 0 /\ (i - r2) % n = ((i - r) % n) - 1
<1> DEFINE r2 == IF r + 1 = 2*n THEN 0 ELSE r + 1
<1>1. r2 \in 0..2*n-1 OBVIOUS
<1>2. (s - r) % (2*n) = IF s >= r THEN s - r ELSE s - r + 2*n BY CountArith
<1>3. (s - r2) % (2*n) = IF s >= r2 THEN s - r2 ELSE s - r2 + 2*n BY <1>1, CountArith
<1>4. r % n = IF r < n THEN r ELSE r - n BY SlotArith
<1>5. ASSUME NEW i \in 0..n-1
      PROVE  /\ i = r % n => (i - r) % n = 0 /\ (i - r2) % n = n - 1
             /\ i # r % n => (i - r) % n > 0 /\ (i - r2) % n = ((i - r) % n) - 1
  <2>1. (i - r) % n = IF i >= r THEN i - r
                      ELSE IF i - r >= -n THEN i - r + n ELSE i - r + 2*n
    BY AheadArith
  <2>2. (i - r2) % n = IF i >= r2 THEN i - r2
                       ELSE IF i - r2 >= -n THEN i - r2 + n ELSE i - r2 + 2*n
    BY <1>1, AheadArith
  <2>3. r2 = IF r + 1 = 2*n THEN 0 ELSE r + 1 OBVIOUS
  <2> HIDE DEF r2
  <2> QED BY <1>4, <2>1, <2>2, <2>3
<1>6. (s - r2) % (2*n) = ((s - r) % (2*n)) - 1
  BY <1>2, <1>3
<1> QED BY <1>5, <1>6

\* The tests of Channel_send_idx and Channel_recv_idx, for both kinds of size.
LEMMA FullMeansFull ==
  ASSUME CInv, SafeSize(size), size > 1, "close" \notin breach, ~SendClosed, Count <= size
  PROVE  Full <=> Count = size
<1>0. size \in Nat \ {0} /\ sflag \in {1, 2, 3} /\ rflag \in {-3, -2, -1, 1, 2, 3}
  BY CInvType DEF SendClosed
<1>1. /\ sendx \in 0..2*size-1 /\ FlagAgrees(sendx, sflag)
      /\ recvx \in 0..2*size-1 /\ FlagAgrees(recvx, rflag)
  BY DEF CInv, CursorsInRange, InRange
<1>2. Count = IF sendx >= recvx THEN sendx - recvx ELSE sendx - recvx + 2*size
  BY <1>0, <1>1, CountArith DEF Count
<1>3. /\ SendSlot = IF sendx < size THEN sendx ELSE sendx - size
      /\ RecvSlot = IF recvx < size THEN recvx ELSE recvx - size
  BY <1>0, <1>1, SlotArith DEF SendSlot, RecvSlot
<1>4. (recvx + size) % (2*size) = IF recvx < size THEN recvx + size ELSE recvx - size
  BY <1>0, <1>1, OppositeArith
<1>5. CASE sflag = 3
  BY <1>0, <1>1, <1>2, <1>4, <1>5 DEF Full
<1>6. CASE sflag # 3
  <2>1. /\ sflag = IF sendx >= size THEN 2 ELSE 1
        /\ Abs(rflag) = IF recvx >= size THEN 2 ELSE 1
    BY <1>0, <1>1, <1>6 DEF FlagAgrees, Abs
  <2>2. Full <=> SendSlot = RecvSlot /\ Abs(rflag) # sflag
    BY <1>0, <1>6 DEF Full
  <2> QED BY <1>0, <1>1, <1>2, <1>3, <2>1, <2>2
<1> QED BY <1>5, <1>6

LEMMA EmptyMeansEmpty ==
  ASSUME CInv, SafeSize(size), size > 1, "close" \notin breach, ~RecvClosed, Count <= size
  PROVE  Empty <=> Count = 0
<1>0. size \in Nat \ {0} /\ rflag \in {1, 2, 3} /\ sflag \in {-3, -2, -1, 1, 2, 3}
  BY CInvType DEF RecvClosed
<1>1. /\ sendx \in 0..2*size-1 /\ FlagAgrees(sendx, sflag)
      /\ recvx \in 0..2*size-1 /\ FlagAgrees(recvx, rflag)
  BY DEF CInv, CursorsInRange, InRange
<1>2. Count = IF sendx >= recvx THEN sendx - recvx ELSE sendx - recvx + 2*size
  BY <1>0, <1>1, CountArith DEF Count
<1>3. /\ SendSlot = IF sendx < size THEN sendx ELSE sendx - size
      /\ RecvSlot = IF recvx < size THEN recvx ELSE recvx - size
  BY <1>0, <1>1, SlotArith DEF SendSlot, RecvSlot
<1>4. CASE rflag = 3
  BY <1>0, <1>1, <1>2, <1>4 DEF Empty
<1>5. CASE rflag # 3
  <2>1. /\ rflag = IF recvx >= size THEN 2 ELSE 1
        /\ Abs(sflag) = IF sendx >= size THEN 2 ELSE 1
    BY <1>0, <1>1, <1>5 DEF FlagAgrees, Abs
  <2>2. Empty <=> SendSlot = RecvSlot /\ Abs(sflag) = rflag
    BY <1>0, <1>5 DEF Empty
  <2> QED BY <1>0, <1>1, <1>2, <1>3, <2>1, <2>2
<1> QED BY <1>4, <1>5

-----------------------------------------------------------------------------
(* What holds while the clients keep to the contract *)

\* inside a call that has an item in view; a recv() that has found none is not
Active(c) == call[c].op \notin {"idle", "nothing"}

\* At most one frame is on the receive side.
Exclusive == \A c, d \in Callers : Active(c) /\ Active(d) => c = d

\* A receiver's index is still the slot under recvx, which still holds the
\* item the receiver saw; a clear is of a ring of one slot.
FramesOK ==
  \A c \in Callers :
    /\ call[c].op \in {"recv", "consume", "drop"} =>
         call[c].idx = RecvSlot /\ ob_item[RecvSlot] # NULL
    /\ call[c].op \in {"consume", "drop"} => call[c].item = ob_item[RecvSlot]
    /\ call[c].op = "clear" =>
         size = 1 /\ call[c].item # NULL /\ call[c].item = ob_item[call[c].idx]

WindowOK ==
  size > 1 => /\ Count <= size
              /\ \A i \in 0..size-1 : ob_item[i] # NULL <=> Ahead(i) < Count

\* the references the one frame adds to those of the slots
FrameRefs(frame, x) == IF frame.item # x THEN 0
                       ELSE IF frame.op = "consume" THEN 1
                       ELSE IF frame.op \in {"drop", "clear"} THEN -1 ELSE 0

RefsOK ==
  \A x \in Items :
    /\ \A c \in Callers : Active(c) =>
         rc[x] = Cardinality(SlotsOf(x)) + FrameRefs(call[c], x)
    /\ (\A c \in Callers : ~Active(c)) => rc[x] = Cardinality(SlotsOf(x))

Kept == fault = "none" /\ Exclusive /\ FramesOK /\ WindowOK /\ RefsOK

IInv == CInv /\ (breach = {} /\ SafeSize(size) => Kept)

LEMMA SlotsFinite ==
  ASSUME TypeOK, NEW x
  PROVE  /\ IsFiniteSet(SlotsOf(x)) /\ Cardinality(SlotsOf(x)) \in Nat
         /\ \A i \in SlotsOf(x) : Cardinality(SlotsOf(x)) >= 1
<1>1. size \in Nat \ {0}
  BY SizesAssumption DEF TypeOK
<1>2. IsFiniteSet(0..size-1)
  BY <1>1, FS_Interval
<1>3. SlotsOf(x) \subseteq 0..size-1
  BY DEF SlotsOf
<1>4. IsFiniteSet(SlotsOf(x)) /\ Cardinality(SlotsOf(x)) \in Nat
  BY <1>2, <1>3, FS_Subset, FS_CardinalityType
<1>5. ASSUME NEW i \in SlotsOf(x) PROVE Cardinality(SlotsOf(x)) >= 1
  <2>1. Cardinality(SlotsOf(x)) # 0
    BY <1>4, FS_EmptySet
  <2> QED BY <1>4, <2>1
<1> QED BY <1>4, <1>5

\* Writing one slot moves one slot from one item's count to another's.
LEMMA SlotsWritten ==
  ASSUME TypeOK, NEW i \in 0..size-1, NEW v, size' = size,
         ob_item' = [ob_item EXCEPT ![i] = v], NEW x \in Items, v # ob_item[i]
  PROVE  Cardinality(SlotsOf(x)') = Cardinality(SlotsOf(x))
           + (IF v = x THEN 1 ELSE 0) - (IF ob_item[i] = x THEN 1 ELSE 0)
<1>1. SlotsOf(x)' = IF v = x THEN SlotsOf(x) \cup {i} ELSE SlotsOf(x) \ {i}
  BY DEF SlotsOf, TypeOK
<1>2. i \in SlotsOf(x) <=> ob_item[i] = x
  BY DEF SlotsOf
<1>3. IsFiniteSet(SlotsOf(x)) /\ Cardinality(SlotsOf(x)) \in Nat
  BY SlotsFinite
<1>4. CASE v = x
  <2>1. i \notin SlotsOf(x)
    BY <1>2, <1>4
  <2> QED BY <1>1, <1>2, <1>3, <1>4, <2>1, FS_AddElement
<1>5. CASE v # x
  BY <1>1, <1>2, <1>3, <1>5, FS_RemoveElement
<1> QED BY <1>4, <1>5

\* The frame part of Kept after a step of the only frame there is.
LEMMA OneFrame ==
  ASSUME TypeOK, NEW c \in Callers, \A d \in Callers \ {c} : ~Active(d), NEW F,
         call' = [call EXCEPT ![c] = F],
         F.op \in {"recv", "consume", "drop"} =>
            F.idx = RecvSlot' /\ (ob_item[RecvSlot] # NULL)',
         F.op \in {"consume", "drop"} => F.item = (ob_item[RecvSlot])',
         F.op = "clear" => size' = 1 /\ F.item # NULL /\ F.item = ob_item'[F.idx],
         \A x \in Items : rc'[x] = IF F.op \in {"idle", "nothing"} THEN Cardinality(SlotsOf(x)')
                                   ELSE Cardinality(SlotsOf(x)') + FrameRefs(F, x)
  PROVE  Exclusive' /\ FramesOK' /\ RefsOK'
<1>1. call'[c] = F /\ \A d \in Callers \ {c} : call'[d] = call[d] /\ ~Active(d)'
  BY DEF TypeOK, Active
<1>2. Exclusive'
  BY <1>1 DEF Exclusive
<1>3. FramesOK'
  BY <1>1 DEF FramesOK, Active
<1>4. RefsOK'
  <2> SUFFICES ASSUME NEW x \in Items
               PROVE  /\ \A d \in Callers : Active(d)' =>
                           rc'[x] = Cardinality(SlotsOf(x)') + FrameRefs(call'[d], x)
                      /\ (\A d \in Callers : ~Active(d)') => rc'[x] = Cardinality(SlotsOf(x)')
    BY DEF RefsOK, FrameRefs
  <2> QED BY <1>1 DEF Active
<1> QED BY <1>2, <1>3, <1>4

\* What the references are before such a step.
LEMMA RefsBefore ==
  ASSUME TypeOK, Kept, NEW c \in Callers, \A d \in Callers \ {c} : ~Active(d), NEW x \in Items
  PROVE  rc[x] = Cardinality(SlotsOf(x)) + IF Active(c) THEN FrameRefs(call[c], x) ELSE 0
<1>1. Cardinality(SlotsOf(x)) \in Nat
  BY SlotsFinite
<1> QED BY <1>1 DEF Kept, RefsOK

LEMMA Alone ==
  ASSUME Kept, NEW c \in Callers, Active(c)
  PROVE  \A d \in Callers \ {c} : ~Active(d)
  BY DEF Kept, Exclusive

LEMMA KeptSame ==
  ASSUME Kept, UNCHANGED <<ring, call, rc, fault>>
  PROVE  Kept'
<1> USE DEF ring
<1>1. \A x : SlotsOf(x)' = SlotsOf(x)
  BY DEF SlotsOf
<1>2. Exclusive' BY DEF Kept, Exclusive, Active
<1>3. FramesOK' BY DEF Kept, FramesOK, RecvSlot
<1>4. WindowOK' BY DEF Kept, WindowOK, Count, Ahead
<1>5. RefsOK' BY <1>1 DEF Kept, RefsOK, Active, FrameRefs
<1> QED BY <1>2, <1>3, <1>4, <1>5 DEF Kept

\* A recv() that has found nothing comes and goes without a trace.
LEMMA KeptIdle ==
  ASSUME Kept, TypeOK, NEW c \in Callers, ~Active(c), UNCHANGED <<ring, rc, fault>>,
         NEW F, call' = [call EXCEPT ![c] = F], F.op \in {"idle", "nothing"}
  PROVE  Kept'
<1> USE DEF ring
<1>1. \A x : SlotsOf(x)' = SlotsOf(x)
  BY DEF SlotsOf
<1>2. /\ \A d \in Callers : Active(d)' = Active(d)
      /\ \A d \in Callers : Active(d) => call'[d] = call[d]
  BY DEF TypeOK, Active
<1>3. Exclusive' BY <1>2 DEF Kept, Exclusive
<1>4. FramesOK' BY <1>2 DEF Kept, FramesOK, RecvSlot, Active
<1>5. WindowOK' BY DEF Kept, WindowOK, Count, Ahead
<1>6. RefsOK' BY <1>1, <1>2 DEF Kept, RefsOK, FrameRefs
<1> QED BY <1>3, <1>4, <1>5, <1>6 DEF Kept

LEMMA NothingKept ==
  ASSUME Kept, TypeOK, NEW c \in Callers,
         \/ RecvSeesEmpty(c) \/ RecvNothing(c)
         \/ RecvNoMemory(c) /\ call[c].op = "nothing"
  PROVE  Kept'
<1>1. ~Active(c) /\ UNCHANGED <<ring, rc, fault>>
  BY DEF RecvSeesEmpty, RecvNothing, RecvNoMemory, Inside, CanCall, Active
<1>2. PICK F : call' = [call EXCEPT ![c] = F] /\ F.op \in {"idle", "nothing"}
  <2>1. \/ call' = [call EXCEPT ![c] = Frame("nothing", 0, NULL)]
        \/ call' = [call EXCEPT ![c] = Idle]
    BY DEF RecvSeesEmpty, RecvNothing, RecvNoMemory, Goes, Returns
  <2>2. Frame("nothing", 0, NULL).op = "nothing" /\ Idle.op = "idle"
    BY DEF Idle, Frame
  <2> QED BY <2>1, <2>2
<1> QED BY <1>1, <1>2, KeptIdle

LEMMA SendSlotFree ==
  ASSUME CInv, SafeSize(size), breach = {}, Kept, ~SendClosed, ~Full
  PROVE  ob_item[SendSlot] = NULL /\ (size > 1 => Count < size)
<1>0. size \in Nat \ {0}
  BY CInvType
<1>1. CASE size = 1
  <2>1. SendSlot = 0
    BY <1>1, SlotsAreSlots DEF CInv
  <2> QED BY <1>1, <2>1 DEF Full
<1>2. CASE size > 1
  <2>1. sendx \in 0..2*size-1 /\ recvx \in 0..2*size-1
    BY DEF CInv, CursorsInRange, InRange
  <2>2. Count <= size /\ Count # size
    BY <1>2, FullMeansFull DEF Kept, WindowOK
  <2>3. Count \in Nat
    BY <1>0, <2>1, CountArith DEF Count
  <2>4. Count < size
    BY <1>0, <2>2, <2>3
  <2>5. SendSlot \in 0..size-1
    BY SlotsAreSlots DEF CInv
  <2>6. Ahead(SendSlot) = Count
    <3>1. \A i \in 0..size-1 : (i - recvx) % size = (sendx - recvx) % (2*size) <=> i = sendx % size
      BY ZenonT(40), <1>0, <2>1, <2>4, SendWindow DEF Count
    <3> QED BY <2>5, <3>1 DEF Count, Ahead, SendSlot
  <2> QED BY <1>2, <2>3, <2>4, <2>5, <2>6 DEF Kept, WindowOK
<1> QED BY <1>0, <1>1, <1>2

LEMMA SendKept ==
  ASSUME IInv, SafeSize(size), breach = {}, NEW c \in Callers, NEW x \in Items, Send(c, x)
  PROVE  Kept'
<1>0. /\ CInv /\ Kept /\ TypeOK /\ size \in Nat \ {0} /\ SendSlot \in 0..size-1
      /\ RecvSlot \in 0..size-1
  BY CInvType, SlotsAreSlots DEF IInv, CInv
<1>1. ob_item[SendSlot] = NULL /\ (size > 1 => Count < size)
  BY <1>0, SendSlotFree DEF Send
<1>2. /\ ob_item' = [ob_item EXCEPT ![SendSlot] = x] /\ size' = size /\ x # NULL
      /\ recvx' = recvx /\ RecvSlot' = RecvSlot /\ call' = call
      /\ sendx' = NextCursor(sendx, sflag) /\ rc' = [rc EXCEPT ![x] = @ + 1]
  BY NullAssumption DEF Send, RecvSlot
<1>3. \A i \in 0..size-1 : ob_item'[i] = IF i = SendSlot THEN x ELSE ob_item[i]
  BY <1>0, <1>2 DEF TypeOK
<1>4. fault' = "none"
  BY <1>0, <1>1 DEF Send, Kept
<1>5. Exclusive'
  BY <1>0, <1>2 DEF Kept, Exclusive, Active
<1>6. FramesOK'
  <2> SUFFICES ASSUME NEW d \in Callers
               PROVE  /\ call[d].op \in {"recv", "consume", "drop"} =>
                           call[d].idx = RecvSlot /\ ob_item'[RecvSlot] # NULL
                      /\ call[d].op \in {"consume", "drop"} => call[d].item = ob_item'[RecvSlot]
                      /\ call[d].op = "clear" =>
                           size = 1 /\ call[d].item # NULL /\ call[d].item = ob_item'[call[d].idx]
    BY <1>2 DEF FramesOK
  <2>1. call[d].op \in {"recv", "consume", "drop"} => RecvSlot # SendSlot
    BY <1>0, <1>1 DEF Kept, FramesOK
  <2>2. call[d].op # "clear"
    <3>1. size = 1 => call[d].idx = SendSlot
      BY <1>0, FrameType
    <3> QED BY <1>0, <1>1, <3>1 DEF Kept, FramesOK
  <2> QED BY <1>0, <1>3, <2>1, <2>2 DEF Kept, FramesOK
<1>7. WindowOK'
  <2> SUFFICES ASSUME size > 1
               PROVE  /\ Count' <= size
                      /\ \A i \in 0..size-1 : ob_item'[i] # NULL <=> Ahead(i)' < Count'
    BY <1>2 DEF WindowOK
  <2>1. sendx \in 0..2*size-1 /\ recvx \in 0..2*size-1 /\ FlagAgrees(sendx, sflag)
    BY <1>0 DEF CInv, CursorsInRange, InRange
  <2>2. sflag \in {1, 2, 3}
    BY <1>0, CInvType DEF Send, SendClosed
  <2>3. sendx' = IF sendx + 1 = 2*size THEN 0 ELSE sendx + 1
    BY <1>0, <1>2, <2>1, <2>2, CInvType, Advance
  <2>4. Count < size /\ Count \in Nat /\ Count' = Count + 1
    BY <1>0, <1>1, <1>2, <2>1, <2>3, SendWindow DEF Count
  <2>5. \A i \in 0..size-1 : /\ Ahead(i)' = Ahead(i) /\ Ahead(i) \in Nat
                             /\ Ahead(i) = Count <=> i = SendSlot
    <3>1. \A i \in 0..size-1 :
             /\ (i - recvx) % size \in 0..size-1
             /\ (i - recvx) % size = (sendx - recvx) % (2*size) <=> i = sendx % size
      BY <1>0, <1>1, <2>1, SendWindow DEF Count
    <3>2. \A i \in 0..size-1 : Ahead(i)' = Ahead(i)
      BY <1>2 DEF Ahead
    <3> QED BY <3>1, <3>2 DEF Count, Ahead, SendSlot
  <2>6. \A i \in 0..size-1 : ob_item[i] # NULL <=> Ahead(i) < Count
    BY <1>0 DEF Kept, WindowOK
  <2>7. Count' <= size
    BY <1>0, <2>4
  <2>8. ASSUME NEW i \in 0..size-1 PROVE ob_item'[i] # NULL <=> Ahead(i)' < Count'
    BY <1>2, <1>3, <2>4, <2>5, <2>6
  <2> QED BY <2>7, <2>8
<1>8. RefsOK'
  <2>1. ASSUME NEW y \in Items
        PROVE  Cardinality(SlotsOf(y)') = Cardinality(SlotsOf(y)) + (IF x = y THEN 1 ELSE 0)
    <3>1. ob_item[SendSlot] # y /\ x # ob_item[SendSlot]
      BY <1>1, <1>2, NullAssumption
    <3>2. Cardinality(SlotsOf(y)) \in Nat
      BY <1>0, SlotsFinite
    <3>3. Cardinality(SlotsOf(y)') = Cardinality(SlotsOf(y))
             + (IF x = y THEN 1 ELSE 0) - (IF ob_item[SendSlot] = y THEN 1 ELSE 0)
      BY <1>0, <1>2, <3>1, SlotsWritten
    <3> QED BY <3>1, <3>2, <3>3
  <2>2. ASSUME NEW y \in Items
        PROVE  rc'[y] = rc[y] + (IF x = y THEN 1 ELSE 0) /\ rc[y] \in Int
    BY <1>0, <1>2 DEF TypeOK
  <2>3. \A d \in Callers : Active(d)' = Active(d)
    BY <1>2 DEF Active
  <2>4. ASSUME NEW y \in Items, NEW d \in Callers, Active(d)
        PROVE  rc'[y] = Cardinality(SlotsOf(y)') + FrameRefs(call[d], y)
    <3>1. FrameRefs(call[d], y) \in Int /\ Cardinality(SlotsOf(y)) \in Nat
      BY <1>0, SlotsFinite DEF FrameRefs
    <3>2. rc[y] = Cardinality(SlotsOf(y)) + FrameRefs(call[d], y)
      BY <1>0, <2>4 DEF Kept, RefsOK
    <3> QED BY <2>1, <2>2, <3>1, <3>2
  <2>5. ASSUME NEW y \in Items, \A d \in Callers : ~Active(d)
        PROVE  rc'[y] = Cardinality(SlotsOf(y)')
    <3>1. rc[y] = Cardinality(SlotsOf(y)) /\ Cardinality(SlotsOf(y)) \in Nat
      BY <1>0, <2>5, SlotsFinite DEF Kept, RefsOK
    <3> QED BY <2>1, <2>2, <3>1
  <2> QED BY <1>2, <2>3, <2>4, <2>5 DEF RefsOK
<1> QED BY <1>4, <1>5, <1>6, <1>7, <1>8 DEF Kept

\* recv() and safe_consume() taking the slot under recvx keep the window.
LEMMA TakenWindow ==
  ASSUME IInv, SafeSize(size), breach = {}, rflag > 0, ob_item[RecvSlot] # NULL,
         Taken(RecvSlot), size' = size, sendx' = sendx
  PROVE  WindowOK'
<1>0. CInv /\ Kept /\ TypeOK /\ size \in Nat \ {0} /\ RecvSlot \in 0..size-1
  BY CInvType, SlotsAreSlots DEF IInv, CInv
<1> SUFFICES ASSUME size > 1
             PROVE  /\ Count' <= size
                    /\ \A i \in 0..size-1 : ob_item'[i] # NULL <=> Ahead(i)' < Count'
  BY DEF WindowOK
<1>1. sendx \in 0..2*size-1 /\ recvx \in 0..2*size-1 /\ FlagAgrees(recvx, rflag)
  BY <1>0 DEF CInv, CursorsInRange, InRange
<1>2. recvx' = IF recvx + 1 = 2*size THEN 0 ELSE recvx + 1
  <2>1. rflag \in {1, 2, 3}
    BY <1>0, CInvType
  <2> QED BY <1>0, <1>1, <2>1, CInvType, Advance DEF Taken
<1>3. Count \in Int /\ Ahead(RecvSlot) \in 0..size-1
  <2>1. RecvSlot - recvx \in Int
    BY <1>0, <1>1
  <2>2. (RecvSlot - recvx) % size \in 0..size-1
    BY <1>0, <2>1, ModRange
  <2> QED BY <1>0, <1>1, <2>2, CountArith DEF Count, Ahead
<1>4. Count <= size /\ Ahead(RecvSlot) < Count
  BY <1>0 DEF Kept, WindowOK
<1>5. (sendx - recvx) % (2*size) \in 1..size
  BY <1>0, <1>3, <1>4 DEF Count
<1>6. /\ (sendx - recvx') % (2*size) = ((sendx - recvx) % (2*size)) - 1
      /\ \A i \in 0..size-1 :
           /\ i = recvx % size => (i - recvx) % size = 0 /\ (i - recvx') % size = size - 1
           /\ i # recvx % size => /\ (i - recvx) % size > 0
                                  /\ (i - recvx') % size = ((i - recvx) % size) - 1
  BY <1>0, <1>1, <1>2, <1>5, TakeWindow
<1>7. Count' = Count - 1
  BY <1>6 DEF Count
<1>8. ASSUME NEW i \in 0..size-1
      PROVE  /\ i = RecvSlot => Ahead(i)' = size - 1
             /\ i # RecvSlot => Ahead(i)' = Ahead(i) - 1
             /\ Ahead(i) \in 0..size-1
  <2>0. i - recvx \in Int
    BY <1>0, <1>1
  <2>1. (i - recvx) % size \in 0..size-1
    BY <1>0, <2>0, ModRange
  <2> QED BY <1>6, <2>1 DEF Ahead, RecvSlot
<1>9. ASSUME NEW i \in 0..size-1 PROVE ob_item'[i] # NULL <=> Ahead(i)' < Count'
  <2>1. ob_item'[i] = IF i = RecvSlot THEN NULL ELSE ob_item[i]
    BY <1>0 DEF Taken, TypeOK
  <2>2. ob_item[i] # NULL <=> Ahead(i) < Count
    BY <1>0 DEF Kept, WindowOK
  <2>3. CASE i = RecvSlot
    BY <1>0, <1>3, <1>4, <1>7, <1>8, <2>1, <2>3
  <2>4. CASE i # RecvSlot
    BY <1>0, <1>3, <1>7, <1>8, <2>1, <2>2, <2>4
  <2> QED BY <2>3, <2>4
<1>10. Count' <= size
  BY <1>0, <1>3, <1>4, <1>7
<1> QED BY <1>9, <1>10

LEMMA WindowSame ==
  ASSUME WindowOK, UNCHANGED <<size, ob_item, sendx, recvx>>
  PROVE  WindowOK' /\ RecvSlot' = RecvSlot
  BY DEF WindowOK, Count, Ahead, RecvSlot

\* The slot of a receiver that begins, recv() or safe_consume(), is occupied.
LEMMA RecvSlotTaken ==
  ASSUME IInv, SafeSize(size), breach = {}, ~RecvClosed, ~Empty
  PROVE  ob_item[RecvSlot] # NULL
<1>0. CInv /\ Kept /\ TypeOK /\ size \in Nat \ {0} /\ RecvSlot \in 0..size-1
  BY CInvType, SlotsAreSlots DEF IInv, CInv
<1>1. CASE size = 1
  BY <1>0, <1>1 DEF Empty
<1>2. CASE size > 1
  <2>1. sendx \in 0..2*size-1 /\ recvx \in 0..2*size-1
    BY <1>0 DEF CInv, CursorsInRange, InRange
  <2>2. Count <= size /\ Count # 0 /\ Count \in Nat
    BY <1>0, <1>2, <2>1, EmptyMeansEmpty, CountArith DEF Kept, WindowOK, Count
  <2>3. (sendx - recvx) % (2*size) \in 1..size
    BY <1>0, <2>2 DEF Count
  <2>4. Ahead(RecvSlot) = 0
    BY <1>0, <2>1, <2>3, TakeWindow DEF Ahead, RecvSlot
  <2> QED BY <1>0, <1>2, <2>2, <2>4 DEF Kept, WindowOK
<1> QED BY <1>0, <1>1, <1>2

LEMMA RecvBeginKept ==
  ASSUME IInv, SafeSize(size), breach' = {}, NEW c \in Callers, RecvBegin(c)
  PROVE  Kept'
<1>0. breach = {} /\ \A d \in Callers : ~Active(d)
  BY DEF RecvBegin, Overlap, Receiving, Active
<1>1. Kept /\ TypeOK /\ ob_item[RecvSlot] # NULL
  BY <1>0, RecvSlotTaken DEF RecvBegin, IInv, CInv
<1> DEFINE F == Frame("recv", RecvSlot, NULL)
<1>2. /\ call' = [call EXCEPT ![c] = F] /\ UNCHANGED <<size, ob_item, sendx, recvx, rc, fault>>
      /\ F.op = "recv" /\ F.idx = RecvSlot /\ F.item = NULL
  BY DEF RecvBegin, Goes, ring, Frame
<1> HIDE DEF F
<1>3. WindowOK' /\ RecvSlot' = RecvSlot
  BY <1>1, <1>2, WindowSame DEF Kept
<1>4. ASSUME NEW x \in Items PROVE rc'[x] = Cardinality(SlotsOf(x)') + FrameRefs(F, x)
  <2>1. SlotsOf(x)' = SlotsOf(x) /\ Cardinality(SlotsOf(x)) \in Nat
    BY <1>1, <1>2, SlotsFinite DEF SlotsOf
  <2>2. FrameRefs(F, x) = 0
    BY <1>2, NullAssumption DEF FrameRefs
  <2>3. rc[x] = Cardinality(SlotsOf(x))
    BY <1>0, <1>1 DEF Kept, RefsOK
  <2> QED BY <1>2, <2>1, <2>2, <2>3
<1>5. Exclusive' /\ FramesOK' /\ RefsOK'
  BY <1>0, <1>1, <1>2, <1>3, <1>4, OneFrame
<1> QED BY <1>1, <1>2, <1>3, <1>5 DEF Kept

LEMMA RecvEndKept ==
  ASSUME IInv, SafeSize(size), breach' = {}, NEW c \in Callers, RecvEnd(c)
  PROVE  Kept'
<1>0. breach = {} /\ CInv /\ Kept /\ TypeOK /\ RecvSlot \in 0..size-1
  BY SlotsAreSlots DEF RecvEnd, IInv, CInv
<1>1. Active(c) /\ call[c].idx = RecvSlot /\ ob_item[RecvSlot] # NULL /\ rflag > 0
  BY <1>0 DEF RecvEnd, Inside, Active, Kept, FramesOK, CInv, OpenFrames
<1>2. /\ Taken(RecvSlot) /\ Release(ob_item[RecvSlot], 1) /\ size' = size /\ sendx' = sendx
      /\ call' = [call EXCEPT ![c] = Idle] /\ Idle.op = "idle" /\ ob_item[RecvSlot] \in Items
  BY <1>0, <1>1 DEF RecvEnd, Returns, Idle, Frame, TypeOK
<1>3. WindowOK'
  BY <1>0, <1>1, <1>2, TakenWindow
<1>4. ASSUME NEW x \in Items
      PROVE  /\ rc[x] = Cardinality(SlotsOf(x))
             /\ rc'[x] = Cardinality(SlotsOf(x)')
             /\ ob_item[RecvSlot] = x => rc[x] >= 1
  <2>1. FrameRefs(call[c], x) = 0
    BY <1>0, <1>1 DEF FrameRefs, RecvEnd, Inside
  <2>2. rc[x] = Cardinality(SlotsOf(x)) /\ Cardinality(SlotsOf(x)) \in Nat
    BY <1>0, <1>1, <2>1, Alone, RefsBefore, SlotsFinite
  <2>3. Cardinality(SlotsOf(x)') = Cardinality(SlotsOf(x))
           + (IF NULL = x THEN 1 ELSE 0) - (IF ob_item[RecvSlot] = x THEN 1 ELSE 0)
    <3>1. ob_item' = [ob_item EXCEPT ![RecvSlot] = NULL] /\ NULL # ob_item[RecvSlot]
      BY <1>1, <1>2 DEF Taken
    <3> QED BY <1>0, <1>2, <3>1, SlotsWritten
  <2>4. rc'[x] = rc[x] - (IF ob_item[RecvSlot] = x THEN 1 ELSE 0)
    BY <1>0, <1>2 DEF Release, TypeOK
  <2>5. ob_item[RecvSlot] = x => RecvSlot \in SlotsOf(x)
    BY <1>0 DEF SlotsOf
  <2>6. ob_item[RecvSlot] = x => Cardinality(SlotsOf(x)) >= 1
    BY <1>0, <2>5, SlotsFinite
  <2> QED BY <2>2, <2>3, <2>4, <2>6, NullAssumption
<1>5. fault' = "none"
  <2>1. rc[ob_item[RecvSlot]] \in Int
    BY <1>0, <1>2 DEF TypeOK
  <2> QED BY <1>0, <1>2, <1>4, <2>1 DEF Release, Kept
<1>6. Exclusive' /\ FramesOK' /\ RefsOK'
  BY <1>0, <1>1, <1>2, <1>4, Alone, OneFrame
<1> QED BY <1>3, <1>5, <1>6 DEF Kept

\* The references after a step that releases n of an item and rewrites no slot.
LEMMA Released ==
  ASSUME TypeOK, NEW x \in Items, NEW n \in Nat, Release(x, n), NEW y \in Items,
         UNCHANGED <<size, ob_item>>
  PROVE  /\ rc'[y] = rc[y] - (IF x = y THEN n ELSE 0) /\ rc[y] \in Int
         /\ SlotsOf(y)' = SlotsOf(y) /\ Cardinality(SlotsOf(y)) \in Nat
<1>1. rc'[y] = rc[y] - (IF x = y THEN n ELSE 0) /\ rc[y] \in Int
  BY DEF Release, TypeOK
<1>2. SlotsOf(y)' = SlotsOf(y)
  BY DEF SlotsOf
<1> QED BY <1>1, <1>2, SlotsFinite

LEMMA ConsumeBeginKept ==
  ASSUME IInv, SafeSize(size), breach' = {}, NEW c \in Callers, ConsumeBegin(c)
  PROVE  Kept'
<1>0. breach = {} /\ \A d \in Callers : ~Active(d)
  BY DEF ConsumeBegin, Overlap, Receiving, Active
<1>1. Kept /\ TypeOK /\ ob_item[RecvSlot] # NULL /\ RecvSlot \in 0..size-1
  BY <1>0, RecvSlotTaken, SlotsAreSlots DEF ConsumeBegin, IInv, CInv
<1> DEFINE F == Frame("consume", RecvSlot, ob_item[RecvSlot])
<1>2. /\ call' = [call EXCEPT ![c] = F] /\ UNCHANGED <<size, ob_item, sendx, recvx, fault>>
      /\ rc' = [rc EXCEPT ![ob_item[RecvSlot]] = @ + 1]
      /\ F.op = "consume" /\ F.idx = RecvSlot /\ F.item = ob_item[RecvSlot]
  BY <1>1 DEF ConsumeBegin, Goes, ring, Frame
<1> HIDE DEF F
<1>3. WindowOK' /\ RecvSlot' = RecvSlot
  BY <1>1, <1>2, WindowSame DEF Kept
<1>4. ASSUME NEW x \in Items PROVE rc'[x] = Cardinality(SlotsOf(x)') + FrameRefs(F, x)
  <2>1. SlotsOf(x)' = SlotsOf(x) /\ Cardinality(SlotsOf(x)) \in Nat
    BY <1>1, <1>2, SlotsFinite DEF SlotsOf
  <2>2. FrameRefs(F, x) = IF ob_item[RecvSlot] = x THEN 1 ELSE 0
    BY <1>2 DEF FrameRefs
  <2>3. rc[x] = Cardinality(SlotsOf(x))
    BY <1>0, <1>1 DEF Kept, RefsOK
  <2>4. rc'[x] = rc[x] + (IF ob_item[RecvSlot] = x THEN 1 ELSE 0)
    BY <1>1, <1>2, <2>1, <2>3 DEF TypeOK
  <2> QED BY <2>1, <2>2, <2>3, <2>4
<1>5. Exclusive' /\ FramesOK' /\ RefsOK'
  BY <1>0, <1>1, <1>2, <1>3, <1>4, OneFrame
<1> QED BY <1>1, <1>2, <1>3, <1>5 DEF Kept

\* Inside the callback: the frame owns a reference beside that of its slot.
LEMMA ConsumeFrame ==
  ASSUME IInv, SafeSize(size), breach = {}, NEW c \in Callers, Inside(c, "consume")
  PROVE  /\ Kept /\ TypeOK /\ RecvSlot \in 0..size-1 /\ Active(c)
         /\ call[c].idx = RecvSlot /\ call[c].item = ob_item[RecvSlot]
         /\ call[c].item \in Items
         /\ \A x \in Items :
              /\ rc[x] = Cardinality(SlotsOf(x)) + (IF call[c].item = x THEN 1 ELSE 0)
              /\ Cardinality(SlotsOf(x)) \in Nat
         /\ rc[call[c].item] >= 2
<1>1. /\ Kept /\ TypeOK /\ RecvSlot \in 0..size-1 /\ Active(c)
      /\ call[c].idx = RecvSlot /\ call[c].item = ob_item[RecvSlot]
      /\ ob_item[RecvSlot] # NULL /\ call[c].op = "consume"
  BY SlotsAreSlots DEF Inside, IInv, CInv, Kept, FramesOK, Active
<1>2. call[c].item \in Items
  BY <1>1 DEF TypeOK
<1>3. ASSUME NEW x \in Items
      PROVE  /\ rc[x] = Cardinality(SlotsOf(x)) + (IF call[c].item = x THEN 1 ELSE 0)
             /\ Cardinality(SlotsOf(x)) \in Nat
  <2>1. FrameRefs(call[c], x) = IF call[c].item = x THEN 1 ELSE 0
    BY <1>1 DEF FrameRefs
  <2> QED BY <1>1, <2>1, Alone, RefsBefore, SlotsFinite
<1>4. Cardinality(SlotsOf(call[c].item)) >= 1
  <2>1. RecvSlot \in SlotsOf(call[c].item)
    BY <1>1 DEF SlotsOf
  <2> QED BY <1>1, <2>1, SlotsFinite
<1>5. rc[call[c].item] >= 2
  BY <1>2, <1>3, <1>4
<1> QED BY <1>1, <1>2, <1>3, <1>5

LEMMA ConsumeKeepKept ==
  ASSUME IInv, SafeSize(size), breach' = {}, NEW c \in Callers, ConsumeKeep(c)
  PROVE  Kept'
<1>0. breach = {} /\ Inside(c, "consume")
  BY DEF ConsumeKeep
<1> DEFINE x == call[c].item
<1>1. /\ Kept /\ TypeOK /\ Active(c) /\ x \in Items /\ rc[x] >= 2
      /\ \A y \in Items : /\ rc[y] = Cardinality(SlotsOf(y)) + (IF x = y THEN 1 ELSE 0)
                          /\ Cardinality(SlotsOf(y)) \in Nat
  BY <1>0, ConsumeFrame
<1>2. /\ Release(x, 1) /\ UNCHANGED <<size, ob_item, sendx, recvx>>
      /\ call' = [call EXCEPT ![c] = Idle] /\ Idle.op = "idle"
  BY DEF ConsumeKeep, ring, Returns, Idle, Frame
<1> HIDE DEF x
<1>3. WindowOK'
  BY <1>1, <1>2, WindowSame DEF Kept
<1>4. ASSUME NEW y \in Items PROVE rc'[y] = Cardinality(SlotsOf(y)')
  <2>1. /\ rc'[y] = rc[y] - (IF x = y THEN 1 ELSE 0) /\ rc[y] \in Int
        /\ SlotsOf(y)' = SlotsOf(y)
    BY <1>1, <1>2, Released
  <2> QED BY <1>1, <2>1
<1>5. fault' = "none"
  <2>1. rc[x] \in Int
    BY <1>1 DEF TypeOK
  <2> QED BY <1>1, <1>2, <2>1 DEF Release, Kept
<1>6. Exclusive' /\ FramesOK' /\ RefsOK'
  BY <1>1, <1>2, <1>4, Alone, OneFrame
<1> QED BY <1>3, <1>5, <1>6 DEF Kept

LEMMA ConsumeDropKept ==
  ASSUME IInv, SafeSize(size), breach' = {}, NEW c \in Callers, ConsumeDrop(c)
  PROVE  Kept'
<1>0. breach = {} /\ Inside(c, "consume")
  BY DEF ConsumeDrop
<1> DEFINE x == call[c].item
           F == Frame("drop", call[c].idx, x)
<1>1. /\ Kept /\ TypeOK /\ Active(c) /\ x \in Items /\ rc[x] >= 2
      /\ call[c].idx = RecvSlot /\ x = ob_item[RecvSlot]
      /\ \A y \in Items : /\ rc[y] = Cardinality(SlotsOf(y)) + (IF x = y THEN 1 ELSE 0)
                          /\ Cardinality(SlotsOf(y)) \in Nat
  BY <1>0, ConsumeFrame
<1>2. /\ Release(x, 2) /\ UNCHANGED <<size, ob_item, sendx, recvx>>
      /\ call' = [call EXCEPT ![c] = F]
      /\ F.op = "drop" /\ F.idx = RecvSlot /\ F.item = x
  BY <1>1 DEF ConsumeDrop, ring, Goes, Frame
<1> HIDE DEF x, F
<1>3. WindowOK' /\ RecvSlot' = RecvSlot
  BY <1>1, <1>2, WindowSame DEF Kept
<1>4. ASSUME NEW y \in Items PROVE rc'[y] = Cardinality(SlotsOf(y)') + FrameRefs(F, y)
  <2>1. /\ rc'[y] = rc[y] - (IF x = y THEN 2 ELSE 0) /\ rc[y] \in Int
        /\ SlotsOf(y)' = SlotsOf(y)
    BY <1>1, <1>2, Released
  <2>2. FrameRefs(F, y) = IF x = y THEN -1 ELSE 0
    BY <1>2 DEF FrameRefs
  <2> QED BY <1>1, <2>1, <2>2
<1>5. fault' = "none"
  <2>1. rc[x] \in Int
    BY <1>1 DEF TypeOK
  <2> QED BY <1>1, <1>2, <2>1 DEF Release, Kept
<1>6. (ob_item[RecvSlot] # NULL)' /\ F.item = (ob_item[RecvSlot])'
  BY <1>1, <1>2, <1>3, NullAssumption
<1>7. Exclusive' /\ FramesOK' /\ RefsOK'
  BY <1>1, <1>2, <1>3, <1>4, <1>6, Alone, OneFrame
<1> QED BY <1>3, <1>5, <1>7 DEF Kept

LEMMA ConsumeFinishKept ==
  ASSUME IInv, SafeSize(size), breach' = {}, NEW c \in Callers, ConsumeFinish(c)
  PROVE  Kept'
<1>0. breach = {} /\ CInv /\ Kept /\ TypeOK /\ RecvSlot \in 0..size-1
  BY SlotsAreSlots DEF ConsumeFinish, IInv, CInv
<1>1. /\ Active(c) /\ call[c].op = "drop" /\ call[c].idx = RecvSlot /\ ob_item[RecvSlot] # NULL
      /\ call[c].item = ob_item[RecvSlot] /\ rflag > 0
  BY <1>0 DEF ConsumeFinish, Inside, Active, Kept, FramesOK, CInv, OpenFrames
<1>2. /\ Taken(RecvSlot) /\ size' = size /\ sendx' = sendx /\ rc' = rc /\ fault' = fault
      /\ call' = [call EXCEPT ![c] = Idle] /\ Idle.op = "idle"
  BY <1>1 DEF ConsumeFinish, Returns, Idle, Frame
<1>3. WindowOK'
  BY <1>0, <1>1, <1>2, TakenWindow
<1>4. ASSUME NEW x \in Items PROVE rc'[x] = Cardinality(SlotsOf(x)')
  <2>1. FrameRefs(call[c], x) = IF ob_item[RecvSlot] = x THEN -1 ELSE 0
    BY <1>1 DEF FrameRefs
  <2>2. /\ rc[x] = Cardinality(SlotsOf(x)) + FrameRefs(call[c], x)
        /\ Cardinality(SlotsOf(x)) \in Nat
    BY <1>0, <1>1, Alone, RefsBefore, SlotsFinite
  <2>3. ob_item' = [ob_item EXCEPT ![RecvSlot] = NULL] /\ NULL # ob_item[RecvSlot]
    BY <1>1, <1>2 DEF Taken
  <2>4. Cardinality(SlotsOf(x)') = Cardinality(SlotsOf(x))
           + (IF NULL = x THEN 1 ELSE 0) - (IF ob_item[RecvSlot] = x THEN 1 ELSE 0)
    BY <1>0, <1>2, <2>3, SlotsWritten
  <2> QED BY <1>2, <2>1, <2>2, <2>4, NullAssumption
<1>5. Exclusive' /\ FramesOK' /\ RefsOK'
  BY <1>0, <1>1, <1>2, <1>4, Alone, OneFrame
<1> QED BY <1>0, <1>2, <1>3, <1>5 DEF Kept

LEMMA RecvNoMemoryKept ==
  ASSUME IInv, SafeSize(size), breach' = {}, NEW c \in Callers, RecvNoMemory(c),
         call[c].op # "nothing"
  PROVE  Kept'
<1>0. breach = {} /\ Kept /\ TypeOK /\ Active(c) /\ call[c].op = "recv"
  BY DEF RecvNoMemory, IInv, CInv, Inside, Active
<1>2. /\ UNCHANGED <<size, ob_item, sendx, recvx, rc, fault>>
      /\ call' = [call EXCEPT ![c] = Idle] /\ Idle.op = "idle"
  BY DEF RecvNoMemory, ring, Returns, Idle, Frame
<1>3. WindowOK'
  BY <1>0, <1>2, WindowSame DEF Kept
<1>4. ASSUME NEW x \in Items PROVE rc'[x] = Cardinality(SlotsOf(x)')
  <2>1. FrameRefs(call[c], x) = 0
    BY <1>0 DEF FrameRefs
  <2>2. rc[x] = Cardinality(SlotsOf(x)) + FrameRefs(call[c], x)
        /\ Cardinality(SlotsOf(x)) \in Nat
    BY <1>0, Alone, RefsBefore, SlotsFinite
  <2>3. SlotsOf(x)' = SlotsOf(x)
    BY <1>2 DEF SlotsOf
  <2> QED BY <1>2, <2>1, <2>2, <2>3
<1>5. Exclusive' /\ FramesOK' /\ RefsOK'
  BY <1>0, <1>2, <1>4, Alone, OneFrame
<1> QED BY <1>0, <1>2, <1>3, <1>5 DEF Kept

\* clear() finding nothing, or beginning on a ring of one slot
LEMMA ClearBeginKept ==
  ASSUME IInv, SafeSize(size), breach' = {}, NEW c \in Callers, ClearBegin(c)
  PROVE  Kept'
<1>0. breach = {} /\ Kept /\ TypeOK /\ size \in Nat \ {0} /\ call[c].op = "idle"
  BY CInvType DEF ClearBegin, IInv, CInv, CanCall
<1>1. CASE Occupied(ob_item, 0) = {}
  <2>1. call' = call
    BY <1>0, <1>1 DEF ClearBegin, ClearFrom, Returns, Idle, Frame, TypeOK, Frames
  <2> QED BY <1>0, <1>1, <2>1, KeptSame DEF ClearBegin, ClearFrom
<1>2. CASE Occupied(ob_item, 0) # {}
  <2>1. size = 1 /\ \A d \in Callers : ~Active(d)
    BY <1>0, <1>2 DEF ClearBegin, Overlap, Receiving, Active
  <2>2. PICK i \in Occupied(ob_item, 0) :
          Goes(c, "clear", i, ob_item[i]) /\ Release(ob_item[i], 1)
    BY <1>2 DEF ClearBegin, ClearFrom
  <2>3. i = 0 /\ ob_item[0] \in Items
    BY <1>0, <2>1 DEF Occupied, TypeOK
  <2> DEFINE F == Frame("clear", 0, ob_item[0])
  <2>4. /\ call' = [call EXCEPT ![c] = F] /\ UNCHANGED <<size, ob_item, sendx, recvx>>
        /\ Release(ob_item[0], 1) /\ F.op = "clear" /\ F.idx = 0 /\ F.item = ob_item[0]
    BY <2>2, <2>3 DEF ClearBegin, Goes, ring, Frame
  <2> HIDE DEF F
  <2>5. WindowOK'
    BY <1>0, <2>4, WindowSame DEF Kept
  <2>6. ASSUME NEW x \in Items
        PROVE  /\ rc'[x] = Cardinality(SlotsOf(x)') + FrameRefs(F, x)
               /\ ob_item[0] = x => rc[x] >= 1
    <3>1. FrameRefs(F, x) = IF ob_item[0] = x THEN -1 ELSE 0
      BY <2>4 DEF FrameRefs
    <3>2. rc[x] = Cardinality(SlotsOf(x))
      BY <1>0, <2>1 DEF Kept, RefsOK
    <3>3. /\ rc'[x] = rc[x] - (IF ob_item[0] = x THEN 1 ELSE 0) /\ rc[x] \in Int
          /\ SlotsOf(x)' = SlotsOf(x)
      BY <1>0, <2>3, <2>4, Released
    <3>4. ob_item[0] = x => 0 \in SlotsOf(x)
      BY <2>1 DEF SlotsOf
    <3> QED BY <1>0, <3>1, <3>2, <3>3, <3>4, SlotsFinite
  <2>7. fault' = "none"
    <3>1. rc[ob_item[0]] \in Int
      BY <1>0, <2>3 DEF TypeOK
    <3> QED BY <1>0, <2>3, <2>4, <2>6, <3>1 DEF Release, Kept
  <2>8. size' = 1 /\ F.item # NULL /\ F.item = ob_item'[F.idx]
    BY <2>1, <2>3, <2>4, NullAssumption
  <2>9. Exclusive' /\ FramesOK' /\ RefsOK'
    BY <1>0, <2>1, <2>4, <2>6, <2>8, OneFrame
  <2> QED BY <2>5, <2>7, <2>9 DEF Kept
<1> QED BY <1>1, <1>2

LEMMA ClearNextKept ==
  ASSUME IInv, SafeSize(size), breach' = {}, NEW c \in Callers, ClearNext(c)
  PROVE  Kept'
<1>0. /\ breach = {} /\ Kept /\ TypeOK /\ Active(c) /\ call[c].op = "clear"
      /\ size = 1 /\ call[c].idx = 0 /\ call[c].item = ob_item[0] /\ ob_item[0] # NULL
  <2>1. breach = {} /\ Kept /\ TypeOK /\ Active(c) /\ call[c].op = "clear"
    BY DEF ClearNext, IInv, CInv, Inside, Active
  <2>2. size = 1 /\ call[c].item # NULL /\ call[c].item = ob_item[call[c].idx]
    BY <2>1 DEF Kept, FramesOK
  <2> QED BY <2>1, <2>2, FrameType
<1>1. ob_item' = [ob_item EXCEPT ![0] = NULL] /\ UNCHANGED <<size, sendx, recvx>>
  BY <1>0 DEF ClearNext
<1>2. Occupied(ob_item', 1) = {}
  BY <1>0 DEF Occupied
<1>3. /\ call' = [call EXCEPT ![c] = Idle] /\ rc' = rc /\ fault' = fault /\ Idle.op = "idle"
  BY <1>0, <1>2 DEF ClearNext, ClearFrom, Returns, Idle, Frame
<1>4. WindowOK'
  BY <1>0, <1>1 DEF WindowOK
<1>5. ASSUME NEW x \in Items PROVE rc'[x] = Cardinality(SlotsOf(x)')
  <2>1. FrameRefs(call[c], x) = IF ob_item[0] = x THEN -1 ELSE 0
    BY <1>0 DEF FrameRefs
  <2>2. /\ rc[x] = Cardinality(SlotsOf(x)) + FrameRefs(call[c], x)
        /\ Cardinality(SlotsOf(x)) \in Nat
    BY <1>0, Alone, RefsBefore, SlotsFinite
  <2>3. Cardinality(SlotsOf(x)') = Cardinality(SlotsOf(x))
           + (IF NULL = x THEN 1 ELSE 0) - (IF ob_item[0] = x THEN 1 ELSE 0)
    <3>1. 0 \in 0..size-1 /\ NULL # ob_item[0] /\ size' = size
      BY <1>0, <1>1
    <3>2. TypeOK /\ ob_item' = [ob_item EXCEPT ![0] = NULL]
      BY <1>0, <1>1
    <3> QED BY <3>1, <3>2, SlotsWritten
  <2> QED BY <1>3, <2>1, <2>2, <2>3, NullAssumption
<1>6. Exclusive' /\ FramesOK' /\ RefsOK'
  BY <1>0, <1>3, <1>5, Alone, OneFrame
<1> QED BY <1>0, <1>3, <1>4, <1>6 DEF Kept

LEMMA InitKept == Init => Kept
<1> SUFFICES ASSUME Init PROVE Kept OBVIOUS
<1>1. size \in Nat \ {0}
  BY SizesAssumption DEF Init
<1>2. \A c \in Callers : ~Active(c) /\ call[c].op = "idle"
  BY DEF Init, Active, Idle, Frame
<1>3. WindowOK
  <2>1. Count = 0
    BY <1>1, CountArith DEF Init, Count
  <2>2. \A i \in 0..size-1 : Ahead(i) \in 0..size-1
    <3>1. \A i \in 0..size-1 : i - recvx = i
      BY DEF Init
    <3> QED BY <1>1, <3>1, ModSmall DEF Ahead
  <2> QED BY <1>1, <2>1, <2>2 DEF WindowOK, Init
<1>4. RefsOK
  <2>1. ASSUME NEW x \in Items PROVE Cardinality(SlotsOf(x)) = 0
    <3>1. SlotsOf(x) = {}
      BY NullAssumption DEF Init, SlotsOf
    <3> QED BY <3>1, FS_EmptySet
  <2> QED BY <1>2, <2>1 DEF RefsOK, Init
<1> QED BY <1>2, <1>3, <1>4 DEF Kept, Init, Exclusive, FramesOK

LEMMA StepIInv == IInv /\ [Next]_vars => IInv'
<1> SUFFICES ASSUME IInv, [Next]_vars PROVE IInv' OBVIOUS
<1>0. CInv'
  BY StepCInv DEF IInv
<1> SUFFICES ASSUME breach' = {}, SafeSize(size') PROVE Kept'
  BY <1>0 DEF IInv
<1>1. CASE UNCHANGED vars
  BY <1>1, KeptSame DEF vars, ring, IInv
<1>2. ASSUME NEW c \in Callers, Step(c) PROVE Kept'
  <2>0. size' = size /\ breach \subseteq breach'
    BY <1>2 DEF Step, Send, SendRefused, TakeRefused, RecvBegin, RecvSeesEmpty, RecvNothing,
          RecvNoMemory, RecvEnd, Taken,
          ConsumeBegin, ConsumeKeep, ConsumeDrop, ConsumeFinish, ClearBegin, ClearNext,
          Close, Sendable, Recvable, ring
  <2>1. breach = {} /\ SafeSize(size) /\ Kept
    BY <2>0 DEF IInv
  <2>2. ASSUME NEW x \in Items, Send(c, x) PROVE Kept'
    BY <2>1, <2>2, SendKept
  <2>3. CASE SendRefused(c)
    BY <2>1, <2>3, KeptSame DEF SendRefused
  <2>4. ASSUME NEW op \in {"recv", "consume"}, TakeRefused(c, op) PROVE Kept'
    BY <2>1, <2>4, KeptSame DEF TakeRefused
  <2>5. ASSUME NEW send \in BOOLEAN, NEW recv \in BOOLEAN, Close(c, send, recv) PROVE Kept'
    <3>1. UNCHANGED <<size, ob_item, sendx, recvx, call, rc, fault>>
      BY <2>5 DEF Close
    <3>2. WindowOK' /\ RecvSlot' = RecvSlot
      BY <2>1, <3>1, WindowSame DEF Kept
    <3>3. \A x : SlotsOf(x)' = SlotsOf(x)
      BY <3>1 DEF SlotsOf
    <3>4. Exclusive'
      BY <2>1, <3>1 DEF Kept, Exclusive, Active
    <3>5. FramesOK'
      BY <2>1, <3>1, <3>2 DEF Kept, FramesOK
    <3>6. RefsOK'
      BY <2>1, <3>1, <3>3 DEF Kept, RefsOK, Active, FrameRefs
    <3> QED BY <2>1, <3>1, <3>2, <3>4, <3>5, <3>6 DEF Kept
  <2>6. CASE Sendable(c) \/ Recvable(c)
    BY <2>1, <2>6, KeptSame DEF Sendable, Recvable
  <2> QED BY <1>2, <2>1, <2>2, <2>3, <2>4, <2>5, <2>6, RecvBeginKept, RecvNoMemoryKept,
             RecvEndKept, ConsumeBeginKept, ConsumeKeepKept, ConsumeDropKept,
             ConsumeFinishKept, ClearBeginKept, ClearNextKept, NothingKept DEF Step, IInv, CInv
<1> QED BY <1>1, <1>2 DEF Next

LEMMA InitIInv == Init => IInv
  BY InitCInv, InitKept DEF IInv

\* Holders of Channel are the one frame that Kept allows.
LEMMA KeptRefs ==
  ASSUME TypeOK, Kept, NEW x \in Items
  PROVE  rc[x] = Cardinality(SlotsOf(x)) + Cardinality(Holders(x, {"consume"}))
                                         - Cardinality(Holders(x, {"drop", "clear"}))
<1>0. Cardinality(SlotsOf(x)) \in Nat
  BY SlotsFinite
<1>1. CASE \A c \in Callers : ~Active(c)
  <2>1. Holders(x, {"consume"}) = {} /\ Holders(x, {"drop", "clear"}) = {}
    BY <1>1 DEF Holders, Active
  <2>2. rc[x] = Cardinality(SlotsOf(x))
    BY <1>1 DEF Kept, RefsOK
  <2>3. Cardinality({}) = 0
    BY FS_EmptySet
  <2> QED BY <1>0, <2>1, <2>2, <2>3
<1>2. ASSUME NEW c \in Callers, Active(c)
      PROVE  rc[x] = Cardinality(SlotsOf(x)) + Cardinality(Holders(x, {"consume"}))
                                             - Cardinality(Holders(x, {"drop", "clear"}))
  <2>1. \A ops \in {{"consume"}, {"drop", "clear"}} :
           Holders(x, ops) = IF call[c].op \in ops /\ call[c].item = x THEN {c} ELSE {}
    <3>1. \A d \in Callers : d # c => ~Active(d)
      BY <1>2 DEF Kept, Exclusive
    <3> QED BY <1>2, <3>1 DEF Holders, Active
  <2>2. rc[x] = Cardinality(SlotsOf(x)) + FrameRefs(call[c], x)
    BY <1>2 DEF Kept, RefsOK
  <2>3. Cardinality({c}) = 1 /\ Cardinality({}) = 0
    BY FS_Singleton, FS_EmptySet
  <2>4. Cardinality(Holders(x, {"consume"})) =
          IF call[c].op = "consume" /\ call[c].item = x THEN 1 ELSE 0
    BY <2>1, <2>3
  <2>5. Cardinality(Holders(x, {"drop", "clear"})) =
          IF call[c].op \in {"drop", "clear"} /\ call[c].item = x THEN 1 ELSE 0
    BY <2>1, <2>3
  <2> QED BY <1>0, <2>2, <2>4, <2>5 DEF FrameRefs
<1> QED BY <1>1, <1>2

\* With one client at a time on the receive side, for every safe size: the
\* slots between the cursors are exactly the occupied ones, ...
THEOREM WindowCorrect == Spec => []Window
<1>1. IInv => Window
  BY DEF IInv, Kept, WindowOK, Window
<1> QED BY <1>1, InitIInv, StepIInv, PTL DEF Spec

\* ... no memory error happens, ...
THEOREM FaultFree == Spec => []NoFault
<1>1. IInv => NoFault
  BY DEF IInv, Kept, NoFault
<1> QED BY <1>1, InitIInv, StepIInv, PTL DEF Spec

\* ... and no reference is lost or dropped twice.
THEOREM RefsCorrect == Spec => []RefsBalanced
<1>1. IInv => RefsBalanced
  BY KeptRefs DEF IInv, CInv, RefsBalanced
<1> QED BY <1>1, InitIInv, StepIInv, PTL DEF Spec

-----------------------------------------------------------------------------
(* The ring buffer implements the queue *)

\* The states a client that keeps to the contract sees of a channel whose
\* cursors fit a C int: the ones in which the queue is promised something.
Good == IInv /\ breach = {} /\ SafeSize(size)

LEMMA GoodFacts ==
  ASSUME Good
  PROVE  /\ CInv /\ Kept /\ TypeOK /\ WindowOK /\ IInv /\ breach = {} /\ SafeSize(size)
         /\ size \in Nat \ {0} /\ RecvSlot \in 0..size-1 /\ SendSlot \in 0..size-1
         /\ sendx \in 0..2*size-1 /\ recvx \in 0..2*size-1 /\ Count \in 0..2*size-1
         /\ ob_item \in [0..size-1 -> Items \cup {NULL}]
<1>1. CInv /\ Kept /\ TypeOK /\ WindowOK /\ IInv /\ breach = {} /\ SafeSize(size)
  BY DEF Good, IInv, CInv, Kept
<1>2. size \in Nat \ {0} /\ sendx \in 0..2*size-1 /\ recvx \in 0..2*size-1
  BY <1>1, CInvType DEF CInv, CursorsInRange, InRange
<1>3. Count \in 0..2*size-1
  BY <1>2, CountArith DEF Count
<1> QED BY <1>1, <1>2, <1>3, SlotsAreSlots DEF TypeOK

-----------------------------------------------------------------------------
(* The slots of the window, in order *)

LEMMA SlotOnArith ==
  ASSUME NEW n \in Nat \ {0}, NEW r \in 0..2*n-1, NEW j \in 0..n
  PROVE  (r + j) % n = IF r + j < n THEN r + j
                       ELSE IF r + j < 2*n THEN r + j - n ELSE r + j - 2*n
<1>1. CASE r + j < n
  <2>1. r + j \in 0..n-1 BY <1>1
  <2> QED BY <1>1, <2>1, ModSmall
<1>2. CASE r + j >= n /\ r + j < 2*n
  <2>1. r + j \in n..2*n-1 BY <1>2
  <2> QED BY <1>2, <2>1, ModOver
<1>3. CASE r + j >= 2*n
  <2>1. r + j \in 2*n..3*n-1 BY <1>3
  <2> DEFINE a == r + j
  <2>2. a \in 2*n..3*n-1 BY <2>1
  <2> HIDE DEF a
  <2>3. a % n = a - 2*n BY <2>2, ModTwice
  <2> QED BY <1>3, <2>3 DEF a
<1> QED BY <1>1, <1>2, <1>3

\* The slot j after the one under recvx is j ahead of it.
LEMMA SlotOnAhead ==
  ASSUME NEW n \in Nat \ {0}, NEW r \in 0..2*n-1, NEW j \in 0..n-1
  PROVE  (r + j) % n \in 0..n-1 /\ (((r + j) % n) - r) % n = j
<1> DEFINE i == (r + j) % n
<1>0. j \in 0..n
  OBVIOUS
<1>1. i = IF r + j < n THEN r + j ELSE IF r + j < 2*n THEN r + j - n ELSE r + j - 2*n
  BY <1>0, SlotOnArith
<1>2. i \in 0..n-1
  BY <1>1
<1> HIDE DEF i
<1>3. (i - r) % n = IF i >= r THEN i - r ELSE IF i - r >= -n THEN i - r + n ELSE i - r + 2*n
  BY <1>2, AheadArith
<1>4. (i - r) % n = j
  BY <1>1, <1>2, <1>3
<1> QED BY <1>2, <1>4 DEF i

\* Moving recvx moves every slot one position towards the head.
LEMMA SlotOnMoved ==
  ASSUME NEW n \in Nat \ {0}, NEW r \in 0..2*n-1, NEW j \in 0..n-1
  PROVE  LET r2 == IF r + 1 = 2*n THEN 0 ELSE r + 1 IN (r2 + j) % n = (r + (j + 1)) % n
<1> DEFINE r2 == IF r + 1 = 2*n THEN 0 ELSE r + 1
<1>1. r2 \in 0..2*n-1 /\ j + 1 \in 0..n /\ j \in 0..n OBVIOUS
<1>2. (r2 + j) % n = IF r2 + j < n THEN r2 + j
                     ELSE IF r2 + j < 2*n THEN r2 + j - n ELSE r2 + j - 2*n
  BY <1>1, SlotOnArith
<1>3. (r + (j + 1)) % n = IF r + (j + 1) < n THEN r + (j + 1)
                          ELSE IF r + (j + 1) < 2*n THEN r + (j + 1) - n ELSE r + (j + 1) - 2*n
  BY <1>1, SlotOnArith
<1> QED BY <1>2, <1>3

\* The slot after the window is the one under sendx.
LEMMA SlotOnSend ==
  ASSUME NEW n \in Nat \ {0}, NEW s \in 0..2*n-1, NEW r \in 0..2*n-1,
         NEW C, C = (s - r) % (2*n), C < n
  PROVE  (r + C) % n = s % n
<1>1. C = IF s >= r THEN s - r ELSE s - r + 2*n
  BY CountArith
<1>2. C \in 0..n
  BY <1>1
<1>3. (r + C) % n = IF r + C < n THEN r + C ELSE IF r + C < 2*n THEN r + C - n ELSE r + C - 2*n
  BY <1>2, SlotOnArith
<1>4. s % n = IF s < n THEN s ELSE s - n
  BY SlotArith
<1> QED BY <1>1, <1>2, <1>3, <1>4

-----------------------------------------------------------------------------
(* The queue a ring stands for *)

SlotAt(k) == (recvx + k - 1) % size

LEMMA SlotAtFacts ==
  ASSUME Good, size > 1, NEW k \in 1..Count
  PROVE  SlotAt(k) \in 0..size-1 /\ ob_item[SlotAt(k)] \in Items
<1>1. Count <= size /\ \A i \in 0..size-1 : ob_item[i] # NULL <=> Ahead(i) < Count
  BY GoodFacts DEF WindowOK
<1>2. k - 1 \in 0..size-1 /\ recvx + k - 1 = recvx + (k - 1)
  BY <1>1, GoodFacts
<1>3. SlotAt(k) \in 0..size-1 /\ Ahead(SlotAt(k)) = k - 1
  BY <1>2, GoodFacts, SlotOnAhead DEF SlotAt, Ahead
<1>4. ob_item[SlotAt(k)] # NULL
  BY <1>1, <1>3, GoodFacts
<1> QED BY <1>3, <1>4, GoodFacts

LEMMA QueueOfOne ==
  ASSUME size = 1
  PROVE  Queue = IF ob_item[0] = NULL THEN <<>> ELSE <<ob_item[0]>>
  BY DEF Queue

LEMMA QueueOfMany ==
  ASSUME Good, size > 1
  PROVE  /\ Queue \in Seq(Items) /\ Len(Queue) = Count /\ Count \in 0..size
         /\ \A k \in 1..Count : Queue[k] = ob_item[SlotAt(k)]
<1>1. Count \in 0..size
  BY GoodFacts DEF WindowOK
<1>2. Queue = [k \in 1..Count |-> ob_item[SlotAt(k)]]
  BY GoodFacts DEF Queue, SlotAt
<1>3. \A k \in 1..Count : ob_item[SlotAt(k)] \in Items
  BY SlotAtFacts
<1>4. Queue \in [1..Count -> Items]
  BY <1>2, <1>3
<1>5. Queue \in Seq(Items)
  BY <1>1, <1>4, SeqDef
<1>6. Len(Queue) \in Nat /\ DOMAIN Queue = 1..Len(Queue)
  BY <1>5, LenProperties
<1>7. Len(Queue) = Count
  BY <1>1, <1>4, <1>6
<1> QED BY <1>1, <1>2, <1>5, <1>7

Shaped == /\ Queue \in Seq(Items) /\ Len(Queue) = Count
          /\ \A k \in 1..Count : Queue[k] = ob_item[SlotAt(k)]

LEMMA QueueShaped == Good /\ size > 1 => Shaped
  BY QueueOfMany DEF Shaped

\* The same one step later.
LEMMA QueueOfManyNext ==
  ASSUME Good', size' > 1
  PROVE  /\ Queue' \in Seq(Items) /\ Len(Queue') = Count'
         /\ \A k \in 1..Count' : Queue'[k] = ob_item'[SlotAt(k)']
<1>1. (Good /\ size > 1 => Shaped)'
  BY QueueShaped, PTL
<1> QED BY <1>1 DEF Shaped

LEMMA QueueType ==
  ASSUME Good
  PROVE  Queue \in Seq(Items) /\ Len(Queue) \in 0..size /\ (Queue = <<>> <=> Len(Queue) = 0)
<1>1. CASE size = 1
  BY <1>1, QueueOfOne, GoodFacts
<1>2. CASE size > 1
  BY <1>2, QueueOfMany, EmptySeq
<1> QED BY <1>1, <1>2, GoodFacts

\* The tests of Channel_send_idx and Channel_recv_idx are those of the queue.
LEMMA FullQueue ==
  ASSUME Good, ~SendClosed PROVE Full <=> Len(Queue) = size
<1>1. CASE size = 1
  BY <1>1, QueueOfOne DEF Full
<1>2. CASE size > 1
  <2>1. Full <=> Count = size
    BY <1>2, GoodFacts, QueueOfMany, FullMeansFull
  <2> QED BY <1>2, <2>1, QueueOfMany
<1> QED BY <1>1, <1>2, GoodFacts

LEMMA EmptyQueue ==
  ASSUME Good, ~RecvClosed PROVE Empty <=> Queue = <<>>
<1>1. CASE size = 1
  BY <1>1, QueueOfOne DEF Empty
<1>2. CASE size > 1
  <2>1. Empty <=> Count = 0
    BY <1>2, GoodFacts, QueueOfMany, EmptyMeansEmpty
  <2> QED BY <1>2, <2>1, QueueOfMany, QueueType
<1> QED BY <1>1, <1>2, GoodFacts

\* The slot under recvx holds the head, if there is one.
LEMMA HeadOfQueue ==
  ASSUME Good
  PROVE  IF ob_item[RecvSlot] = NULL THEN Queue = <<>>
         ELSE Queue # <<>> /\ Head(Queue) = ob_item[RecvSlot]
<1>1. CASE size = 1
  <2>1. RecvSlot = 0
    BY <1>1, GoodFacts
  <2> QED BY <1>1, <2>1, QueueOfOne
<1>2. CASE size > 1
  <2>1. Ahead(RecvSlot) = 0 /\ SlotAt(1) = RecvSlot
    <3>1. 0 \in 0..size-1 /\ recvx + 0 = recvx /\ recvx + 1 - 1 = recvx
      BY GoodFacts
    <3>2. (((recvx + 0) % size) - recvx) % size = 0
      BY <3>1, GoodFacts, SlotOnAhead
    <3> QED BY <3>1, <3>2 DEF Ahead, RecvSlot, SlotAt
  <2>2. ob_item[RecvSlot] # NULL <=> 0 < Count
    BY <1>2, <2>1, GoodFacts DEF WindowOK
  <2>3. Queue \in Seq(Items) /\ Len(Queue) = Count /\ Count \in 0..size
    BY <1>2, QueueOfMany
  <2>4. 0 < Count => Queue[1] = ob_item[RecvSlot]
    BY <1>2, <2>1, <2>3, QueueOfMany
  <2>5. Queue = <<>> <=> Count = 0
    BY <2>3, QueueType
  <2>6. Queue # <<>> => Head(Queue) = Queue[1]
    BY <2>3
  <2> QED BY <2>2, <2>3, <2>4, <2>5, <2>6
<1> QED BY <1>1, <1>2, GoodFacts

-----------------------------------------------------------------------------
(* What a step does to the queue *)

LEMMA QueueSame ==
  ASSUME UNCHANGED <<size, ob_item, sendx, recvx>> PROVE Queue' = Queue
  BY DEF Queue, Count

\* send() appends.
LEMMA SendQueue ==
  ASSUME Good, Good', NEW c \in Callers, NEW x \in Items, Send(c, x)
  PROVE  Queue' = Append(Queue, x)
<1>1. /\ size' = size /\ recvx' = recvx /\ sendx' = NextCursor(sendx, sflag)
      /\ ob_item' = [ob_item EXCEPT ![SendSlot] = x] /\ ~SendClosed /\ ~Full
  BY DEF Send
<1>2. ob_item[SendSlot] = NULL /\ (size > 1 => Count < size)
  BY <1>1, GoodFacts, SendSlotFree
<1>3. ob_item'[SendSlot] = x /\ x # NULL
  BY <1>1, GoodFacts, NullAssumption
<1>4. CASE size = 1
  <2>1. SendSlot = 0
    BY <1>4, GoodFacts
  <2>2. Queue = <<>> /\ Queue' = <<x>>
    BY <1>1, <1>2, <1>3, <1>4, <2>1 DEF Queue
  <2> QED BY <2>2
<1>5. CASE size > 1
  <2>1. sendx' = IF sendx + 1 = 2*size THEN 0 ELSE sendx + 1
    <3>1. sflag \in {1, 2, 3} /\ FlagAgrees(sendx, sflag)
      BY <1>1, GoodFacts, CInvType DEF SendClosed, CInv, CursorsInRange
    <3> QED BY <1>1, <3>1, GoodFacts, CInvType, Advance
  <2>2. Count' = Count + 1
    <3>1. (sendx - recvx) % (2*size) < size
      BY <1>2, <1>5 DEF Count
    <3>2. (sendx' - recvx) % (2*size) = ((sendx - recvx) % (2*size)) + 1
      BY <2>1, <3>1, GoodFacts, SendWindow
    <3> QED BY <1>1, <3>2 DEF Count
  <2>3. SlotAt(Count + 1) = SendSlot
    <3>1. Count = (sendx - recvx) % (2*size)
      BY DEF Count
    <3>2. (recvx + Count) % size = sendx % size
      BY ZenonT(40), <1>2, <1>5, <3>1, GoodFacts, SlotOnSend
    <3>3. recvx + (Count + 1) - 1 = recvx + Count
      BY GoodFacts
    <3> QED BY <3>2, <3>3 DEF SlotAt, SendSlot
  <2>4. /\ Queue \in Seq(Items) /\ Len(Queue) = Count /\ Count \in 0..size
        /\ \A k \in 1..Count : Queue[k] = ob_item[SlotAt(k)]
    BY <1>5, QueueOfMany
  <2>5. /\ Queue' \in Seq(Items) /\ Len(Queue') = Count'
        /\ \A k \in 1..Count' : Queue'[k] = ob_item'[SlotAt(k)']
    BY <1>1, <1>5, QueueOfManyNext
  <2>6. \A k : SlotAt(k)' = SlotAt(k)
    BY <1>1 DEF SlotAt
  <2>7. ASSUME NEW k \in 1..Count PROVE ob_item'[SlotAt(k)] = ob_item[SlotAt(k)]
    <3>1. SlotAt(k) \in 0..size-1 /\ ob_item[SlotAt(k)] # NULL
      BY <1>5, SlotAtFacts, NullAssumption
    <3> QED BY <1>1, <1>2, <3>1, GoodFacts
  <2>8. \A k \in 1..Count : Queue'[k] = Queue[k]
    BY <2>2, <2>4, <2>5, <2>6, <2>7
  <2>9. Queue'[Count + 1] = x
    BY <1>3, <2>2, <2>3, <2>4, <2>5, <2>6
  <2>10. /\ Append(Queue, x) \in Seq(Items) /\ Len(Append(Queue, x)) = Count + 1
         /\ \A k \in 1..Count : Append(Queue, x)[k] = Queue[k]
         /\ Append(Queue, x)[Count + 1] = x
    BY <2>4, AppendProperties
  <2>11. \A k \in 1..Len(Queue') : Queue'[k] = Append(Queue, x)[k]
    BY <2>2, <2>4, <2>5, <2>8, <2>9, <2>10
  <2> QED BY <2>2, <2>5, <2>10, <2>11, SeqEqual
<1> QED BY <1>4, <1>5, GoodFacts

\* recv() and safe_consume() take the head.
LEMMA TakenQueue ==
  ASSUME Good, Good', rflag > 0, ob_item[RecvSlot] # NULL, Taken(RecvSlot),
         size' = size, sendx' = sendx
  PROVE  Queue' = Tail(Queue)
<1>1. /\ ob_item' = [ob_item EXCEPT ![RecvSlot] = NULL] /\ recvx' = NextCursor(recvx, rflag)
      /\ Queue # <<>>
  BY HeadOfQueue DEF Taken
<1>2. CASE size = 1
  <2>1. RecvSlot = 0
    BY <1>2, GoodFacts
  <2>2. ob_item'[0] = NULL
    BY <1>1, <1>2, <2>1, GoodFacts
  <2>3. Queue = <<ob_item[0]>> /\ Queue' = <<>>
    BY <1>2, <2>1, <2>2 DEF Queue
  <2> QED BY <2>3
<1>3. CASE size > 1
  <2>1. recvx' = IF recvx + 1 = 2*size THEN 0 ELSE recvx + 1
    <3>1. rflag \in {1, 2, 3} /\ FlagAgrees(recvx, rflag)
      BY GoodFacts, CInvType DEF CInv, CursorsInRange
    <3> QED BY <1>1, <3>1, GoodFacts, CInvType, Advance
  <2>2. /\ Queue \in Seq(Items) /\ Len(Queue) = Count /\ Count \in 1..size
        /\ \A k \in 1..Count : Queue[k] = ob_item[SlotAt(k)]
    BY <1>1, <1>3, QueueOfMany, QueueType
  <2>3. Count' = Count - 1
    <3>1. (sendx - recvx) % (2*size) \in 1..size
      BY <2>2 DEF Count
    <3> QED BY <2>1, <3>1, GoodFacts, TakeWindow DEF Count
  <2>4. /\ Queue' \in Seq(Items) /\ Len(Queue') = Count'
        /\ \A k \in 1..Count' : Queue'[k] = ob_item'[SlotAt(k)']
    BY <1>3, QueueOfManyNext
  <2>5. ASSUME NEW k \in 1..Count-1 PROVE Queue'[k] = Queue[k + 1]
    <3>1. k - 1 \in 0..size-1 /\ k + 1 \in 1..Count /\ k \in 1..Count'
      BY <2>2, <2>3, GoodFacts
    <3>2. SlotAt(k)' = SlotAt(k + 1)
      <4>1. (recvx' + (k - 1)) % size = (recvx + (k - 1 + 1)) % size
        BY <2>1, <3>1, GoodFacts, SlotOnMoved
      <4>2. recvx' + (k - 1) = recvx' + k - 1 /\ recvx + (k - 1 + 1) = recvx + (k + 1) - 1
        BY <2>1, <3>1, GoodFacts
      <4> QED BY <4>1, <4>2 DEF SlotAt
    <3>3. SlotAt(k + 1) # RecvSlot
      <4>1. k \in 0..size-1 /\ 0 \in 0..size-1 /\ recvx + (k + 1) - 1 = recvx + k
            /\ recvx + 0 = recvx
        BY <2>2, <3>1, GoodFacts
      <4>2. (((recvx + k) % size) - recvx) % size = k /\ (((recvx + 0) % size) - recvx) % size = 0
        BY <4>1, GoodFacts, SlotOnAhead
      <4> QED BY <4>1, <4>2 DEF SlotAt, RecvSlot
    <3>4. SlotAt(k + 1) \in 0..size-1
      BY <1>3, <3>1, SlotAtFacts
    <3>5. ob_item'[SlotAt(k + 1)] = ob_item[SlotAt(k + 1)]
      BY <1>1, <3>3, <3>4, GoodFacts
    <3> QED BY <2>2, <2>4, <3>1, <3>2, <3>5
  <2>6. /\ Tail(Queue) \in Seq(Items) /\ Len(Tail(Queue)) = Count - 1
        /\ \A k \in 1..Count-1 : Tail(Queue)[k] = Queue[k + 1]
    BY <1>1, <2>2, HeadTailProperties
  <2> QED BY <2>2, <2>3, <2>4, <2>5, <2>6, SeqEqual
<1> QED BY <1>2, <1>3, GoodFacts

\* The cursors stay where they are: the end of a clear of a ring of one slot.
LEMMA ClearedQueue ==
  ASSUME size = 1, size' = size, ob_item'[0] = NULL PROVE Queue' = <<>>
  BY DEF Queue

LEMMA NothingToClear ==
  ASSUME Good, Occupied(ob_item, 0) = {} PROVE Queue = <<>>
<1>1. ob_item[RecvSlot] = NULL
  BY GoodFacts DEF Occupied
<1> QED BY <1>1, HeadOfQueue

-----------------------------------------------------------------------------
(* Every step is one of the queue's *)

\* What stays the same in most steps.
Stays == UNCHANGED <<size, sflag, rflag>> /\ Queue' = Queue

\* the callers whose recv() has found nothing
Saw == {c \in Callers : call[c].op = "nothing"}

LEMMA Stutters ==
  ASSUME Good, Good', Stays, Saw' = Saw, result' = result PROVE UNCHANGED CQ!vars
  BY GoodFacts DEF Stays, Saw, CQ!vars, SendClosed, RecvClosed, Good

LEMMA SawSame ==
  ASSUME Good, NEW c \in Callers,
         \/ call' = call
         \/ \E F : call' = [call EXCEPT ![c] = F] /\ F.op # "nothing" /\ call[c].op # "nothing"
  PROVE  Saw' = Saw
  BY GoodFacts DEF Saw, CInv, TypeOK

LEMMA SendSim ==
  ASSUME Good, Good', NEW c \in Callers, NEW x \in Items, Send(c, x) PROVE CQ!Kept
<1>0. Saw' = Saw
  BY SawSame DEF Send
<1>1. ~SendClosed /\ ~Full /\ Len(Queue) \in 0..size
  BY QueueType DEF Send
<1>2. Len(Queue) < size
  BY <1>1, FullQueue, GoodFacts
<1>3. SendClosed' = FALSE /\ RecvClosed' = RecvClosed
  <2>1. sflag' \in {1, 2, 3}
    BY NextFlagType DEF Send
  <2> QED BY <2>1 DEF Send, SendClosed, RecvClosed
<1>4. CQ!Send(x)
  BY <1>0, <1>1, <1>2, <1>3, SendQueue DEF Send, CQ!Send, CQ!Answer, CQ!Rest, CQ!Sides, Saw, Answer
<1> QED BY <1>4 DEF CQ!Kept, Good, Send

LEMMA SendRefusedSim ==
  ASSUME Good, Good', NEW c \in Callers, SendRefused(c) PROVE CQ!Kept
<1>0. Saw' = Saw
  BY SawSame DEF SendRefused
<1>1. Stays
  BY QueueSame DEF SendRefused, Stays, ring
<1>2. CASE SendClosed
  BY <1>0, <1>1, <1>2 DEF SendRefused, Stays, CQ!Kept, CQ!SendClosed, CQ!Answer, CQ!Rest, CQ!Sides, Saw, Answer, Good,
                    SendClosed, RecvClosed
<1>3. CASE ~SendClosed
  <2>1. Full /\ Len(Queue) = size
    BY <1>3, FullQueue DEF SendRefused
  <2> QED BY <1>0, <1>1, <1>3, <2>1 DEF SendRefused, Stays, CQ!Kept, CQ!SendFull, CQ!Answer, CQ!Rest, CQ!Sides, Saw,
                    Answer, Good, SendClosed, RecvClosed
<1> QED BY <1>2, <1>3

LEMMA TakeRefusedSim ==
  ASSUME Good, Good', NEW c \in Callers, NEW op \in {"recv", "consume"}, TakeRefused(c, op)
  PROVE  CQ!Kept
<1>0. Saw' = Saw
  BY SawSame DEF TakeRefused
<1>1. Stays
  BY QueueSame DEF TakeRefused, Stays, ring
<1>2. CASE RecvClosed
  <2>1. CQ!TakeClosed(op)
    BY <1>0, <1>1, <1>2 DEF TakeRefused, Stays, CQ!TakeClosed, CQ!Answer, CQ!Rest, CQ!Sides, Saw, Answer,
                      SendClosed, RecvClosed
  <2> QED BY <1>1, <2>1 DEF CQ!Kept, Good, Stays
<1>3. CASE ~RecvClosed
  <2>1. Empty /\ Queue = <<>>
    BY <1>3, EmptyQueue DEF TakeRefused
  <2>2. op = "consume" /\ CQ!ConsumeEmpty
    BY <1>0, <1>1, <1>3, <2>1 DEF TakeRefused, Stays, CQ!ConsumeEmpty, CQ!Answer, CQ!Rest, CQ!Sides, Saw, Answer,
                      SendClosed, RecvClosed
  <2> QED BY <1>1, <2>2 DEF CQ!Kept, Good, Stays
<1> QED BY <1>2, <1>3

\* The frame of a receiver: its slot is the head's, and the side is open.
LEMMA ReceiverFacts ==
  ASSUME Good, NEW c \in Callers, call[c].op \in {"recv", "consume", "drop"}
  PROVE  /\ call[c].idx = RecvSlot /\ ob_item[RecvSlot] # NULL /\ rflag > 0
         /\ Queue # <<>> /\ Head(Queue) = ob_item[RecvSlot]
         /\ call[c].op \in {"consume", "drop"} => call[c].item = ob_item[RecvSlot]
<1>1. /\ call[c].idx = RecvSlot /\ ob_item[RecvSlot] # NULL
      /\ call[c].op \in {"consume", "drop"} => call[c].item = ob_item[RecvSlot]
  BY GoodFacts DEF Kept, FramesOK
<1>2. rflag > 0
  BY GoodFacts DEF CInv, OpenFrames
<1> QED BY <1>1, <1>2, HeadOfQueue

LEMMA KeepSim ==
  ASSUME Good, Good', NEW c \in Callers, ConsumeKeep(c) PROVE CQ!Kept
<1>0. Saw' = Saw
  <2>1. call' = [call EXCEPT ![c] = Idle] /\ Idle.op # "nothing" /\ call[c].op # "nothing"
    BY DEF ConsumeKeep, Inside, Returns, Idle, Frame
  <2> QED BY <2>1, SawSame
<1>1. Stays
  BY QueueSame DEF ConsumeKeep, Stays, ring
<1>2. result' = Answer("consume", "kept", Head(Queue)) /\ ~RecvClosed /\ Queue # <<>>
  <2>1. call[c].op = "consume"
    BY DEF ConsumeKeep, Inside
  <2> QED BY <2>1, ReceiverFacts, CInvType, GoodFacts DEF ConsumeKeep, RecvClosed
<1>3. CQ!Keep
  BY <1>0, <1>1, <1>2 DEF Stays, CQ!Keep, CQ!Answer, CQ!Rest, CQ!Sides, Saw, Answer,
                          SendClosed, RecvClosed
<1> QED BY <1>1, <1>3 DEF CQ!Kept, Good, Stays

\* recv() looks at an empty queue, and answers once it has its tuple.
LEMMA SeesEmptySim ==
  ASSUME Good, Good', NEW c \in Callers, RecvSeesEmpty(c) PROVE CQ!Kept
<1>1. Stays /\ result' = result /\ ~RecvClosed /\ Queue = <<>>
  BY QueueSame, EmptyQueue DEF RecvSeesEmpty, Stays, ring
<1>2. c \notin Saw /\ Saw' = Saw \cup {c}
  <2>1. call'= [call EXCEPT ![c] = Frame("nothing", 0, NULL)] /\ call[c].op = "idle"
    BY DEF RecvSeesEmpty, CanCall, Goes
  <2>2. \A d \in Callers : call'[d].op = IF d = c THEN "nothing" ELSE call[d].op
    BY <2>1, GoodFacts DEF TypeOK, Frame
  <2> QED BY <2>1, <2>2 DEF Saw
<1>3. CQ!SeeEmpty(c)
  BY <1>1, <1>2 DEF Stays, CQ!SeeEmpty, CQ!Sides, Saw, SendClosed, RecvClosed
<1> QED BY <1>1, <1>3 DEF CQ!Kept, Good, Stays

LEMMA NothingSim ==
  ASSUME Good, Good', NEW c \in Callers, RecvNothing(c) \/ RecvNoMemory(c) PROVE CQ!Kept
<1>1. Stays
  BY QueueSame DEF RecvNothing, RecvNoMemory, Stays, ring
<1>2. Saw' = Saw \ {c}
  <2>1. call' = [call EXCEPT ![c] = Idle] /\ Idle.op = "idle"
    BY DEF RecvNothing, RecvNoMemory, Returns, Idle, Frame
  <2>2. \A d \in Callers : call'[d].op = IF d = c THEN "idle" ELSE call[d].op
    BY <2>1, GoodFacts DEF TypeOK
  <2> QED BY <2>2 DEF Saw
<1>3. CASE RecvNothing(c)
  <2>1. c \in Saw /\ result' = Answer("recv", "empty", NULL)
    BY <1>3 DEF RecvNothing, Inside, Saw
  <2>2. CQ!RecvEmpty(c)
    BY <1>1, <1>2, <2>1 DEF Stays, CQ!RecvEmpty, CQ!Answer, CQ!Sides, Saw, Answer,
                            SendClosed, RecvClosed
  <2> QED BY <1>1, <2>2 DEF CQ!Kept, Good, Stays
<1>4. CASE RecvNoMemory(c)
  <2>1. Saw' = Saw \/ \E d \in Saw : Saw' = Saw \ {d}
    BY <1>2
  <2>2. CQ!Fail
    BY <1>1, <1>4, <2>1 DEF RecvNoMemory, Stays, CQ!Fail, CQ!Answer, CQ!Sides, Saw, Answer,
                            SendClosed, RecvClosed
  <2> QED BY <1>1, <2>2 DEF CQ!Kept, Good, Stays
<1> QED BY <1>3, <1>4

LEMMA TakenSim ==
  ASSUME Good, Good', NEW c \in Callers, RecvEnd(c) \/ ConsumeFinish(c) PROVE CQ!Kept
<1>0. Saw' = Saw
  BY SawSame DEF RecvEnd, ConsumeFinish, Inside, Returns, Idle, Frame
<1>1. PICK op \in {"recv", "consume"} :
         /\ result' = Answer(op, "taken", Head(Queue)) /\ ob_item[RecvSlot] # NULL
         /\ rflag > 0 /\ Queue # <<>> /\ Taken(RecvSlot) /\ UNCHANGED <<size, sendx, sflag>>
  <2>1. CASE RecvEnd(c)
    BY <2>1, ReceiverFacts DEF RecvEnd, Inside
  <2>2. CASE ConsumeFinish(c)
    BY <2>2, ReceiverFacts DEF ConsumeFinish, Inside
  <2> QED BY <2>1, <2>2
<1>2. Queue' = Tail(Queue)
  BY <1>1, TakenQueue
<1>3. ~RecvClosed /\ ~RecvClosed' /\ SendClosed' = SendClosed
  <2>1. rflag' \in {1, 2, 3} /\ rflag \in {1, 2, 3}
    BY <1>1, NextFlagType, CInvType, GoodFacts DEF Taken
  <2> QED BY <1>1, <2>1 DEF RecvClosed, SendClosed
<1>4. CQ!Take(op)
  BY <1>0, <1>1, <1>2, <1>3 DEF CQ!Take, CQ!Answer, CQ!Rest, CQ!Sides, Saw, Answer
<1> QED BY <1>1, <1>4 DEF CQ!Kept, Good

LEMMA ConsumeBeginSim ==
  ASSUME Good, Good', NEW c \in Callers, ConsumeBegin(c) PROVE CQ!Kept
<1>0. Saw' = Saw
  BY SawSame DEF ConsumeBegin, CanCall, Goes, Frame
<1>1. Stays /\ ~RecvClosed /\ ~Empty
  BY QueueSame DEF ConsumeBegin, Stays, ring
<1>2. ob_item[RecvSlot] # NULL
  BY <1>1, RecvSlotTaken, GoodFacts
<1>3. result' = Answer("consume", "offered", Head(Queue)) /\ Queue # <<>>
  BY <1>2, HeadOfQueue DEF ConsumeBegin
<1>4. CQ!Offer
  BY <1>0, <1>1, <1>3 DEF Stays, CQ!Offer, CQ!Answer, CQ!Rest, CQ!Sides, Saw, Answer, SendClosed, RecvClosed
<1> QED BY <1>1, <1>4 DEF CQ!Kept, Good, Stays

\* clear() has no effect on the queue until the slot it drops is NULL.
LEMMA ClearBeginSim ==
  ASSUME Good, Good', NEW c \in Callers, ClearBegin(c) PROVE CQ!Kept \/ UNCHANGED CQ!vars
<1>0. Saw' = Saw
  BY SawSame DEF ClearBegin, ClearFrom, CanCall, Goes, Returns, Idle, Frame
<1>1. Stays
  BY QueueSame DEF ClearBegin, Stays, ring
<1>2. CASE Occupied(ob_item, 0) = {}
  <2>1. Queue = <<>> /\ result' = Answer("clear", "ok", NULL)
    BY <1>2, NothingToClear DEF ClearBegin, ClearFrom
  <2>2. CQ!Clear
    BY <1>0, <1>1, <2>1 DEF Stays, CQ!Clear, CQ!Answer, CQ!Rest, CQ!Sides, Saw, Answer, SendClosed, RecvClosed
  <2> QED BY <1>1, <2>2 DEF CQ!Kept, Good, Stays
<1>3. CASE Occupied(ob_item, 0) # {}
  <2>1. result' = result
    BY <1>3 DEF ClearBegin, ClearFrom
  <2> QED BY <1>0, <1>1, <2>1, Stutters
<1> QED BY <1>2, <1>3

LEMMA ClearNextSim ==
  ASSUME Good, Good', NEW c \in Callers, ClearNext(c) PROVE CQ!Kept
<1>0. Saw' = Saw
  BY SawSame DEF ClearNext, ClearFrom, Inside, Goes, Returns, Idle, Frame
<1>1. size = 1 /\ call[c].idx = 0
  <2>1. size = 1
    BY GoodFacts DEF ClearNext, Inside, Kept, FramesOK
  <2> QED BY <2>1, GoodFacts, FrameType
<1>2. ob_item' = [ob_item EXCEPT ![0] = NULL] /\ UNCHANGED <<size, sendx, recvx, sflag, rflag>>
  BY <1>1 DEF ClearNext
<1>3. ob_item'[0] = NULL
  BY <1>1, <1>2, GoodFacts
<1>4. Occupied(ob_item', 1) = {}
  BY <1>1 DEF Occupied
<1>5. result' = Answer("clear", "ok", NULL)
  BY <1>1, <1>4 DEF ClearNext, ClearFrom
<1>6. CQ!Clear
  BY <1>0, <1>1, <1>2, <1>3, <1>5, ClearedQueue
     DEF CQ!Clear, CQ!Answer, CQ!Rest, CQ!Sides, Saw, Answer, SendClosed, RecvClosed
<1> QED BY <1>2, <1>6 DEF CQ!Kept, Good

LEMMA CloseSim ==
  ASSUME Good, Good', NEW c \in Callers, NEW send \in BOOLEAN, NEW recv \in BOOLEAN,
         Close(c, send, recv)
  PROVE  CQ!Kept
<1>0. Saw' = Saw
  BY SawSame DEF Close
<1>1. Queue' = Queue /\ size' = size /\ result' = Answer("close", "ok", NULL)
  BY QueueSame DEF Close
<1>2. /\ SendClosed' = IF send THEN ~SendClosed ELSE SendClosed
      /\ RecvClosed' = IF recv THEN ~RecvClosed ELSE RecvClosed
  <2>1. sflag \in {-3, -2, -1, 1, 2, 3} /\ rflag \in {-3, -2, -1, 1, 2, 3}
    BY GoodFacts, CInvType
  <2>2. (-sflag < 0 <=> ~(sflag < 0)) /\ (-rflag < 0 <=> ~(rflag < 0))
    BY <2>1
  <2> QED BY <2>2 DEF Close, SendClosed, RecvClosed
<1>3. CQ!Close(send, recv)
  BY <1>0, <1>1, <1>2 DEF CQ!Close, Saw, CQ!Answer, Answer
<1> QED BY <1>1, <1>3 DEF CQ!Kept, Good

LEMMA PollSim ==
  ASSUME Good, Good', NEW c \in Callers, Sendable(c) \/ Recvable(c) PROVE CQ!Kept
<1>0. Saw' = Saw
  BY SawSame DEF Sendable, Recvable
<1>1. Stays
  BY QueueSame DEF Sendable, Recvable, Stays, ring
<1>2. ~SendClosed => (Full <=> ~(Len(Queue) < size))
  BY FullQueue, QueueType, GoodFacts
<1>3. CQ!Poll
  BY <1>0, <1>1, <1>2, EmptyQueue
     DEF Stays, Sendable, Recvable, CQ!Poll, CQ!Answer, CQ!Rest, CQ!Sides, Saw, Answer, SendClosed, RecvClosed
<1> QED BY <1>1, <1>3 DEF CQ!Kept, Good, Stays

LEMMA GoodSim ==
  ASSUME Good, Good', Next PROVE CQ!Kept \/ UNCHANGED CQ!vars
<1> PICK c \in Callers : Step(c)
  BY DEF Next
<1>1. CASE RecvBegin(c) \/ ConsumeDrop(c)
  <2>1. Stays /\ Saw' = Saw /\ result' = result
    BY <1>1, QueueSame, SawSame DEF RecvBegin, ConsumeDrop, Stays, ring, CanCall, Inside, Goes, Frame
  <2> QED BY <2>1, Stutters
<1> QED BY <1>1, SendSim, SendRefusedSim, TakeRefusedSim, KeepSim, SeesEmptySim, NothingSim, TakenSim, ConsumeBeginSim,
           ClearBeginSim, ClearNextSim, CloseSim, PollSim DEF Step

LEMMA BreachStays ==
  ASSUME Next PROVE size' = size /\ breach \subseteq breach'
  BY DEF Next, Step, Send, SendRefused, TakeRefused, RecvBegin, RecvSeesEmpty, RecvNothing,
          RecvNoMemory, RecvEnd, Taken,
         ConsumeBegin, ConsumeKeep, ConsumeDrop, ConsumeFinish, ClearBegin, ClearNext, Close,
         Sendable, Recvable, ring

LEMMA StepSim == IInv /\ IInv' /\ [Next]_vars => [CQ!Next]_(CQ!vars)
<1>1. UNCHANGED vars => UNCHANGED CQ!vars
  <2>1. UNCHANGED vars => Queue' = Queue
    BY QueueSame DEF vars, ring
  <2> QED BY <2>1 DEF vars, ring, CQ!vars, SendClosed, RecvClosed, SafeSize
<1>2. ~(breach' = {} /\ SafeSize(size')) => CQ!Next
  BY DEF CQ!Next
<1>3. ASSUME IInv, IInv', Next, breach' = {}, SafeSize(size')
      PROVE  CQ!Next \/ UNCHANGED CQ!vars
  <2>1. Good /\ Good'
    BY <1>3, BreachStays DEF Good
  <2>2. ~(breach # {} \/ ~SafeSize(size))
    BY <2>1 DEF Good
  <2> QED BY <1>3, <2>1, <2>2, GoodSim DEF CQ!Next
<1> QED BY <1>1, <1>2, <1>3

\* The ring implements the queue: what is sent comes out once and in order,
\* whatever sends, destructors and callbacks do while a receiver is running.
THEOREM Refines == Spec => IsQueue
<1>1. Init => CQ!Init
  <2> SUFFICES ASSUME Init PROVE CQ!Init
    OBVIOUS
  <2>1. size \in Nat \ {0}
    BY SizesAssumption DEF Init
  <2>2. Queue = <<>>
    <3>1. CASE size = 1
      BY <2>1, <3>1 DEF Init, Queue
    <3>2. CASE size # 1
      <4>1. Count = 0
        BY <2>1, CountArith DEF Init, Count
      <4>2. Queue = [k \in 1..0 |-> ob_item[(recvx + k - 1) % size]]
        BY <3>2, <4>1 DEF Queue
      <4> QED BY <4>2
    <3> QED BY <3>1, <3>2
  <2>3. ~SendClosed /\ ~RecvClosed /\ {c \in Callers : call[c].op = "nothing"} = {}
    BY DEF Init, SendClosed, RecvClosed, Idle, Frame
  <2> QED BY <2>1, <2>2, <2>3 DEF Init, CQ!Init, CQ!Answer, Answer
<1>2. Spec => []IInv
  BY InitIInv, StepIInv, PTL DEF Spec
<1> QED BY <1>1, <1>2, StepSim, PTL DEF Spec, IsQueue
=============================================================================
