------------------------------ MODULE Channel ------------------------------
(***************************************************************************)
(* ctools.Channel, src/src/channel.c: a ring buffer whose two cursors run  *)
(* over 0 .. 2*size-1, so that equal cursors mean empty and cursors one    *)
(* size apart mean full.                                                   *)
(*                                                                         *)
(* Every method runs under the GIL, but a method that runs Python code     *)
(* before it returns (the callback of safe_consume(), the destructor of an *)
(* item clear() drops, a collection started by the tuple recv() allocates) *)
(* lets that code, and through it any other thread, call the channel       *)
(* again.  Such a method is split there; call holds the C locals it goes   *)
(* on with.  The model is of the release build: asserts are not executed.  *)
(***************************************************************************)
EXTENDS Integers, Sequences, FiniteSets

CONSTANTS Sizes,    \* the sizes a Channel is created with
          Items,    \* the objects sent
          NULL,     \* the NULL pointer
          Callers,  \* frames that may be inside a method at the same time
          IntMax    \* the largest C int

Pow2(n) == \E k \in 0..n : 2^k = n

ASSUME IntMaxAssumption == IntMax \in Nat /\ Pow2(IntMax + 1)
ASSUME SizesAssumption == Sizes \subseteq 1..IntMax
ASSUME NullAssumption == NULL \notin Items

VARIABLES size, ob_item, sendx, recvx, sflag, rflag,
          call,    \* per caller, the method it is inside and its locals
          rc,      \* ghost: the references the channel's code owns, per item
          result,  \* ghost: what the last method that returned answered
          breach,  \* ghost: how the clients have broken the contract
          fault    \* ghost: the first memory error

ring == <<size, ob_item, sendx, recvx, sflag, rflag>>
vars == <<ring, call, rc, result, breach, fault>>

Frame(op, idx, x) == [op |-> op, idx |-> idx, item |-> x]
Idle == Frame("idle", 0, NULL)
Answer(op, out, x) == [op |-> op, out |-> out, item |-> x]

\* Channel(size)
Init == /\ size \in Sizes
        /\ ob_item = [i \in 0..size-1 |-> NULL]
        /\ sendx = 0 /\ recvx = 0
        /\ sflag = IF Pow2(size) THEN 3 ELSE 1
        /\ rflag = IF Pow2(size) THEN 3 ELSE 1
        /\ call = [c \in Callers |-> Idle]
        /\ rc = [x \in Items |-> 0]
        /\ result = Answer("new", "ok", NULL)
        /\ breach = {}
        /\ fault = "none"

-----------------------------------------------------------------------------
(* Cursors.  `x & (2*size-1)` and `x ^ size` only meet powers of two and   *)
(* are written with % and +.                                               *)

Abs(n) == IF n < 0 THEN -n ELSE n
Wrap(n) == IF n > IntMax THEN n - 2 * (IntMax + 1) ELSE n

\* Definitions named ...Slip are plausible slips in the code of the definition
\* they precede; no behaviour of the model uses them.
NextCursorSlip(cursor, flag) ==
  IF flag = 3 THEN (cursor + 1) % (2 * size)
  ELSE IF cursor + 1 > 2 * size THEN 1 ELSE cursor + 1

NextCursor(cursor, flag) ==
  IF flag = 3 THEN (cursor + 1) % (2 * size)
  ELSE LET next == Wrap(cursor + 1)
       IN IF next >= 2 * size THEN next % (2 * size) ELSE next

NextFlagSlip(cursor, flag) ==
  IF flag = 3 THEN 3 ELSE IF NextCursor(cursor, flag) >= size THEN 2 ELSE 0

NextFlag(cursor, flag) ==
  IF flag = 3 THEN 3 ELSE IF NextCursor(cursor, flag) >= size THEN 2 ELSE 1

SendSlot == sendx % size
RecvSlot == recvx % size

FullSlip == IF size = 1 THEN ob_item[0] # NULL
            ELSE IF sflag = 3 THEN sendx = recvx + size
            ELSE SendSlot = RecvSlot /\ Abs(rflag) # sflag

Full == IF size = 1 THEN ob_item[0] # NULL
        ELSE IF sflag = 3 THEN sendx = (recvx + size) % (2 * size)
        ELSE SendSlot = RecvSlot /\ Abs(rflag) # sflag

EmptySlip == IF size = 1 THEN ob_item[0] = NULL
             ELSE IF rflag = 3 THEN sendx = recvx
             ELSE SendSlot = RecvSlot /\ sflag = rflag

Empty == IF size = 1 THEN ob_item[0] = NULL
         ELSE IF rflag = 3 THEN sendx = recvx
         ELSE SendSlot = RecvSlot /\ Abs(sflag) = rflag

SendClosed == sflag < 0
RecvClosed == rflag < 0

-----------------------------------------------------------------------------
(* The contract.  The receive side has one user at a time: nobody takes,   *)
(* consumes, clears or closes it while such a call is running, a recv()    *)
(* that has found nothing excepted; and clear() is only called on an empty *)
(* channel or on one of size 1.                                            *)

Receiving == \E c \in Callers : call[c].op \notin {"idle", "nothing"}
Overlap == IF Receiving THEN {"overlap"} ELSE {}

Goes(c, op, idx, x) == call' = [call EXCEPT ![c] = Frame(op, idx, x)]
Returns(c) == call' = [call EXCEPT ![c] = Idle]

\* The model does not follow the program past a memory error, nor past a
\* cursor that has wrapped around to a negative index.
Running == fault = "none" /\ sendx >= 0 /\ recvx >= 0
CanCall(c) == Running /\ call[c].op = "idle"
Inside(c, op) == Running /\ call[c].op = op

\* Py_DECREF, n times: the code gives away references it must own
Release(x, n) == /\ rc' = [rc EXCEPT ![x] = @ - n]
                 /\ fault' = IF rc[x] < n THEN "over_release" ELSE fault

-----------------------------------------------------------------------------
(* Channel_send *)

Send(c, x) ==
  /\ CanCall(c)
  /\ ~SendClosed
  /\ ~Full
  /\ ob_item' = [ob_item EXCEPT ![SendSlot] = x]
  /\ sendx' = NextCursor(sendx, sflag)
  /\ sflag' = NextFlag(sendx, sflag)
  /\ rc' = [rc EXCEPT ![x] = @ + 1]
  /\ fault' = IF ob_item[SendSlot] # NULL THEN "overwritten" ELSE fault
  /\ result' = Answer("send", "sent", NULL)
  /\ UNCHANGED <<size, recvx, rflag, call, breach>>

SendRefused(c) ==
  /\ CanCall(c)
  /\ SendClosed \/ Full
  /\ result' = Answer("send", IF SendClosed THEN "closed" ELSE "full", NULL)
  /\ UNCHANGED <<ring, call, rc, breach, fault>>

-----------------------------------------------------------------------------
(* Channel_recv and Channel_safe_consume *)

\* answered on the spot: a closed side, or safe_consume() of an empty channel
TakeRefused(c, op) ==
  /\ CanCall(c)
  /\ RecvClosed \/ (op = "consume" /\ Empty)
  /\ result' = Answer(op, IF RecvClosed THEN "closed" ELSE "empty", NULL)
  /\ UNCHANGED <<ring, call, rc, breach, fault>>

\* recv() has computed recvx, then PyTuple_New(2) may run a collection
RecvBegin(c) ==
  /\ CanCall(c)
  /\ ~RecvClosed /\ ~Empty
  /\ Goes(c, "recv", RecvSlot, NULL)
  /\ breach' = breach \cup Overlap
  /\ UNCHANGED <<ring, rc, result, fault>>

\* recvx is -1, and the tuple is allocated all the same
RecvSeesEmpty(c) ==
  /\ CanCall(c)
  /\ ~RecvClosed /\ Empty
  /\ Goes(c, "nothing", 0, NULL)
  /\ UNCHANGED <<ring, rc, result, breach, fault>>

RecvNothing(c) ==
  /\ Inside(c, "nothing")
  /\ Returns(c)
  /\ result' = Answer("recv", "empty", NULL)
  /\ UNCHANGED <<ring, rc, breach, fault>>

\* PyTuple_New failed: NULL is returned before anything is touched
RecvNoMemory(c) ==
  /\ Inside(c, "recv") \/ Inside(c, "nothing")
  /\ Returns(c)
  /\ result' = Answer("recv", "error", NULL)
  /\ UNCHANGED <<ring, rc, breach, fault>>

TakenSlip(i) == /\ recvx' = NextCursor(recvx, rflag)
                /\ rflag' = NextFlag(recvx, rflag)
                /\ UNCHANGED ob_item

\* the slot is emptied at the index computed before, its reference handed
\* to the caller, and recvx moved from where it is now
Taken(i) == /\ ob_item' = [ob_item EXCEPT ![i] = NULL]
            /\ recvx' = NextCursor(recvx, rflag)
            /\ rflag' = NextFlag(recvx, rflag)

RecvEnd(c) ==
  /\ Inside(c, "recv")
  /\ LET i == call[c].idx IN
     /\ Taken(i)
     /\ IF ob_item[i] = NULL THEN fault' = "null_item" /\ rc' = rc
                             ELSE Release(ob_item[i], 1)
     /\ result' = Answer("recv", "taken", ob_item[i])
  /\ Returns(c)
  /\ UNCHANGED <<size, sendx, sflag, breach>>

\* the callback is called with the item, which stays in its slot
ConsumeBegin(c) ==
  /\ CanCall(c)
  /\ ~RecvClosed /\ ~Empty
  /\ LET x == ob_item[RecvSlot] IN
     IF x = NULL
     THEN /\ fault' = "null_item"
          /\ UNCHANGED <<call, rc, result>>
     ELSE /\ Goes(c, "consume", RecvSlot, x)
          /\ rc' = [rc EXCEPT ![x] = @ + 1]
          /\ result' = Answer("consume", "offered", x)
          /\ UNCHANGED fault
  /\ breach' = breach \cup Overlap
  /\ UNCHANGED ring

ConsumeKeepSlip(c) ==
  /\ Inside(c, "consume")
  /\ Returns(c)
  /\ result' = Answer("consume", "kept", call[c].item)
  /\ UNCHANGED <<ring, rc, breach, fault>>

\* the callback raised or returned False
ConsumeKeep(c) ==
  /\ Inside(c, "consume")
  /\ Release(call[c].item, 1)
  /\ Returns(c)
  /\ result' = Answer("consume", "kept", call[c].item)
  /\ UNCHANGED <<ring, breach>>

\* any other answer: both references are dropped first, which may run the
\* item's destructor while the slot still holds the pointer
ConsumeDrop(c) ==
  /\ Inside(c, "consume")
  /\ Release(call[c].item, 2)
  /\ Goes(c, "drop", call[c].idx, call[c].item)
  /\ UNCHANGED <<ring, result, breach>>

ConsumeFinish(c) ==
  /\ Inside(c, "drop")
  /\ Taken(call[c].idx)
  /\ Returns(c)
  /\ result' = Answer("consume", "taken", call[c].item)
  /\ UNCHANGED <<size, sendx, sflag, rc, breach, fault>>

-----------------------------------------------------------------------------
(* Channel_clear: every occupied slot in turn is released, then set to     *)
(* NULL; the cursors stay where they are.                                  *)

Occupied(buffer, from) == {i \in from..size-1 : buffer[i] # NULL}

\* the loop goes on from slot `from` of the given buffer
ClearFrom(c, buffer, from) ==
  IF Occupied(buffer, from) = {}
  THEN /\ Returns(c)
       /\ result' = Answer("clear", "ok", NULL)
       /\ UNCHANGED <<rc, fault>>
  ELSE \E i \in Occupied(buffer, from) :
         /\ \A j \in Occupied(buffer, from) : i <= j
         /\ Goes(c, "clear", i, buffer[i])
         /\ Release(buffer[i], 1)
         /\ UNCHANGED result

ClearBegin(c) ==
  /\ CanCall(c)
  /\ ClearFrom(c, ob_item, 0)
  /\ breach' = IF Occupied(ob_item, 0) = {} THEN breach
               ELSE breach \cup Overlap \cup (IF size > 1 THEN {"clear"} ELSE {})
  /\ UNCHANGED ring

ClearNext(c) ==
  /\ Inside(c, "clear")
  /\ ob_item' = [ob_item EXCEPT ![call[c].idx] = NULL]
  /\ ClearFrom(c, ob_item', call[c].idx + 1)
  /\ UNCHANGED <<size, sendx, recvx, sflag, rflag, breach>>

-----------------------------------------------------------------------------
(* Channel_close, Channel_sendable and Channel_recvable *)

Close(c, send, recv) ==
  /\ CanCall(c)
  /\ sflag' = IF send THEN -sflag ELSE sflag
  /\ rflag' = IF recv THEN -rflag ELSE rflag
  /\ breach' = IF recv /\ Receiving THEN breach \cup {"close"} ELSE breach
  /\ result' = Answer("close", "ok", NULL)
  /\ UNCHANGED <<size, ob_item, sendx, recvx, call, rc, fault>>

Sendable(c) ==
  /\ CanCall(c)
  /\ result' = Answer("sendable", IF SendClosed \/ Full THEN "no" ELSE "yes", NULL)
  /\ UNCHANGED <<ring, call, rc, breach, fault>>

Recvable(c) ==
  /\ CanCall(c)
  /\ result' = Answer("recvable", IF RecvClosed \/ Empty THEN "no" ELSE "yes", NULL)
  /\ UNCHANGED <<ring, call, rc, breach, fault>>

-----------------------------------------------------------------------------

Step(c) == \/ \E x \in Items : Send(c, x)
           \/ SendRefused(c)
           \/ \E op \in {"recv", "consume"} : TakeRefused(c, op)
           \/ RecvBegin(c) \/ RecvEnd(c)
           \/ RecvSeesEmpty(c) \/ RecvNothing(c) \/ RecvNoMemory(c)
           \/ ConsumeBegin(c) \/ ConsumeKeep(c)
           \/ ConsumeDrop(c) \/ ConsumeFinish(c)
           \/ ClearBegin(c) \/ ClearNext(c)
           \/ \E send, recv \in BOOLEAN : Close(c, send, recv)
           \/ Sendable(c) \/ Recvable(c)

Next == \E c \in Callers : Step(c)

Spec == Init /\ [][Next]_vars

-----------------------------------------------------------------------------
(* Properties *)

Frames == [op : {"recv", "nothing", "consume", "drop", "clear"},
           idx : Nat, item : Items \cup {NULL}] \cup {Idle}
Breaches == {"overlap", "clear", "close"}
Faults == {"none", "null_item", "overwritten", "over_release"}

\* Every variable has its type; a slot index held by a frame is a slot.
TypeOK ==
  /\ size \in Sizes
  /\ ob_item \in [0..size-1 -> Items \cup {NULL}]
  /\ sendx \in Int /\ recvx \in Int
  /\ sflag \in {-3, -2, -1, 1, 2, 3} /\ rflag \in {-3, -2, -1, 1, 2, 3}
  /\ call \in [Callers -> Frames]
  /\ \A c \in Callers : call[c].idx < size
  /\ rc \in [Items -> Int]
  /\ breach \subseteq Breaches
  /\ fault \in Faults

\* Sizes for which cursor + 1 never leaves the C int: every power of two
\* (the & brings the wrapped value back), else up to half of the integers.
SafeSize(n) == Pow2(n) \/ 2 * n <= IntMax

InRange(cursor) == cursor \in 0..2*size-1

FlagAgrees(cursor, flag) ==
  Abs(flag) = IF Pow2(size) THEN 3 ELSE IF cursor >= size THEN 2 ELSE 1

\* "cursor between [0, 2 * size), if cursor >= size, set flag" (the comment
\* on CtsChannel), whatever clients do: overlapping receivers, clear(),
\* close() again.  The exception is a receive side closed under a running
\* receiver: its cursor is then moved by the code of the other kind of size.
CursorsInRange ==
  SafeSize(size) =>
    /\ InRange(sendx) /\ FlagAgrees(sendx, sflag)
    /\ "close" \notin breach => InRange(recvx) /\ FlagAgrees(recvx, rflag)

\* the items in the channel, and how far a slot is ahead of the receive cursor
Count == (sendx - recvx) % (2 * size)
Ahead(i) == (i - recvx) % size

\* The two cursors say exactly which slots hold an item: the Count slots from
\* recvx on, at most size of them.  This is what makes the full and empty
\* tests of Channel_send_idx and Channel_recv_idx right.
Window ==
  breach = {} /\ SafeSize(size) /\ size > 1 =>
    /\ Count <= size
    /\ \A i \in 0..size-1 : ob_item[i] # NULL <=> Ahead(i) < Count

\* One client at a time on the receive side is enough for memory safety: no
\* NULL item is handed out, no item overwritten, no reference dropped twice,
\* with senders and destructors running at every point where Python code can.
NoFault == breach = {} /\ SafeSize(size) => fault = "none"

SlotsOf(x) == {i \in 0..size-1 : ob_item[i] = x}
Holders(x, ops) == {c \in Callers : call[c].op \in ops /\ call[c].item = x}

\* Neither a leak nor a double release, at every intermediate point: the
\* channel owns one reference per slot, one more while the callback runs and
\* one less while the slot of a dropped or cleared item is not yet NULL.
RefsBalanced ==
  breach = {} /\ SafeSize(size) => \A x \in Items :
    rc[x] = Cardinality(SlotsOf(x)) + Cardinality(Holders(x, {"consume"}))
                                    - Cardinality(Holders(x, {"drop", "clear"}))

\* The queue a ring stands for; a ring of one slot is read from the slot.
Queue == IF size = 1
         THEN IF ob_item[0] = NULL THEN <<>> ELSE <<ob_item[0]>>
         ELSE [k \in 1..Count |-> ob_item[(recvx + k - 1) % size]]

CQ == INSTANCE ChannelQueue WITH
        cap <- size, queue <- Queue, sendOpen <- ~SendClosed, recvOpen <- ~RecvClosed,
        saw <- {c \in Callers : call[c].op = "nothing"},
        broken <- breach # {} \/ ~SafeSize(size)

\* The ring buffer implements the bounded FIFO queue.
IsQueue == CQ!Init /\ [][CQ!Next]_(CQ!vars)

\* What the assertions of the debug build say, of every client.
\* assert(item) in Channel_recv and Channel_safe_consume
ItemAsserted == fault # "null_item"
\* assert(self->rflag > 0) in Channel_incr_recvx
RflagAsserted == [][recvx' # recvx => rflag > 0]_vars
=============================================================================
