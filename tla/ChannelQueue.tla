---------------------------- MODULE ChannelQueue ----------------------------
(***************************************************************************)
(* What a ctools.Channel promises to a client that keeps to the contract:  *)
(* a bounded FIFO queue with a send side and a receive side that close(),  *)
(* called again, opens again.  An item leaves the queue when recv()        *)
(* returns it or when the callback of safe_consume() has accepted it, and  *)
(* stays at the head when the callback refuses it.  An empty recv() takes  *)
(* two steps, looking and answering; the queue was empty when it looked.   *)
(*                                                                         *)
(* A client that breaks the contract (broken), which may be by asking for  *)
(* too large a channel, is promised nothing.                               *)
(***************************************************************************)
EXTENDS Naturals, Sequences

CONSTANTS Items,    \* the objects a client may send
          NULL,     \* no object
          Callers   \* those that may be inside a call at the same time

VARIABLES cap,       \* the size given to Channel(size)
          queue,     \* the items sent and not yet taken, oldest first
          sendOpen,  \* send() is accepted
          recvOpen,  \* recv() and safe_consume() are accepted
          saw,       \* the callers whose recv() has found the queue empty
          result,    \* what the last call that returned told its caller
          broken     \* the client has broken the contract

vars == <<cap, queue, sendOpen, recvOpen, saw, result, broken>>

Answer(op, out, x) == [op |-> op, out |-> out, item |-> x]

Init == /\ cap \in Nat \ {0}
        /\ queue = <<>>
        /\ sendOpen = TRUE
        /\ recvOpen = TRUE
        /\ saw = {}
        /\ result = Answer("new", "ok", NULL)
        /\ broken \in BOOLEAN

Sides == <<sendOpen, recvOpen>>
Rest == <<sendOpen, recvOpen, saw>>

Send(x) == /\ sendOpen
           /\ Len(queue) < cap
           /\ queue' = Append(queue, x)
           /\ result' = Answer("send", "sent", NULL)
           /\ UNCHANGED Rest

SendFull == /\ sendOpen
            /\ Len(queue) = cap
            /\ result' = Answer("send", "full", NULL)
            /\ UNCHANGED <<queue, Rest>>

SendClosed == /\ ~sendOpen
              /\ result' = Answer("send", "closed", NULL)
              /\ UNCHANGED <<queue, Rest>>

\* recv() hands over the head; safe_consume() drops it once accepted.
Take(op) == /\ recvOpen
            /\ queue # <<>>
            /\ queue' = Tail(queue)
            /\ result' = Answer(op, "taken", Head(queue))
            /\ UNCHANGED Rest

\* the callback of safe_consume() is shown the head
Offer == /\ recvOpen
         /\ queue # <<>>
         /\ result' = Answer("consume", "offered", Head(queue))
         /\ UNCHANGED <<queue, Rest>>

\* the callback refused it: the head stays
Keep == /\ recvOpen
        /\ queue # <<>>
        /\ result' = Answer("consume", "kept", Head(queue))
        /\ UNCHANGED <<queue, Rest>>

ConsumeEmpty == /\ recvOpen
                /\ queue = <<>>
                /\ result' = Answer("consume", "empty", NULL)
                /\ UNCHANGED <<queue, Rest>>

\* recv() looks at an empty queue, and says so once it has its tuple
SeeEmpty(c) == /\ c \notin saw
               /\ recvOpen
               /\ queue = <<>>
               /\ saw' = saw \cup {c}
               /\ UNCHANGED <<queue, Sides, result>>

RecvEmpty(c) == /\ c \in saw
                /\ saw' = saw \ {c}
                /\ result' = Answer("recv", "empty", NULL)
                /\ UNCHANGED <<queue, Sides>>

\* recv() found no memory for the tuple: nothing is taken
Fail == /\ saw' = saw \/ \E c \in saw : saw' = saw \ {c}
        /\ result' = Answer("recv", "error", NULL)
        /\ UNCHANGED <<queue, Sides>>

TakeClosed(op) == /\ ~recvOpen
                  /\ result' = Answer(op, "closed", NULL)
                  /\ UNCHANGED <<queue, Rest>>

Clear == /\ queue' = <<>>
         /\ result' = Answer("clear", "ok", NULL)
         /\ UNCHANGED Rest

Close(s, r) == /\ sendOpen' = IF s THEN ~sendOpen ELSE sendOpen
               /\ recvOpen' = IF r THEN ~recvOpen ELSE recvOpen
               /\ result' = Answer("close", "ok", NULL)
               /\ UNCHANGED <<queue, saw>>

Poll == /\ \/ result' = Answer("sendable",
                               IF sendOpen /\ Len(queue) < cap THEN "yes" ELSE "no", NULL)
           \/ result' = Answer("recvable",
                               IF recvOpen /\ queue # <<>> THEN "yes" ELSE "no", NULL)
        /\ UNCHANGED <<queue, Rest>>

Kept == /\ broken' = FALSE
        /\ cap' = cap
        /\ \/ \E x \in Items : Send(x)
           \/ SendFull \/ SendClosed
           \/ \E op \in {"recv", "consume"} : Take(op) \/ TakeClosed(op)
           \/ \E c \in Callers : SeeEmpty(c) \/ RecvEmpty(c)
           \/ Offer \/ Keep \/ ConsumeEmpty \/ Fail
           \/ Clear
           \/ \E s, r \in BOOLEAN : Close(s, r)
           \/ Poll

Next == (~broken /\ Kept) \/ broken'

Spec == Init /\ [][Next]_vars
=============================================================================
