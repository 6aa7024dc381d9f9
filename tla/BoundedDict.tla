---------------------------- MODULE BoundedDict ----------------------------
(***************************************************************************)
(* What a ctools.CacheMap promises to a client that keeps to the contract: *)
(* a dictionary with a capacity, in which an entry is put only when there  *)
(* is room, and from which an entry vanishes on its own only while a call  *)
(* puts a new one into a full cache, or lowers the capacity.               *)
(*                                                                         *)
(* A call is asked with its arguments, takes effect in one step, and the   *)
(* answer is about the key it was asked about.  Which entry vanishes is    *)
(* left open; so is when, between the call that asks for room and its      *)
(* return.  As in SortedDict, setdefault() and setnx() replace what has    *)
(* been put since they looked, and update() takes effect entry by entry.   *)
(* evict() of an empty cache is one of the calls that can be answered: the *)
(* doc of evict() promises an error there.                                 *)
(***************************************************************************)
EXTENDS Integers, FiniteSets, Sequences

CONSTANTS Keys, Values, Capacities,
          Callers,  \* those that may be inside a call at the same time
          NULL      \* no key, no value

VARIABLES dict,     \* a function from the keys present to their values
          capacity,
          call,     \* what each caller has asked for and not been answered
          result,   \* what the call that returned in the last step told its caller
          broken    \* the client has broken the contract

vars == <<dict, capacity, call, result, broken>>

Call(op, key, val, todo) == [op |-> op, key |-> key, val |-> val, todo |-> todo]
Bare(op) == Call(op, NULL, NULL, <<>>)
Answer(op, out) == [op |-> op, out |-> out]
Pending == Answer("pending", <<>>)

Init == /\ dict = [k \in {} |-> 0]
        /\ capacity \in Capacities
        /\ call = [c \in Callers |-> Bare("idle")]
        /\ result = Pending
        /\ broken \in BOOLEAN

Present == DOMAIN dict
Size == Cardinality(Present)
Set(k, v) == dict' = [j \in Present \cup {k} |-> IF j = k THEN v ELSE dict[j]]
Unset(k) == dict' = [j \in Present \ {k} |-> dict[j]]

Held == <<dict, capacity>>
Puts == {"put", "setdefault", "setnx", "update"}
Free(c) == call[c].op = "idle"
Asks(c, p) == call' = [call EXCEPT ![c] = p]
Done(c) == Asks(c, Bare("idle"))
Updating(entries) == Call("update", entries[1][1], entries[1][2], Tail(entries))

-----------------------------------------------------------------------------
(* A call begins, goes on without a visible effect, or raises *)

\* what can be asked: setdefault() and setnx() are going to put only what they
\* have not found
Asked ==
  [op : {"put"}, key : Keys, val : Values, todo : {<<>>}]
  \cup [op : {"setdefault", "setnx"}, key : Keys \ Present, val : Values, todo : {<<>>}]
  \cup [op : {"evict", "next_evict_key", "popitem"}, key : {NULL}, val : {NULL}, todo : {<<>>}]
  \cup [op : {"set_capacity"}, key : {NULL}, val : {n \in Capacities : n < Size}, todo : {<<>>}]

Ask(c) ==
  /\ result' = Pending
  /\ Free(c)
  /\ call'[c] \in Asked
  /\ Asks(c, call'[c])
  /\ UNCHANGED Held

\* the entries given, all of them, are those it is going to put
AskUpdate(c) ==
  /\ result'.op = "asked"
  /\ Free(c)
  /\ Asks(c, Updating(result'.out))
  /\ UNCHANGED Held

UpdateNothing(c) ==
  /\ result' = Answer("update", <<>>)
  /\ Free(c)
  /\ UNCHANGED <<Held, call>>

Quiet == result' = Pending /\ UNCHANGED <<Held, call>>

Fails(c) == /\ result' = Answer("error", <<>>)
            /\ ~Free(c)
            /\ Done(c)
            /\ UNCHANGED Held

-----------------------------------------------------------------------------
(* Effects and answers *)

\* the calls that only look: those that want a value, and those that would
\* have removed the key or put a default if there were one
Look(c, k) ==
  /\ \/ /\ k \in Present
        /\ result' \in {Answer(op, <<k, dict[k]>>) : op \in {"get", "setdefault", "setnx"}}
     \/ /\ k \notin Present
        /\ result' \in {Answer(op, <<k, NULL>>) : op \in {"get", "setdefault", "delete", "pop"}}
  /\ Free(c)
  /\ UNCHANGED <<Held, call>>

PutAnswer(p) ==
  Answer(p.op, IF p.op \in {"setdefault", "setnx"} THEN <<p.key, p.val>> ELSE <<>>)

Put(c) ==
  /\ call[c].op \in Puts
  /\ call[c].key \in Present \/ Size < capacity
  /\ Set(call[c].key, call[c].val)
  /\ IF call[c].todo = <<>>
     THEN Done(c) /\ result' = PutAnswer(call[c])
     ELSE Asks(c, Updating(call[c].todo)) /\ result' = Pending
  /\ UNCHANGED capacity

\* an entry vanishes to make room for a new one, or for a lower capacity
MakeRoom(c, k) ==
  /\ result' = Pending
  /\ k \in Present
  /\ \/ call[c].op \in Puts /\ call[c].key \notin Present /\ Size >= capacity
     \/ call[c].op = "set_capacity" /\ Size > call[c].val
  /\ Unset(k)
  /\ UNCHANGED <<capacity, call>>

\* ... or because a client asked for it
Evict(c, k) ==
  /\ k \in Present
  /\ \/ result' = Answer("evict", <<k>>) /\ call[c].op = "evict"
     \/ result' = Answer("popitem", <<k, dict[k]>>) /\ call[c].op = "popitem"
  /\ Unset(k)
  /\ Done(c)
  /\ UNCHANGED capacity

Delete(c, k) ==
  /\ k \in Present
  /\ result' = Answer("delete", <<k, dict[k]>>)
  /\ Free(c)
  /\ Unset(k)
  /\ UNCHANGED <<capacity, call>>

NextEvictKey(c, k) ==
  /\ k \in Present
  /\ result' = Answer("next_evict_key", <<k>>)
  /\ \/ Free(c) /\ UNCHANGED call
     \/ call[c].op = "next_evict_key" /\ Done(c)
  /\ UNCHANGED Held

FoundEmpty(c) ==
  /\ result' \in {Answer(op, <<>>) : op \in {"evict", "next_evict_key", "popitem"}}
  /\ Free(c)
  /\ Present = {}
  /\ UNCHANGED <<Held, call>>

Items(c) ==
  /\ result'.op = "items"
  /\ Free(c)
  /\ Len(result'.out) = Size
  /\ {result'.out[i] : i \in 1..Len(result'.out)} = {<<k, dict[k]>> : k \in Present}
  /\ UNCHANGED <<Held, call>>

\* the capacity holds as soon as the call that sets it returns
SetCapacity(c, n) ==
  /\ Size <= n /\ capacity' = n
  /\ \/ /\ Free(c)
        /\ result' \in {Answer("set_capacity", <<n>>), Answer("init", <<n>>)}
        /\ UNCHANGED call
     \/ /\ call[c].op = "set_capacity" /\ call[c].val = n
        /\ result' = Answer("set_capacity", <<n>>)
        /\ Done(c)
  /\ UNCHANGED dict

Clear(c) ==
  /\ result' = Answer("clear", <<>>)
  /\ Free(c)
  /\ dict' = [k \in {} |-> 0]
  /\ UNCHANGED <<capacity, call>>

-----------------------------------------------------------------------------

Step(c) == \/ Ask(c) \/ AskUpdate(c) \/ UpdateNothing(c) \/ Fails(c) \/ Put(c)
           \/ FoundEmpty(c) \/ Items(c) \/ Clear(c)
           \/ \E k \in Keys : Look(c, k) \/ MakeRoom(c, k) \/ Evict(c, k)
                              \/ Delete(c, k) \/ NextEvictKey(c, k)
           \/ \E n \in Capacities : SetCapacity(c, n)

Kept == /\ broken' = FALSE
        /\ Quiet \/ \E c \in Callers : Step(c)

Next == (~broken /\ Kept) \/ broken'

Spec == Init /\ [][Next]_vars
=============================================================================
