----------------------------- MODULE SortedDict -----------------------------
(***************************************************************************)
(* What a ctools.SortedMap promises to a client that keeps to the          *)
(* contract: a dictionary that knows its least and its greatest key and    *)
(* lists its keys in order.                                                *)
(*                                                                         *)
(* A call is asked with its arguments, takes effect in one step, and the   *)
(* answer is about the key it was asked about.  The three exceptions can   *)
(* be seen in the steps below: update() takes effect entry by entry, in    *)
(* the order given, until one fails; setdefault() and setnx() put without  *)
(* looking again, so that a value put meanwhile by their callback or by    *)
(* another call is replaced; and a removed entry still counts in len()     *)
(* until its key and its value are gone.                                   *)
(***************************************************************************)
EXTENDS Integers, FiniteSets, Sequences

CONSTANTS Keys, Values,
          Callers,  \* those that may be inside a call at the same time
          NULL      \* no key, no value

VARIABLES dict,    \* a function from the keys present to their values
          leaving, \* how many removed entries are still being released
          call,    \* what each caller has asked for and not been answered
          result,  \* what the call that returned in the last step told its caller
          broken   \* the client has broken the contract

vars == <<dict, leaving, call, result, broken>>

Call(op, key, val, todo) == [op |-> op, key |-> key, val |-> val, todo |-> todo]
Bare(op) == Call(op, NULL, NULL, <<>>)
Answer(op, out) == [op |-> op, out |-> out]
Pending == Answer("pending", <<>>)

Init == /\ dict = [k \in {} |-> 0]
        /\ leaving = 0
        /\ call = [c \in Callers |-> Bare("idle")]
        /\ result = Pending
        /\ broken \in BOOLEAN

Present == DOMAIN dict
Set(k, v) == dict' = [j \in Present \cup {k} |-> IF j = k THEN v ELSE dict[j]]
Unset(k) == dict' = [j \in Present \ {k} |-> dict[j]]
IsLeast(k) == \A j \in Present : k <= j
IsGreatest(k) == \A j \in Present : k >= j
IsListing(s) == /\ Len(s) = Cardinality(Present)
                /\ {s[i] : i \in 1..Len(s)} = Present
                /\ \A i \in 1..Len(s)-1 : s[i] < s[i + 1]

Held == <<dict, leaving>>
Free(c) == call[c].op = "idle"
Asks(c, p) == call' = [call EXCEPT ![c] = p]
Done(c) == Asks(c, Bare("idle"))

\* update() with these entries: the first is being put, the others are to do
Updating(entries) == Call("update", entries[1][1], entries[1][2], Tail(entries))

-----------------------------------------------------------------------------
(* A call begins, goes on without a visible effect, or raises *)

Ask(c) ==
  /\ Free(c)
  /\ \/ \E k \in Keys, op \in {"get", "remove", "setnx"} : Asks(c, Call(op, k, NULL, <<>>))
     \/ \E k \in Keys, v \in Values, op \in {"put", "setdefault"} : Asks(c, Call(op, k, v, <<>>))
     \/ \E op \in {"popitem", "min", "max", "keys", "items"} : Asks(c, Bare(op))
  /\ result' = Pending
  /\ UNCHANGED Held

\* the entries given, all of them, are those it is going to put
AskUpdate(c) ==
  /\ Free(c)
  /\ result'.op = "asked"
  /\ Asks(c, Updating(result'.out))
  /\ UNCHANGED Held

UpdateNothing(c) ==
  /\ Free(c)
  /\ result' = Answer("update", <<>>)
  /\ UNCHANGED <<Held, call>>

Quiet == /\ result' = Pending
         /\ UNCHANGED <<Held, call>>

Fails(c) == /\ call[c].op \notin {"idle", "removed", "cleared"}
            /\ Done(c)
            /\ result' = Answer("error", <<>>)
            /\ UNCHANGED Held

-----------------------------------------------------------------------------
(* Effects and answers *)

Found(c) == /\ call[c].op \in {"get", "setdefault", "setnx"}
            /\ call[c].key \in Present
            /\ result' = Answer(call[c].op, <<dict[call[c].key]>>)
            /\ Done(c)
            /\ UNCHANGED Held

NotFound(c) == /\ call[c].op \in {"get", "remove"}
               /\ call[c].key \notin Present
               /\ result' = Answer(call[c].op, <<>>)
               /\ Done(c)
               /\ UNCHANGED Held

\* setdefault() and setnx() have not found the key; they are going to put it
Missing(c) ==
  /\ call[c].key \notin Present
  /\ \/ /\ call[c].op = "setdefault"
        /\ Asks(c, Call("setdefault_put", call[c].key, call[c].val, <<>>))
     \/ /\ call[c].op = "setnx"
        /\ \E v \in Values : Asks(c, Call("setnx_put", call[c].key, v, <<>>))
  /\ result' = Pending
  /\ UNCHANGED Held

PutAnswer(p) ==
  CASE p.op \in {"put", "update"} -> Answer(p.op, <<>>)
    [] p.op = "setdefault_put" -> Answer("setdefault", <<p.val>>)
    [] p.op = "setnx_put" -> Answer("setnx", <<p.val>>)

\* the entry is put, whether or not the key is there
Put(c) ==
  /\ call[c].op \in {"put", "setdefault_put", "setnx_put", "update"}
  /\ Set(call[c].key, call[c].val)
  /\ IF call[c].todo = <<>>
     THEN Done(c) /\ result' = PutAnswer(call[c])
     ELSE Asks(c, Updating(call[c].todo)) /\ result' = Pending
  /\ UNCHANGED leaving

Remove(c, k) ==
  /\ k \in Present
  /\ \/ /\ call[c].op = "remove" /\ call[c].key = k
        /\ result' = Answer("remove", <<dict[k]>>)
     \/ /\ call[c].op = "popitem" /\ IsLeast(k)
        /\ result' = Answer("popitem", <<k, dict[k]>>)
  /\ Unset(k)
  /\ leaving' = leaving + 1
  /\ Asks(c, Bare("removed"))

\* what was removed or cleared is gone, and the call is over
Released(c) ==
  /\ \/ call[c].op = "removed" /\ leaving' = leaving - 1
     \/ call[c].op = "cleared" /\ leaving' = 0
  /\ Done(c)
  /\ result' = Pending
  /\ UNCHANGED dict

Peek(c, k) ==
  /\ k \in Present
  /\ \/ call[c].op = "min" /\ IsLeast(k)
     \/ call[c].op = "max" /\ IsGreatest(k)
  /\ result' = Answer(call[c].op, <<k, dict[k]>>)
  /\ Done(c)
  /\ UNCHANGED Held

PeekEmpty(c) ==
  /\ Free(c)
  /\ Present = {}
  /\ result' \in {Answer(op, <<>>) : op \in {"popitem", "min", "max"}}
  /\ UNCHANGED <<Held, call>>

Count(c) ==
  /\ Free(c)
  /\ result' = Answer("len", <<Cardinality(Present) + leaving>>)
  /\ UNCHANGED <<Held, call>>

List(c) ==
  /\ call[c].op \in {"keys", "items"}
  /\ result'.op = call[c].op
  /\ IsListing(result'.out)
  /\ Done(c)
  /\ UNCHANGED Held

Clear(c) ==
  /\ Free(c)
  /\ result' = Answer("clear", <<>>)
  /\ \/ /\ Present = {} /\ leaving = 0
        /\ UNCHANGED <<Held, call>>
     \/ /\ dict' = [k \in {} |-> 0]
        /\ leaving' = leaving + Cardinality(Present)
        /\ Asks(c, Bare("cleared"))

-----------------------------------------------------------------------------

Step(c) == \/ Ask(c) \/ AskUpdate(c) \/ UpdateNothing(c) \/ Fails(c)
           \/ Found(c) \/ NotFound(c) \/ Missing(c) \/ Put(c) \/ Released(c)
           \/ PeekEmpty(c) \/ Count(c) \/ List(c) \/ Clear(c)
           \/ \E k \in Keys : Remove(c, k) \/ Peek(c, k)

Kept == /\ broken' = FALSE
        /\ Quiet \/ \E c \in Callers : Step(c)

Next == (~broken /\ Kept) \/ broken'

Spec == Init /\ [][Next]_vars
=============================================================================
