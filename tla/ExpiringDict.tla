---------------------------- MODULE ExpiringDict ----------------------------
(***************************************************************************)
(* What a ctools.TTLCache promises to a client that keeps to the contract: *)
(* a dictionary whose entries vanish on their own, in terms of the times a *)
(* client can observe.  An entry that was made at one tick and put at      *)
(* another, the same or later, with a ttl in seconds, stays for ttl        *)
(* seconds from when it was made, and is not found ttl + 1 seconds after   *)
(* it was put.  What happens between the two is left open.                 *)
(*                                                                         *)
(* A call is asked with its arguments, takes effect in one step, and the   *)
(* answer is about the key it was asked about.  items() and popitem()      *)
(* answer every entry, the expired ones too.  As in SortedDict,            *)
(* setdefault() and setnx() replace what has been put since they looked,   *)
(* and update() takes effect entry by entry.                               *)
(***************************************************************************)
EXTENDS Integers, Sequences

CONSTANTS Keys, Values, Ttls,
          Second,   \* ticks in a second
          Callers,  \* those that may be inside a call at the same time
          NULL      \* no key, no value

VARIABLES dict,    \* a function from the keys present to their entries
          now,     \* the tick of the clock
          call,    \* what each caller has asked for and not been answered
          result,  \* what the call that returned in the last step told its caller
          broken   \* the client has broken the contract

vars == <<dict, now, call, result, broken>>

Call(op, key, val, todo) == [op |-> op, key |-> key, val |-> val, todo |-> todo]
Bare(op) == Call(op, NULL, NULL, <<>>)
Answer(op, out) == [op |-> op, out |-> out]
Pending == Answer("pending", <<>>)

Init == /\ dict = [k \in {} |-> 0]
        /\ now = 0
        /\ call = [c \in Callers |-> Bare("idle")]
        /\ result = Pending
        /\ broken \in BOOLEAN

Present == DOMAIN dict
Unset(k) == dict' = [j \in Present \ {k} |-> dict[j]]

MayVanish(e) == now > e.made + e.ttl * Second
MayBeFound(e) == now < e.put + (e.ttl + 1) * Second

Held == <<dict, now>>
Puts == {"put", "setdefault", "update"}
Free(c) == call[c].op = "idle"
Asks(c, p) == call' = [call EXCEPT ![c] = p]
Done(c) == Asks(c, Bare("idle"))
Updating(entries) == Call("update", entries[1][1], entries[1][2], Tail(entries))

-----------------------------------------------------------------------------
(* A call begins, goes on without a visible effect, or raises *)

\* what is asked and not answered at once: setdefault() only if it has found
\* nothing, or an entry that it lets vanish first
Gone(k) == k \notin Present \/ MayVanish(dict[k])

Asked ==
  [op : {"put"}, key : Keys, val : Values, todo : {<<>>}]
  \cup [op : {"setdefault"}, key : {k \in Keys : Gone(k)}, val : Values, todo : {<<>>}]
  \cup [op : {"get"}, key : {k \in Present : MayVanish(dict[k])}, val : {NULL}, todo : {<<>>}]
  \cup [op : {"pop"}, key : Present, val : {NULL}, todo : {<<>>}]
  \cup {Bare("popitem")}

Ask(c) ==
  /\ result' = Pending
  /\ Free(c)
  /\ call'[c] \in Asked
  /\ Asks(c, call'[c])
  /\ UNCHANGED Held

\* the entries given, all of them, are those it is going to put
AskUpdate(c) ==
  /\ result'.op = "asked"
  /\ Free(c)
  /\ Asks(c, Updating(result'.out))
  /\ UNCHANGED Held

UpdateNothing(c) ==
  /\ result' = Answer("update", <<>>)
  /\ Free(c)
  /\ UNCHANGED <<Held, call>>

SetTtl(c) ==
  /\ result' = Answer("set_default_ttl", <<>>)
  /\ Free(c)
  /\ UNCHANGED <<Held, call>>

Quiet == result' = Pending /\ UNCHANGED <<Held, call>>

Fails(c) == /\ result' = Answer("error", <<>>)
            /\ ~Free(c)
            /\ Done(c)
            /\ UNCHANGED Held

Tick == now' = now + 1 /\ result' = Pending /\ UNCHANGED <<dict, call>>

-----------------------------------------------------------------------------
(* Effects and answers *)

Look(c, k) ==
  /\ \/ /\ k \in Present
        /\ result' \in {Answer(op, <<k, dict[k].value>>) : op \in {"get", "setdefault"}}
        /\ MayBeFound(dict[k])
     \/ /\ k \notin Present
        /\ result' \in {Answer(op, <<k, NULL>>) : op \in {"get", "pop", "delete"}}
  /\ Free(c)
  /\ UNCHANGED <<Held, call>>

PutAnswer(p) == Answer(p.op, IF p.op = "setdefault" THEN <<p.key, p.val>> ELSE <<>>)

\* e is what the key is put with at this tick; it may have been made earlier
PutEntry(k, v, e) ==
  /\ e \in [value : {v}, ttl : Ttls, made : 0..now, put : {now}]
  /\ dict' = [j \in Present \cup {k} |-> IF j = k THEN e ELSE dict[j]]

Put(c) ==
  /\ call[c].op \in Puts
  /\ call[c].key \in Present'
  /\ PutEntry(call[c].key, call[c].val, dict'[call[c].key])
  /\ IF call[c].todo = <<>>
     THEN Done(c) /\ result' = PutAnswer(call[c])
     ELSE Asks(c, Updating(call[c].todo)) /\ result' = Pending
  /\ UNCHANGED now

\* an expired entry vanishes when it is looked for
Vanish(c) ==
  /\ call[c].op \in {"get", "pop", "setdefault"}
  /\ call[c].key \in Present /\ MayVanish(dict[call[c].key])
  /\ Unset(call[c].key)
  /\ IF call[c].op = "setdefault"
     THEN UNCHANGED call /\ result' = Pending
     ELSE Done(c) /\ result' = Answer(call[c].op, <<call[c].key, NULL>>)
  /\ UNCHANGED now

Delete(c, k) ==
  /\ k \in Present
  /\ result' = Answer("delete", <<k>>)
  /\ Free(c)
  /\ Unset(k)
  /\ UNCHANGED <<now, call>>

PopItem(c, k) ==
  /\ call[c].op = "popitem" /\ k \in Present
  /\ result' = Answer("popitem", <<k, dict[k].value>>)
  /\ Unset(k)
  /\ Done(c)
  /\ UNCHANGED now

FoundEmpty(c) ==
  /\ result' = Answer("popitem", <<>>)
  /\ Free(c)
  /\ Present = {}
  /\ UNCHANGED <<Held, call>>

Items(c) ==
  /\ result'.op = "items" /\ result'.out = {<<k, dict[k].value>> : k \in Present}
  /\ Free(c)
  /\ UNCHANGED <<Held, call>>

Clear(c) ==
  /\ result' = Answer("clear", <<>>)
  /\ Free(c)
  /\ dict' = [k \in {} |-> 0]
  /\ UNCHANGED <<now, call>>

-----------------------------------------------------------------------------

Step(c) == \/ Ask(c) \/ AskUpdate(c) \/ UpdateNothing(c) \/ SetTtl(c) \/ Fails(c)
           \/ Put(c) \/ Vanish(c) \/ FoundEmpty(c) \/ Items(c) \/ Clear(c)
           \/ \E k \in Keys : Look(c, k) \/ Delete(c, k) \/ PopItem(c, k)

Acts == Tick \/ Quiet \/ \E c \in Callers : Step(c)

Next == (~broken /\ ~broken' /\ Acts) \/ broken'

Spec == Init /\ [][Next]_vars
=============================================================================
