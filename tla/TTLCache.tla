------------------------------ MODULE TTLCache ------------------------------
(***************************************************************************)
(* ctools.TTLCache, src/src/ttlcache.c: a dict of entries that expire, and *)
(* that are deleted when they are looked up after that.                    *)
(*                                                                         *)
(* As in CacheMap, Python code, and through it any other call, may run in  *)
(* every dict operation, in the allocations, in the callback of setnx()    *)
(* and in the destructors of what is dropped; a dict operation takes       *)
(* effect in one step, after the Python code it runs.                      *)
(*                                                                         *)
(* The clock ticks more often than time() changes, so that an entry can be *)
(* made and looked up at any point of a second.                            *)
(***************************************************************************)
EXTENDS Integers, FiniteSets, Sequences

CONSTANTS Keys, Values,
          NULL,     \* the NULL pointer, or no value
          Callers,  \* frames that may be inside a method at the same time
          Ttls,     \* what a ttl is set to, in seconds
          Updates,  \* the arguments of update(): pairs of entry sequences
          Second,   \* ticks in a second
          IntMax,   \* the largest int64_t
          MaxNow    \* bound of the clock

ASSUME NullAssumption ==
  /\ NULL \notin Keys \cup Values
  /\ NULL \notin [value : Values, expire : Int, freed : BOOLEAN, ttl : Ttls,
                 made : Nat, put : Nat]
ASSUME UpdatesAssumption == Updates \subseteq Seq(Keys \X Values) \X Seq(Keys \X Values)
ASSUME TimeAssumption ==
  /\ Second \in Nat \ {0} /\ IntMax \in Nat /\ Ttls \subseteq 1..IntMax
  /\ MaxNow \in Nat /\ MaxNow \div Second <= IntMax

VARIABLES entry,        \* per key, its entry or NULL
          default_ttl,
          now,          \* the tick of the clock
          call,         \* per caller, the method it is inside and its locals
          result,       \* ghost: what the method that returned in the last step answered
          breach,       \* ghost: how the clients have broken the contract
          fault         \* ghost: the first memory error, or "abort"

vars == <<entry, default_ttl, now, call, result, breach, fault>>

\* An entry: its value and the last second it is alive in.  Ghosts: its value
\* has been released and is being destroyed; its ttl, when it was made and
\* when it was put.
Entry(v, expire, ttl, made, put) ==
  [value |-> v, expire |-> expire, freed |-> FALSE, ttl |-> ttl, made |-> made, put |-> put]
Present == {k \in Keys : entry[k] # NULL}

\* A frame: where in its method it is, the key and the value it is to put or
\* has found, the entries update() has left, and of the entry it has made the
\* ttl, the expiry and, a ghost, the time.
Frame(op, at, key, val, todo) ==
  [op |-> op, at |-> at, key |-> key, val |-> val, todo |-> todo,
   ttl |-> 0, expire |-> 0, made |-> 0]
Idle == Frame("idle", "idle", NULL, NULL, <<>>)
Answer(op, out) == [op |-> op, out |-> out]
Pending == Answer("pending", <<>>)

\* TTLCache(ttl)
Init == /\ entry = [k \in Keys |-> NULL]
        /\ default_ttl \in Ttls
        /\ now = 0
        /\ call = [c \in Callers |-> Idle]
        /\ result = Pending
        /\ breach = {}
        /\ fault = "none"

Running == fault = "none"
CanCall(c) == Running /\ call[c] = Idle
Inside(c, at) == Running /\ call[c].at = at
Goes(c, f) == call' = [call EXCEPT ![c] = f]
Returns(c) == Goes(c, Idle)
At(f, at) == [f EXCEPT !.at = at]

\* time() in seconds; the clock is never set back
NOW == now \div Second
Tick == /\ now < MaxNow
        /\ now' = now + 1
        /\ result' = Pending
        /\ UNCHANGED <<entry, default_ttl, call, breach, fault>>

-----------------------------------------------------------------------------
(* The contract: an entry is not read, replaced or removed by one call     *)
(* while another one is about to delete it or to answer it as a pair, or   *)
(* has released its value; pop() deletes nothing; a ttl is short enough    *)
(* for the expiry to fit an int64_t; and no hash raises when an expired    *)
(* entry is deleted, nor when popitem() deletes its entry.                 *)
(* Calls for other keys may overlap in any way.                            *)

Delicate == {"expired", "pop", "store", "first", "pair"}
Changes(c, ks) ==
  IF \E d \in Callers \ {c} : call[d].at \in Delicate /\ call[d].key \in ks
  THEN {"overlap"} ELSE {}

\* Values that have been released: reading one is a use after free, releasing
\* its entry or its value again a double free.
Freed(ks) == \E k \in ks \cap Present : entry[k].freed
Storing(ks) == \E d \in Callers : call[d].at = "store" /\ call[d].key \in ks
Reads(ks) == /\ fault' = IF Freed(ks) THEN "freed_value" ELSE fault
             /\ breach' = IF Storing(ks) THEN breach \cup {"overlap"} ELSE breach
Releases(c, ks) == /\ fault' = IF Freed(ks) THEN "double_free" ELSE fault
                   /\ breach' = breach \cup Changes(c, ks)
Drop(c, ks) == /\ entry' = [k \in Keys |-> IF k \in ks THEN NULL ELSE entry[k]]
               /\ Releases(c, ks)

-----------------------------------------------------------------------------
(* TTLCache_GetTTLItemWithError *)

\* Definitions named ...Slip or ...Early are plausible slips in the code of the
\* definition they precede; no behaviour of the model uses them.
ExpiredSlip(k) == entry[k].expire + 1 < NOW
ExpiredEarly(k) == entry[k].expire <= NOW
Expired(k) == entry[k].expire < NOW

\* what a method goes on with when its key is not there
Missed(c, f) ==
  IF f.op = "setdefault"
  THEN Goes(c, At(f, "lookup")) /\ result' = Pending
  ELSE Returns(c) /\ result' = Answer(f.op, <<f.key, NULL>>)

\* get() (and [] and in, which does not read the value), pop() and setdefault()
\* (and setnx(), which puts what its callback answers) find an entry and answer
\* its value (pop() goes on to delete it), or find none, or find an expired one
\* that they are going to delete.
Find(c, op, k, v) ==
  LET f == Frame(op, "lookup", k, v, <<>>) IN
  /\ CanCall(c)
  /\ \/ /\ k \notin Present
        /\ Missed(c, f)
        /\ UNCHANGED <<breach, fault>>
     \/ /\ k \in Present /\ Expired(k)
        /\ Goes(c, At(f, "expired"))
        /\ result' = Pending
        /\ UNCHANGED <<breach, fault>>
     \/ /\ k \in Present /\ ~Expired(k)
        /\ Reads({k})
        /\ IF op = "pop"
           THEN Goes(c, At(f, "pop")) /\ result' = Pending
           ELSE result' = Answer(op, <<k, entry[k].value>>) /\ UNCHANGED call
  /\ UNCHANGED <<entry, default_ttl, now>>

\* The expired entry is deleted: whatever the key has by now, or nothing, or
\* its hash raises, which calls abort().
Expire(c) ==
  LET f == call[c] IN
  /\ Inside(c, "expired")
  /\ \/ /\ f.key \in Present
        /\ Drop(c, {f.key})
        /\ Missed(c, f)
     \/ /\ fault' = "abort"
        /\ breach' = IF f.key \in Present THEN breach \cup {"raised"} ELSE breach
        /\ result' = Pending
        /\ UNCHANGED <<entry, call>>
  /\ UNCHANGED <<default_ttl, now>>

\* pop() mistakes the success of the delete for an error, and a key that has
\* gone meanwhile for a success: it reads the value again from the entry, which
\* has been freed, and returns it or NULL without an exception.
PopEnd(c) ==
  LET k == call[c].key IN
  /\ Inside(c, "pop")
  /\ entry' = [entry EXCEPT ![k] = NULL]
  /\ fault' = "freed_entry"
  /\ breach' = breach \cup {"pop"}
  /\ Returns(c)
  /\ result' = Answer("error", <<>>)
  /\ UNCHANGED <<default_ttl, now>>

-----------------------------------------------------------------------------
(* TTLCache_SetItem, and the methods that put *)

WrapSlip(n) == n
Wrap(n) == IF n > IntMax THEN n - 2 * (IntMax + 1) ELSE n
Huge(ttl) == IF NOW + ttl > IntMax THEN {"huge"} ELSE {}

Puts == {"put", "setdefault", "update"}

\* update() is to put the first of these entries
Updating(todo) == Frame("update", "lookup", todo[1][1], todo[1][2], Tail(todo))

\* what a method that has put its entry does next
PutDone(c, f) ==
  IF f.todo # <<>>
  THEN Goes(c, Updating(f.todo)) /\ result' = Pending
  ELSE /\ Returns(c)
       /\ result' = Answer(f.op, IF f.op = "setdefault" THEN <<f.key, f.val>> ELSE <<>>)

\* TTLCache_update: as in SortedMap, one cursor walks both dicts.  result is
\* what it was asked for, of which todo is what it is going to put.
Update(c, arg, kw) ==
  /\ CanCall(c)
  /\ LET todo == arg \o SubSeq(kw, Len(arg) + 1, Len(kw))
     IN IF todo = <<>>
        THEN result' = Answer("update", arg \o kw) /\ UNCHANGED call
        ELSE Goes(c, Updating(todo)) /\ result' = Answer("asked", arg \o kw)
  /\ UNCHANGED <<entry, default_ttl, now, breach, fault>>

StoreSlip(c, f) ==
  /\ entry' = [entry EXCEPT ![f.key].value = f.val, ![f.key].freed = FALSE,
                            ![f.key].ttl = default_ttl, ![f.key].made = now,
                            ![f.key].put = now]
  /\ breach' = breach \cup Changes(c, {f.key}) \cup Huge(default_ttl)
  /\ PutDone(c, f)

\* the entry that is there gets the new value and another expiry
Store(c, f) ==
  /\ entry' = [entry EXCEPT
                 ![f.key] = Entry(f.val, Wrap(NOW + default_ttl), default_ttl, now, now)]
  /\ breach' = breach \cup Changes(c, {f.key}) \cup Huge(default_ttl)
  /\ PutDone(c, f)

\* cache[k] = v
PutBegin(c, k, v) ==
  /\ CanCall(c)
  /\ Goes(c, Frame("put", "lookup", k, v, <<>>))
  /\ result' = Pending
  /\ UNCHANGED <<entry, default_ttl, now, breach, fault>>

\* The key is looked up.  An entry that is there, expired or not, has its old
\* value released first: the new one is stored at once if the old one has other
\* owners, and after its destructors have run otherwise.  For a key that is not
\* there an entry with the ttl of now is going to be made.
SetItem(c) ==
  LET f == call[c] IN
  /\ Inside(c, "lookup")
  /\ \/ /\ f.key \in Present /\ ~Freed({f.key})
        /\ Store(c, f)
        /\ UNCHANGED fault
     \/ /\ f.key \in Present
        /\ Releases(c, {f.key})
        /\ entry' = [entry EXCEPT ![f.key].freed = TRUE]
        /\ Goes(c, At(f, "store"))
        /\ result' = Pending
     \/ /\ f.key \notin Present
        /\ Goes(c, [f EXCEPT !.at = "alloc", !.ttl = default_ttl])
        /\ result' = Pending
        /\ UNCHANGED <<entry, breach, fault>>
  /\ UNCHANGED <<default_ttl, now>>

ReplaceEndSlip(c) ==
  /\ Inside(c, "store")
  /\ PutDone(c, call[c])
  /\ UNCHANGED <<entry, default_ttl, now, breach, fault>>

ReplaceEnd(c) ==
  /\ Inside(c, "store")
  /\ Store(c, call[c])
  /\ UNCHANGED <<default_ttl, now, fault>>

\* ... it is allocated and its expiry computed ...
Make(c) ==
  LET f == call[c] IN
  /\ Inside(c, "alloc")
  /\ Goes(c, [f EXCEPT !.at = "insert", !.expire = Wrap(NOW + f.ttl), !.made = now])
  /\ result' = Pending
  /\ breach' = breach \cup Huge(f.ttl)
  /\ UNCHANGED <<entry, default_ttl, now, fault>>

\* ... and it is put, in the place of one that has been put meanwhile.
Insert(c) ==
  LET f == call[c] IN
  /\ Inside(c, "insert")
  /\ entry' = [entry EXCEPT ![f.key] = Entry(f.val, f.expire, f.ttl, f.made, now)]
  /\ Releases(c, {f.key} \cap Present)
  /\ PutDone(c, f)
  /\ UNCHANGED <<default_ttl, now>>

\* A hash, a comparison, an allocation or the callback raised.  (pop() answers
\* a value with the error set, which is an error.)
Fails(c) ==
  /\ \/ Inside(c, "lookup") \/ Inside(c, "alloc") \/ Inside(c, "insert") \/ Inside(c, "pair")
     \/ Inside(c, "pop")
     \/ Inside(c, "first") /\ call[c].key \in Present
  /\ Returns(c)
  /\ result' = Answer("error", <<>>)
  /\ UNCHANGED <<entry, default_ttl, now, breach, fault>>

-----------------------------------------------------------------------------
(* The other methods: none looks at the expiry *)

SetDefaultTtl(c, n) ==
  /\ CanCall(c)
  /\ default_ttl' = n
  /\ result' = Answer("set_default_ttl", <<>>)
  /\ UNCHANGED <<entry, now, call, breach, fault>>

\* del cache[k]
Delete(c, k) ==
  /\ CanCall(c)
  /\ IF k \in Present
     THEN Drop(c, {k}) /\ result' = Answer("delete", <<k>>)
     ELSE result' = Answer("delete", <<k, NULL>>) /\ UNCHANGED <<entry, breach, fault>>
  /\ UNCHANGED <<default_ttl, now, call>>

\* items(), values() and keys(), which does not read the values
Items(c) ==
  /\ CanCall(c)
  /\ Reads(Present)
  /\ result' = Answer("items", {<<k, entry[k].value>> : k \in Present})
  /\ UNCHANGED <<entry, default_ttl, now, call>>

Clear(c) ==
  /\ CanCall(c)
  /\ Drop(c, Present)
  /\ result' = Answer("clear", <<>>)
  /\ UNCHANGED <<default_ttl, now, call>>

\* popitem(): the first key of a list that has been freed is looked up (any
\* key: no property depends on the order of the dict) ...
PopItemBegin(c) ==
  /\ CanCall(c)
  /\ IF Present = {}
     THEN result' = Answer("popitem", <<>>) /\ UNCHANGED call
     ELSE /\ \E k \in Present : Goes(c, Frame("popitem", "first", k, NULL, <<>>))
          /\ result' = Pending
  /\ UNCHANGED <<entry, default_ttl, now, breach, fault>>

\* ... its value is taken and a pair allocated ...
PopItemFound(c) ==
  LET k == call[c].key IN
  /\ Inside(c, "first")
  /\ IF k \in Present
     THEN Reads({k}) /\ Goes(c, Frame("popitem", "pair", k, entry[k].value, <<>>))
     ELSE fault' = "freed_key" /\ UNCHANGED <<call, breach>>
  /\ result' = Pending
  /\ UNCHANGED <<entry, default_ttl, now>>

\* ... then it is deleted, and an error of that is ignored.
PopItemEnd(c) ==
  LET f == call[c] IN
  /\ Inside(c, "pair")
  /\ \/ f.key \in Present /\ Drop(c, {f.key})
     \/ /\ breach' = IF f.key \in Present THEN breach \cup {"raised"} ELSE breach
        /\ UNCHANGED <<entry, fault>>
  /\ Returns(c)
  /\ result' = Answer("popitem", <<f.key, f.val>>)
  /\ UNCHANGED <<default_ttl, now>>

-----------------------------------------------------------------------------

Enter(c) == \/ \E k \in Keys, op \in {"get", "pop"} : Find(c, op, k, NULL)
            \/ \E k \in Keys, v \in Values : Find(c, "setdefault", k, v)
            \/ \E k \in Keys : Delete(c, k)
            \/ \E k \in Keys, v \in Values : PutBegin(c, k, v)
            \/ \E u \in Updates : Update(c, u[1], u[2])
            \/ \E n \in Ttls : SetDefaultTtl(c, n)
            \/ Items(c) \/ Clear(c) \/ PopItemBegin(c)

GoOn(c) == \/ Expire(c) \/ PopEnd(c) \/ SetItem(c) \/ ReplaceEnd(c)
           \/ Make(c) \/ Insert(c) \/ Fails(c)
           \/ PopItemFound(c) \/ PopItemEnd(c)

Next == Tick \/ \E c \in Callers : Enter(c) \/ GoOn(c)

Spec == Init /\ [][Next]_vars

-----------------------------------------------------------------------------
(* Properties *)

Seconds == -(IntMax + 1)..IntMax
Frames == [op : {"idle", "get", "pop", "setdefault", "put", "update", "popitem"},
           at : Delicate \cup {"idle", "lookup", "alloc", "insert"},
           key : Keys \cup {NULL}, val : Values \cup {NULL}, todo : Seq(Keys \X Values),
           ttl : Ttls \cup {0}, expire : Seconds, made : 0..now]
Entries == [value : Values, expire : Seconds, freed : BOOLEAN, ttl : Ttls,
            made : 0..now, put : 0..now]

\* Every variable has its type, with the width of the C fields; no entry has
\* been made or put in the future.
TypeOK ==
  /\ entry \in [Keys -> {NULL} \cup Entries]
  /\ default_ttl \in Ttls
  /\ now \in 0..MaxNow
  /\ call \in [Callers -> Frames]
  /\ breach \subseteq {"overlap", "pop", "huge", "raised"}
  /\ fault \in {"none", "abort", "freed_value", "double_free", "freed_entry", "freed_key"}

Kept == breach = {}

\* The methods that look at the expiry.
Finders == {"get", "setdefault"}

\* Whatever other calls do for other keys, and whatever they do for the same key
\* outside the few places of the contract, no call aborts the process, reads a
\* value that is being destroyed, or releases one twice.
NoFault == Kept => fault = "none"

\* An entry is not answered ttl + 1 seconds after it was put, although time()
\* is in whole seconds and the expiry is computed before the entry is put.
Fresh ==
  [][Kept' => \A k \in Present' :
       result'.op \in Finders /\ result'.out = <<k, entry'[k].value>>
         => now < entry'[k].put + (entry'[k].ttl + 1) * Second]_vars

\* An entry does not vanish, unless a client removes it, for ttl seconds after
\* it was made: neither the rounding nor the delete of an expired entry that
\* has been refreshed since it was looked up loses it earlier.
NotLost ==
  [][Kept' => \A k \in Present \ Present' :
       \/ result'.op \in {"delete", "popitem", "clear"}
       \/ now > entry[k].made + entry[k].ttl * Second]_vars

\* "A mapping that keys expire and unreachable after ``ttl`` seconds.", in the
\* doc of TTLCache, whose example is a cache of 5 seconds that does not have its
\* key any more when sleep(5) returns: ttl seconds after a value was put, or
\* later, no method answers it.
Unreachable ==
  [][\A k \in Present :
       /\ UNCHANGED fault
       /\ \/ result'.op \in Finders \cup {"popitem"} /\ result'.out = <<k, entry[k].value>>
          \/ result'.op = "items" /\ <<k, entry[k].value>> \in result'.out
       => now < entry[k].put + entry[k].ttl * Second]_vars

\* what a client can observe of the entries
Seen == [k \in Present |-> [value |-> entry[k].value, ttl |-> entry[k].ttl,
                            made |-> entry[k].made, put |-> entry[k].put]]
\* what a caller has asked for
Called(f) ==
  [op |-> f.op,
   key |-> IF f.op = "popitem" THEN NULL ELSE f.key,
   val |-> IF f.op \in Puts THEN f.val ELSE NULL,
   todo |-> IF f.op \in Puts THEN f.todo ELSE <<>>]

Calls == [c \in Callers |-> Called(call[c])]

\* No update() is asked for with both a dict and keywords: one that is drops
\* keywords, and is promised nothing.
OneDict == \A u \in Updates : u[1] = <<>> \/ u[2] = <<>>

Dict == INSTANCE ExpiringDict WITH
          dict <- Seen, call <- Calls, broken <- breach # {} \/ ~OneDict

\* The cache implements the dictionary whose entries expire.
IsExpiring == Dict!Init /\ [][Dict!Next]_(Dict!vars)
=============================================================================
