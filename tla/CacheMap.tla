------------------------------ MODULE CacheMap ------------------------------
(***************************************************************************)
(* ctools.CacheMap, src/src/cachemap.c: a dict of entries that count their *)
(* visits, kept within a capacity by evicting an entry for every new one.  *)
(*                                                                         *)
(* Python code, and through it any other call, may run in every dict       *)
(* operation (it hashes and compares keys), in the allocations, in the     *)
(* callback of setnx() and in the destructors of what is dropped.  A dict  *)
(* operation takes effect in one step, after the Python code it runs; call *)
(* holds what a method goes on with when it has run several.               *)
(***************************************************************************)
EXTENDS Integers, FiniteSets, Sequences

Seqs == INSTANCE SequencesExt

CONSTANTS Keys, Values,
          NULL,           \* the NULL pointer, or no argument given
          Callers,        \* frames that may be inside a method at the same time
          Capacities,     \* what capacity is set to
          Updates,        \* the arguments of update(): pairs of entry sequences
          DefaultVisits,  \* the visits of a new entry (255 in the code)
          DecayEvery,     \* minutes after which a visit is forgotten (10)
          BucketNum,      \* how many buckets a large cache is sampled in (8),
          BucketSize,     \* and how many entries make it large (256)
          MaxVisits, MaxMinutes  \* bounds of the counters

ASSUME CapacitiesAssumption == Capacities \subseteq Nat \ {0}
ASSUME NullAssumption ==
  /\ NULL \notin Keys \cup Values
  /\ NULL \notin [value : Values, visits : Nat, last : Nat]
ASSUME UpdatesAssumption == Updates \subseteq Seq(Keys \X Values) \X Seq(Keys \X Values)
ASSUME NumbersAssumption ==
  /\ DefaultVisits \in Nat \ {0} /\ DecayEvery \in Nat \ {0}
  /\ BucketNum \in Nat \ {0, 1} /\ BucketSize \in Nat /\ BucketSize >= BucketNum
  /\ MaxVisits \in Nat /\ MaxMinutes \in Nat
ASSUME FiniteAssumption == IsFiniteSet(Keys) /\ IsFiniteSet(Callers)

VARIABLES entry,   \* per key, its entry or NULL
          order,   \* the keys in the order in which the dict holds them
          capacity,
          now,     \* the clock, in minutes
          call,    \* per caller, the method it is inside and its locals
          result,  \* ghost: what the method that returned in the last step answered
          breach,  \* ghost: how the clients have broken the contract
          fault    \* ghost: the first memory error

cache == <<entry, order, capacity>>
vars == <<cache, now, call, result, breach, fault>>

Entry(v, visits, last) == [value |-> v, visits |-> visits, last |-> last]
Present == {k \in Keys : entry[k] # NULL}
Size == Cardinality(Present)

\* what a lookup of the key answers
Seen(k) == <<k, IF k \in Present THEN entry[k].value ELSE NULL>>

\* The locals of CacheMap_NextEvictKey while it samples: the time and the size
\* it has read, the list of keys, the next bucket, the least weight so far, its
\* key, and the key last looked at.
Scan(t, count, list, i, min, rv, key) ==
  [now |-> t, count |-> count, list |-> list, i |-> i, min |-> min, rv |-> rv, key |-> key]
NoScan == Scan(0, 0, <<>>, 0, 0, NULL, NULL)

\* A frame: where in its method it is, the key and the value it is to put or
\* has found, the victim of its eviction, the entries update() has left or the
\* evictions set_capacity() has, and the new capacity.
Frame(op, at, key, val, todo) ==
  [op |-> op, at |-> at, key |-> key, val |-> val, todo |-> todo,
   victim |-> NULL, left |-> 0, cap |-> 0, scan |-> NoScan]
Idle == Frame("idle", "idle", NULL, NULL, <<>>)
Answer(op, out) == [op |-> op, out |-> out]
Pending == Answer("pending", <<>>)

\* CacheMap(n); the capacity of CacheMap() is INT32_MAX
Init == /\ entry = [k \in Keys |-> NULL]
        /\ order = <<>>
        /\ capacity \in Capacities
        /\ now = 0
        /\ call = [c \in Callers |-> Idle]
        /\ result = Pending
        /\ breach = {}
        /\ fault = "none"

Running == fault = "none"
CanCall(c) == Running /\ call[c] = Idle
Inside(c, at) == Running /\ call[c].at = at
Goes(c, f) == call' = [call EXCEPT ![c] = f]
Returns(c) == Goes(c, Idle)
At(f, at) == [f EXCEPT !.at = at]

\* the clock advances; it is never set back
Tick == /\ now < MaxMinutes
        /\ now' = now + 1
        /\ result' = Pending
        /\ UNCHANGED <<cache, call, breach, fault>>

-----------------------------------------------------------------------------
(* The contract: no entry is added or removed while another call is about  *)
(* to evict, to insert or to answer a pair; the capacity is not set while  *)
(* an entry is about to be added, nor lowered by calling __init__ again;   *)
(* pop() is called for absent keys only; and no hash or list allocation    *)
(* fails where the code ignores it.                                        *)

Puts == {"put", "setdefault", "setnx", "update"}
Fragile == {"victim", "list", "sample", "insert", "again", "first", "pair"}
Changes(c) == IF \E d \in Callers \ {c} : call[d].at \in Fragile THEN {"overlap"} ELSE {}

\* Calls that will add an entry, or evict one for it, without looking at the
\* size again; calls that lower the capacity; and a capacity that is raised
\* while there are some of the first.
Adders == {c \in Callers : call[c].op \in Puts /\ call[c].at \in Fragile}
Shrinkers == {c \in Callers : call[c].op = "set_capacity"}
Grows(n) == IF n > capacity /\ Adders # {} THEN {"grow"} ELSE {}

-----------------------------------------------------------------------------
(* CacheMap_NextEvictKey *)

\* Definitions named ...Slip, and FullEarly, are plausible slips in the code of
\* the definition they precede; no behaviour of the model uses them.
WeightSlip(e, t) == e.visits

\* CacheEntry_GetWeight: unsigned arithmetic makes a visit later than t look
\* older than any other
Weight(e, t) ==
  IF e.last > t \/ e.visits <= (t - e.last) \div DecayEvery
  THEN 0 ELSE e.visits - ((t - e.last) \div DecayEvery)

WeightAt(i) == Weight(entry[order[i]], now)

\* One walk over a small cache.  A least weight of zero counts as none yet, so
\* that whatever follows an entry of weight zero replaces it.
NextEvictKey ==
  LET from  == {i \in 1..Len(order) : \A j \in i..Len(order) : WeightAt(j) > 0}
      least == {i \in from : \A j \in from : \/ WeightAt(i) < WeightAt(j)
                                             \/ WeightAt(i) = WeightAt(j) /\ i <= j}
  IN IF from = {} THEN order[Len(order)] ELSE order[CHOOSE i \in least : TRUE]

\* the key to evict has been found
Chosen(c, f, k) ==
  IF f.op = "next_evict_key"
  THEN Returns(c) /\ result' = Answer(f.op, <<k>>)
  ELSE Goes(c, [f EXCEPT !.at = "victim", !.victim = k, !.scan = NoScan]) /\ result' = Pending

\* the key is looked for in a cache that is not empty
Choosing(c, f) ==
  IF Size < BucketSize THEN Chosen(c, f, NextEvictKey)
  ELSE /\ Goes(c, [f EXCEPT !.at = "list", !.scan = Scan(now, Size, <<>>, 0, 0, NULL, NULL)])
       /\ result' = Pending

\* a large cache: the keys are listed
ListKeys(c) ==
  /\ Inside(c, "list")
  /\ Goes(c, [call[c] EXCEPT !.at = "sample", !.scan.list = order])
  /\ result' = Pending
  /\ UNCHANGED <<cache, now, breach, fault>>

Better(scan, w) == scan.min = 0 \/ w < scan.min

\* The key at position pos (from 0) of the list is looked up; a key that is
\* gone, or whose hash raises, is a NULL entry whose weight is read.
Crash(c, pos) ==
  /\ fault' = IF pos >= Len(call[c].scan.list) THEN "out_of_list" ELSE "null_entry"
  /\ result' = Pending
  /\ UNCHANGED <<cache, now, call>>

Found(s, pos) == pos < Len(s.list) /\ s.list[pos + 1] \in Present

BucketsSlip(s) == (s.count + BucketNum - 1) \div BucketNum
Buckets(s) == s.count \div BucketNum

\* One key at random out of every bucket but the last.
Sample(c) ==
  LET s == call[c].scan IN
  /\ Inside(c, "sample") /\ s.i < BucketNum - 1
  /\ \E r \in 0..Buckets(s) :
       LET pos == s.i * Buckets(s) + r IN
       \/ /\ Found(s, pos)
          /\ LET k == s.list[pos + 1]
                 w == Weight(entry[k], s.now)
             IN Goes(c, [call[c] EXCEPT !.scan =
                  Scan(s.now, s.count, s.list, s.i + 1, IF Better(s, w) THEN w ELSE s.min,
                       IF Better(s, w) THEN k ELSE s.rv, k)])
          /\ result' = Pending
          /\ UNCHANGED <<cache, now, breach, fault>>
       \/ /\ Crash(c, pos)
          /\ breach' = IF Found(s, pos) THEN breach \cup {"raised"} ELSE breach

\* The list is released before the key found in it is taken: a key that has
\* left the cache may be freed by then.
Sampled(c, k) ==
  \/ Chosen(c, call[c], k) /\ UNCHANGED <<cache, now, breach, fault>>
  \/ /\ k \notin Present
     /\ fault' = "freed_key"
     /\ result' = Pending
     /\ UNCHANGED <<cache, now, call, breach>>

\* A remainder is looked at in its middle, but the key kept is the one looked
\* at before.
SampleEnd(c) ==
  LET s   == call[c].scan
      pos == BucketNum * Buckets(s) + ((s.count % BucketNum) \div 2)
  IN /\ Inside(c, "sample") /\ s.i = BucketNum - 1
     /\ IF s.count % BucketNum = 0
        THEN Sampled(c, s.rv)
        ELSE \/ /\ Found(s, pos)
                /\ LET w == Weight(entry[s.list[pos + 1]], s.now)
                   IN Sampled(c, IF Better(s, w) THEN s.key ELSE s.rv)
             \/ /\ Crash(c, pos)
                /\ breach' = IF Found(s, pos) THEN breach \cup {"raised"} ELSE breach

-----------------------------------------------------------------------------
(* CacheMap_evict and the dict *)

Drop(k) == /\ entry' = [entry EXCEPT ![k] = NULL]
           /\ \E i \in 1..Len(order) : order[i] = k /\ order' = Seqs!RemoveAt(order, i)

Visited(e) == Entry(e.value, e.visits + 1, now)
CanVisit(k) == entry[k].visits < MaxVisits

\* A call goes on after CacheMap_evict returned None.
Evicted(c, f) ==
  CASE f.op = "evict" -> Returns(c) /\ result' = Answer("evict", <<f.victim>>)
    [] f.op = "set_capacity" ->
         Goes(c, [f EXCEPT !.at = "again", !.left = @ - 1, !.victim = NULL, !.scan = NoScan])
         /\ result' = Pending
    [] OTHER -> Goes(c, [f EXCEPT !.at = "insert", !.victim = NULL, !.scan = NoScan])
                /\ result' = Pending

\* the key is deleted, then its destructors run
Evict(c) ==
  /\ Inside(c, "victim") /\ call[c].victim \in Present
  /\ Drop(call[c].victim)
  /\ Evicted(c, call[c])
  /\ breach' = breach \cup Changes(c)
  /\ UNCHANGED <<capacity, now, fault>>

\* CacheMap_NextEvictKey could not list the keys: CacheMap_evict clears the
\* error, and the call goes on as if it had evicted
ListNoMemory(c) ==
  /\ Inside(c, "list")
  /\ IF call[c].op = "next_evict_key"
     THEN Returns(c) /\ result' = Answer("error", <<>>)
     ELSE Evicted(c, call[c])
  /\ breach' = breach \cup {"raised"}
  /\ UNCHANGED <<cache, now, fault>>

\* evict() and next_evict_key(): an empty cache is no error for evict()
EvictBegin(c, op) ==
  /\ CanCall(c)
  /\ IF Present = {}
     THEN result' = Answer(op, <<>>) /\ UNCHANGED call
     ELSE Choosing(c, Frame(op, "evict", NULL, NULL, <<>>))
  /\ UNCHANGED <<cache, now, breach, fault>>

\* The victim of an eviction, or the key of pop(), is gone when it is to be
\* deleted (KeyError), or the callback, a hash, a comparison or an allocation
\* raised.
Fails(c) ==
  /\ \/ Inside(c, "victim") \/ Inside(c, "insert") \/ Inside(c, "lookup") \/ Inside(c, "pair")
     \/ Inside(c, "first") /\ call[c].key \in Present
     \/ Inside(c, "pop")
  /\ Returns(c)
  /\ result' = Answer("error", <<>>)
  /\ UNCHANGED <<cache, now, breach, fault>>

-----------------------------------------------------------------------------
(* CacheMap_SetItem, and the methods that put *)

\* update() is to put the first of these entries
Updating(todo) == Frame("update", "lookup", todo[1][1], todo[1][2], Tail(todo))

\* what a method that has put its entry does next
PutDone(c, f) ==
  IF f.todo # <<>>
  THEN Goes(c, Updating(f.todo)) /\ result' = Pending
  ELSE /\ Returns(c)
       /\ result' = Answer(f.op, IF f.op \in {"setdefault", "setnx"}
                                 THEN <<f.key, f.val>> ELSE <<>>)

PutBegin(c, k, v) ==
  /\ CanCall(c)
  /\ Goes(c, Frame("put", "lookup", k, v, <<>>))
  /\ result' = Pending
  /\ UNCHANGED <<cache, now, breach, fault>>

\* the key is there: its entry gets another value, and no visit
Replace(c) ==
  LET f == call[c] IN
  /\ Inside(c, "lookup") /\ f.key \in Present
  /\ entry' = [entry EXCEPT ![f.key].value = f.val]
  /\ breach' = IF \E d \in Callers : call[d].at = "pair" /\ call[d].key = f.key
               THEN breach \cup {"overlap"} ELSE breach
  /\ PutDone(c, f)
  /\ UNCHANGED <<order, capacity, now, fault>>

FullSlip == Size > capacity
FullEarly == Size > 0 /\ Size + 1 >= capacity
Full == Size >= capacity

\* the key is not there: a full cache evicts one entry first
MakeRoom(c) ==
  LET f == call[c] IN
  /\ Inside(c, "lookup") /\ f.key \notin Present
  /\ IF Full THEN Choosing(c, f) ELSE Goes(c, At(f, "insert")) /\ result' = Pending
  /\ breach' = IF Shrinkers # {} THEN breach \cup {"shrink"} ELSE breach
  /\ UNCHANGED <<cache, now, fault>>

\* The new entry is put; one that another call has put meanwhile is replaced.
Insert(c) ==
  LET f == call[c] IN
  /\ Inside(c, "insert")
  /\ entry' = [entry EXCEPT ![f.key] = Entry(f.val, DefaultVisits, now)]
  /\ order' = IF f.key \in Present THEN order ELSE Append(order, f.key)
  /\ breach' = breach \cup Changes(c)
  /\ PutDone(c, f)
  /\ UNCHANGED <<capacity, now, fault>>

\* setdefault() and setnx(): the key is found, which is a visit
PresentDefault(c, op, k) ==
  /\ CanCall(c) /\ k \in Present /\ CanVisit(k)
  /\ entry' = [entry EXCEPT ![k] = Visited(@)]
  /\ result' = Answer(op, Seen(k))
  /\ UNCHANGED <<order, capacity, now, call, breach, fault>>

\* It is not: the default, or what the callback answers, is put.  Without a
\* default setdefault() puts nothing.
AbsentDefault(c, op, k, v) ==
  /\ CanCall(c) /\ k \notin Present
  /\ IF v = NULL THEN result' = Answer(op, Seen(k)) /\ UNCHANGED call
                 ELSE Goes(c, Frame(op, "lookup", k, v, <<>>)) /\ result' = Pending
  /\ UNCHANGED <<cache, now, breach, fault>>

\* CacheMap_update: as in SortedMap, one cursor walks both dicts.  result is
\* what it was asked for, of which todo is what it is going to put.
Update(c, arg, kw) ==
  /\ CanCall(c)
  /\ LET todo == arg \o SubSeq(kw, Len(arg) + 1, Len(kw))
     IN IF todo = <<>>
        THEN result' = Answer("update", arg \o kw) /\ UNCHANGED call
        ELSE Goes(c, Updating(todo)) /\ result' = Answer("asked", arg \o kw)
  /\ UNCHANGED <<cache, now, breach, fault>>

-----------------------------------------------------------------------------
(* Capacity *)

\* CacheMap_set_capacity: one eviction for each entry too many, counted at the
\* beginning; the capacity changes at the end.
SetCapacity(c, n) ==
  /\ CanCall(c)
  /\ IF n < capacity /\ Size > n
     THEN /\ Choosing(c, [Frame("set_capacity", "evict", NULL, NULL, <<>>)
                            EXCEPT !.left = Size - n, !.cap = n])
          /\ UNCHANGED capacity
     ELSE /\ capacity' = n
          /\ result' = Answer("set_capacity", <<n>>)
          /\ UNCHANGED call
  /\ breach' = breach \cup IF Adders = {} THEN {}
                           ELSE (IF n < capacity THEN {"shrink"} ELSE {}) \cup Grows(n)
  /\ UNCHANGED <<entry, order, now, fault>>

MoreSlip(f) == f.left >= 0
More(f) == f.left > 0

ShrinkOn(c) ==
  LET f == call[c] IN
  /\ Inside(c, "again")
  /\ IF More(f) /\ Present # {}
     THEN Choosing(c, f) /\ UNCHANGED capacity
     ELSE /\ capacity' = f.cap
          /\ Returns(c)
          /\ result' = Answer("set_capacity", <<f.cap>>)
  /\ UNCHANGED <<entry, order, now, breach, fault>>

\* __init__ called on an existing cache
Reinit(c, n) ==
  /\ CanCall(c)
  /\ capacity' = n
  /\ result' = Answer("init", <<n>>)
  /\ breach' = breach \cup (IF n < capacity THEN {"init"} ELSE {}) \cup Grows(n)
  /\ UNCHANGED <<entry, order, now, call, fault>>

-----------------------------------------------------------------------------
(* Lookups and removals *)

\* cache[k] is a visit; the counts of hits and misses are left out
Subscript(c, k) ==
  /\ CanCall(c)
  /\ IF k \in Present
     THEN CanVisit(k) /\ entry' = [entry EXCEPT ![k] = Visited(@)]
     ELSE UNCHANGED entry
  /\ result' = Answer("get", Seen(k))
  /\ UNCHANGED <<order, capacity, now, call, breach, fault>>

\* cache.get(k) and k in cache: not a visit
Get(c, k) ==
  /\ CanCall(c)
  /\ result' = Answer("get", Seen(k))
  /\ UNCHANGED <<cache, now, call, breach, fault>>

\* values() and items() visit every entry, in order
ValuesOf(c) ==
  /\ CanCall(c) /\ \A k \in Present : CanVisit(k)
  /\ entry' = [k \in Keys |-> IF k \in Present THEN Visited(entry[k]) ELSE NULL]
  /\ result' = Answer("items", [i \in 1..Len(order) |-> <<order[i], entry[order[i]].value>>])
  /\ UNCHANGED <<order, capacity, now, call, breach, fault>>

Delete(c, k) ==
  /\ CanCall(c)
  /\ IF k \in Present THEN Drop(k) /\ breach' = breach \cup Changes(c)
                      ELSE UNCHANGED <<entry, order, breach>>
  /\ result' = Answer("delete", Seen(k))
  /\ UNCHANGED <<capacity, now, call, fault>>

\* pop() of a key that is there takes the value of the entry that it has found ...
PopBegin(c, k) ==
  /\ CanCall(c)
  /\ IF k \in Present
     THEN /\ Goes(c, Frame("pop", "pop", k, NULL, <<>>))
          /\ result' = Pending
          /\ breach' = breach \cup {"pop"}
     ELSE result' = Answer("pop", Seen(k)) /\ UNCHANGED <<call, breach>>
  /\ UNCHANGED <<cache, now, fault>>

\* ... and mistakes the success of the delete for an error: the entry is gone,
\* NULL is returned without an exception, and the value is not released (the
\* pointer to it is read from the freed entry, which has cleared it).
PopEnd(c) ==
  /\ Inside(c, "pop") /\ call[c].key \in Present
  /\ Drop(call[c].key)
  /\ Returns(c)
  /\ result' = Answer("error", <<>>)
  /\ breach' = breach \cup Changes(c)
  /\ UNCHANGED <<capacity, now, fault>>

\* popitem(): the first key of a list that has been freed is looked up ...
PopItemBegin(c) ==
  /\ CanCall(c)
  /\ IF Present = {}
     THEN result' = Answer("popitem", <<>>) /\ UNCHANGED call
     ELSE Goes(c, Frame("popitem", "first", Head(order), NULL, <<>>)) /\ result' = Pending
  /\ UNCHANGED <<cache, now, breach, fault>>

\* ... its value is taken, which is a visit, and a pair allocated ...
PopItemFound(c) ==
  LET k == call[c].key IN
  /\ Inside(c, "first")
  /\ IF k \in Present
     THEN /\ CanVisit(k)
          /\ entry' = [entry EXCEPT ![k] = Visited(@)]
          /\ Goes(c, Frame("popitem", "pair", k, entry[k].value, <<>>))
          /\ UNCHANGED fault
     ELSE fault' = "freed_key" /\ UNCHANGED <<entry, call>>
  /\ result' = Pending
  /\ UNCHANGED <<order, capacity, now, breach>>

\* ... then it is deleted, and an error of that is ignored.
PopItemEnd(c) ==
  LET f == call[c] IN
  /\ Inside(c, "pair")
  /\ \/ /\ f.key \in Present
        /\ Drop(f.key)
        /\ breach' = breach \cup Changes(c)
     \/ /\ UNCHANGED <<entry, order>>
        /\ breach' = IF f.key \in Present THEN breach \cup {"raised"} ELSE breach
  /\ Returns(c)
  /\ result' = Answer("popitem", <<f.key, f.val>>)
  /\ UNCHANGED <<capacity, now, fault>>

Clear(c) ==
  /\ CanCall(c)
  /\ entry' = [k \in Keys |-> NULL]
  /\ order' = <<>>
  /\ breach' = IF Present = {} THEN breach ELSE breach \cup Changes(c)
  /\ result' = Answer("clear", <<>>)
  /\ UNCHANGED <<capacity, now, call, fault>>

-----------------------------------------------------------------------------

Enter(c) == \/ \E k \in Keys, v \in Values : PutBegin(c, k, v)
            \/ \E k \in Keys : Subscript(c, k) \/ Get(c, k) \/ Delete(c, k) \/ PopBegin(c, k)
            \/ \E k \in Keys, op \in {"setdefault", "setnx"} : PresentDefault(c, op, k)
            \/ \E k \in Keys, v \in Values : AbsentDefault(c, "setnx", k, v)
            \/ \E k \in Keys, v \in Values \cup {NULL} : AbsentDefault(c, "setdefault", k, v)
            \/ \E u \in Updates : Update(c, u[1], u[2])
            \/ \E op \in {"evict", "next_evict_key"} : EvictBegin(c, op)
            \/ \E n \in Capacities : SetCapacity(c, n) \/ Reinit(c, n)
            \/ ValuesOf(c) \/ PopItemBegin(c) \/ Clear(c)

GoOn(c) == \/ Replace(c) \/ MakeRoom(c) \/ Insert(c)
           \/ ListKeys(c) \/ ListNoMemory(c) \/ Sample(c) \/ SampleEnd(c)
           \/ Evict(c) \/ ShrinkOn(c) \/ Fails(c)
           \/ PopItemFound(c) \/ PopItemEnd(c) \/ PopEnd(c)

Next == Tick \/ \E c \in Callers : Enter(c) \/ GoOn(c)

Spec == Init /\ [][Next]_vars

-----------------------------------------------------------------------------
(* Properties *)

Frames == [op : {"idle", "put", "setdefault", "setnx", "update", "evict", "next_evict_key",
                 "set_capacity", "popitem", "pop"},
           at : Fragile \cup {"idle", "lookup", "pop"},
           key : Keys \cup {NULL}, val : Values \cup {NULL}, todo : Seq(Keys \X Values),
           victim : Keys \cup {NULL}, left : Nat, cap : Capacities \cup {0},
           scan : [now : Nat, count : Nat, list : Seq(Keys), i : Nat, min : Nat,
                   rv : Keys \cup {NULL}, key : Keys \cup {NULL}]]

\* Every variable has its type; the dict's order lists its keys once each; no
\* visit is later than the clock, which the unsigned subtraction of
\* CacheEntry_GetWeight relies on.
TypeOK ==
  /\ entry \in [Keys -> {NULL} \cup [value : Values, visits : Nat, last : 0..now]]
  /\ order \in Seq(Present) /\ Len(order) = Size
  /\ \A k \in Present : \E i \in 1..Len(order) : order[i] = k
  /\ capacity \in Capacities
  /\ now \in Nat
  /\ call \in [Callers -> Frames]
  /\ breach \subseteq {"overlap", "shrink", "grow", "init", "pop", "raised"}
  /\ fault \in {"none", "out_of_list", "null_entry", "freed_key"}

Kept == breach = {}

\* A client that keeps to the contract never sees more entries than capacity,
\* not even while Python code runs inside a call.
WithinCapacity == Kept => Size <= capacity

Inserters == {c \in Callers : call[c].at = "insert"}

\* What the check of the size before an entry is put is worth when nobody keeps
\* others out: n calls at a time exceed the capacity by n - 1 at most, and the
\* excess does not add up from call to call.
Overshoot ==
  breach \cap {"shrink", "init", "raised"} = {} =>
    Size + Cardinality(Inserters) <= capacity + Cardinality(Callers) - 1

RefWeight(k) ==
  LET w == entry[k].visits - (now - entry[k].last) \div DecayEvery IN IF w < 0 THEN 0 ELSE w

\* the keys that a walk over a small cache picks in a step, as a victim or for
\* the client of next_evict_key()
Picked(callNow, resultNow) ==
  {callNow[c].victim : c \in {d \in Callers : /\ call[d].at \notin {"victim", "list", "sample"}
                                              /\ callNow[d].at = "victim"}} \cup
  (IF resultNow.op = "next_evict_key" /\ callNow = call
   THEN {resultNow.out[i] : i \in 1..Len(resultNow.out)} ELSE {})

MostUnusedAmong(picked) == \A p \in picked, k \in Present : RefWeight(p) <= RefWeight(k)

\* The key evicted from a small cache for a new one, or answered by
\* next_evict_key(), is one whose visits, less one for every ten minutes since
\* the last, are fewest, whatever has been visited and however the order of the
\* dict has changed; as long as no entry's weight has gone down to zero.
EvictsLeast ==
  [][(\A k \in Present : RefWeight(k) > 0) => MostUnusedAmong(Picked(call', result'))]_vars

\* "Return the most unused key." (the doc of next_evict_key()): the same of
\* next_evict_key() in every state.
MostUnused ==
  [][Size < BucketSize /\ result'.op = "next_evict_key" =>
       MostUnusedAmong(Picked(call', result'))]_vars

\* "Evict a item. raise error if no item in cache." (the doc of evict()): no call
\* of evict() is answered by a cache that is empty.
EvictRaises == [][Present = {} => result'.op # "evict"]_vars

\* A client that keeps to the contract never makes the cache read beyond a list
\* of keys, the weight of an entry that is gone, or a freed key.
NoFault == Kept => fault = "none"

\* what the client sees of the entries
Contents == [k \in Present |-> entry[k].value]

\* what a caller has asked for, the state of its eviction left out
Called(f) ==
  [op |-> f.op,
   key |-> IF f.op \in Puts THEN f.key ELSE NULL,
   val |-> CASE f.op \in Puts -> f.val [] f.op = "set_capacity" -> f.cap [] OTHER -> NULL,
   todo |-> IF f.op \in Puts THEN f.todo ELSE <<>>]

Calls == [c \in Callers |-> Called(call[c])]

\* No update() is asked for with both a dict and keywords: one that is drops
\* keywords, and is promised nothing.
OneDict == \A u \in Updates : u[1] = <<>> \/ u[2] = <<>>

Dict == INSTANCE BoundedDict WITH
          dict <- Contents, call <- Calls, broken <- breach # {} \/ ~OneDict

\* The cache implements the bounded dictionary.
IsBounded == Dict!Init /\ [][Dict!Next]_(Dict!vars)
=============================================================================
