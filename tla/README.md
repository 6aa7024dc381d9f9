# ctools in TLA+

A verification development of [ctools](../src), a CPython extension with four
containers written in C: `Channel`, `SortedMap`, `CacheMap` and `TTLCache`,
and a few stateless functions. The modules model what the C code does, TLC
checks them on small instances, and TLAPS proves the main facts for instances of
any size.

    tlc -workers 2 -config Channel.cfg MCChannel.tla      # one run of the table below
    tlapm ChannelProofs.tla                               # the proofs

## The system

No container has a lock. Each method runs under the GIL, so what one method does
between two points where Python code can run is atomic. The points where Python
code can run are what makes these classes hard: the comparison of two keys, a
callback, the destructor of an object whose last reference is dropped, a garbage
collection that an allocation starts. There, the *same* thread may call the same
object again, and every other thread may too. The C code goes on afterwards
with the indices and pointers it had read before.

| component | source | state | operations | what is hard |
|---|---|---|---|---|
| `Channel` | `src/src/channel.c` | ring `ob_item`, cursors `sendx`, `recvx` over `0..2*size-1`, flags `sflag`, `rflag` (the half of the range a cursor is in, 3 for powers of two, negative when closed) | `send`, `recv`, `safe_consume`, `clear`, `close`, `sendable`, `recvable`, `size` | telling full from empty; an index held across a callback, a destructor or an allocation; cursors and slots that `clear()` lets disagree; flags that toggle; `int` overflow |
| `SortedMap` | `src/src/rbtree.c` | red-black tree of nodes, `length`, one sentinel object shared by every map | `[]`, `in`, `get`, `setdefault`, `setnx`, `update`, `pop`, `popitem`, `min`, `max`, `keys`, `values`, `items`, `clear`, `len` | rebalancing; pointers held across comparisons; destructors that run before the length is adjusted; reference counts of the sentinel |
| `CacheMap` | `src/src/cachemap.c` | dict of entries (value, visits, last visit), capacity, hits, misses | mapping methods, `evict`, `next_evict_key`, `set_capacity`, `hit_info` | which entry is evicted; size against capacity when destructors put |
| `TTLCache` | `src/src/ttlcache.c` | dict of entries (value, expiry), default ttl, the clock | mapping methods, `set_default_ttl` | an entry that expires between two calls; the delete of an expired entry that must not fail |
| functions | `src/src/functions.c` | none | `jump_hash`, `strhash`, `int8_to_datetime` | arithmetic only |
| module | `src/src/module.c`, `core.h`, `module.h`, `pydoc.h` | none after import | | |
| package | `src/ctools/` | none | re-exports, stubs | |

The containers do not call each other. They interact with their clients only:
calls, callbacks, comparisons and destructors.

What makes each correct:

* `Channel`: it is a bounded FIFO queue; the cursors say exactly which slots are
  occupied; no reference is lost or dropped twice.
* `SortedMap`: it is a dictionary with ordered keys; the tree is a search tree at
  every step and balanced whenever Python code can look; every call returns; `len()`
  counts; the sentinel's references balance.
* `CacheMap`: the size stays within the capacity, also while Python code runs inside
  a call; the entry evicted is a least used one; a victim chosen earlier is still the
  one deleted, or an error.
* `TTLCache`: no entry is answered after its expiry (to the second), none is lost before
  it; a delete that must not fail does not.

## Modules

| module | what it is |
|---|---|
| `ChannelQueue` | abstract: a bounded FIFO queue with two sides that open and close |
| `Channel` | `channel.c`, all of it; `IsQueue` maps the ring to `ChannelQueue` |
| `MCChannel` | small instances of `Channel` |
| `ChannelProofs` | theorems about the states of `Channel`, and that it implements `ChannelQueue` |
| `SortedDict` | abstract: a dictionary with ordered keys |
| `RBTree` | the tree algorithms of `rbtree.c` as functions from trees to trees, and what a red-black tree is, stated without reference to them |
| `SortedMap` | the methods of `rbtree.c` over `RBTree`; `IsDict` maps the map to `SortedDict` |
| `MCSortedMap` | small instances of `SortedMap` |
| `RBTreeProofs` | theorems about rotation, insertion and the walks of `RBTree`, for every tree |
| `RBTreeDeletion` | theorems about its deletion |
| `SortedMapProofs` | theorems about `SortedMap`, the refinement among them |
| `BoundedDict` | abstract: a dictionary with a capacity, whose entries vanish only to make room |
| `CacheMap` | `cachemap.c`; `IsBounded` maps the cache to `BoundedDict` |
| `MCCacheMap` | small instances of `CacheMap` |
| `CacheMapProofs` | theorems about the size of `CacheMap` |
| `CacheMapSafety` | theorems about its types, its memory and the victims it chooses |
| `CacheMapRefines` | that `CacheMap` implements `BoundedDict` |
| `ExpiringDict` | abstract: a dictionary whose entries vanish, in terms of the times a client can observe |
| `TTLCache` | `ttlcache.c` over a clock; `IsExpiring` maps the cache to `ExpiringDict` |
| `MCTTLCache` | small instances of `TTLCache` |
| `TTLCacheProofs` | theorems about `TTLCache`, the refinement among them |
| `Mappings` | `SortedMap`, `CacheMap` and `TTLCache` side by side, given the same `update()` |
| `MCMappings` | a small instance of `Mappings` |

### How a module reads

The state variables have the names of the C fields. A method is one action if no
Python code runs in it, else one action per stretch between the points where
Python code can run. `call[c]` is the stack frame of caller `c`: the method it is
inside and the C locals it goes on with. A caller is a frame, not a thread: a
second caller stands for Python code that the first one runs just as for another
thread. (A nested call must return before the one around it goes on, so that
two callers allow a few orders that one thread does not; two threads allow all of
them, because the GIL may be released wherever Python code runs.)

Some variables are ghosts: `result` is what the method that returned answered,
`fault` the first memory error (the model stops there, as nothing the C standard
says holds afterwards), `rc` or `sref` count the references the C code owns
(in `Channel` and `SortedMap`), and `breach` records how the clients have broken the
contract.

The abstract dictionaries and the queue keep, per caller, what it has asked for: the
method, the key, the value, the entries that `update()` has still to put. A step
belongs to a caller; it answers the key that caller asked about, puts the key and value
it was given, removes what it named. The refinement maps the frames to these calls
(`Calls`, `Called`), and `broken` to a breach of the contract.

Definitions whose name ends in `Slip`, `Lost`, `Early`, `Shallow` or the like stand before the
definition they misread. They are plausible bugs of that code, and each property is
checked to fail when one of them replaces the definition.

### The contracts

No class documents which nested or concurrent calls it supports, and none
supports all of them. The modules make the supported part explicit, as a ghost
`breach`. A property of the form `breach = {} => ...` is about clients that keep to
the contract; the others hold, or fail, for every client.

* `Channel`: nobody receives, consumes, clears or closes the receive side while a
  call of the receive side is running (`overlap`, `close`); `clear()` is only
  called on an empty channel or on one of size 1 (`clear`). Sending is allowed at
  any point, by anybody. The size is a power of two or at most half of `INT_MAX`
  (`SafeSize`).
* `SortedMap`: no entry is added or removed while another call is inside the tree
  (`overlap`); `keys()`, `items()` and `clear()` are not called from the
  destructors of what is being removed, nor anything added or removed from those
  that `clear()` runs (`nested`). Replacing a value and looking keys up is allowed
  at any point but one: while `popitem()` holds that value.
* `CacheMap`: no entry is added or removed while another call is about to evict, to
  insert or to answer a pair (`overlap`); the capacity is not lowered while an
  entry is put, nor an entry put while it is lowered (`shrink`), not raised while
  an entry is about to be put (`grow`), and not lowered by calling `__init__` again
  (`init`); `pop()` deletes nothing (`pop`); no allocation of the key
  list and no hash or comparison fails where the code takes the error for something
  else (`raised`).
* `TTLCache`: an entry is not replaced or removed while another call is about to
  delete it because it has expired, has released its value, or is about to answer it
  with `popitem()`, nor read in the second case (`overlap`); calls for other keys may
  overlap in any way. `pop()` deletes nothing (`pop`); a ttl is short
  enough for the expiry to fit an `int64_t` (`huge`); no hash raises when an expired
  entry is deleted, nor when `popitem()` deletes (`raised`).

The contracts are also a summary of what goes wrong outside them: `pop()` of a key
that is present takes the success of the delete for a failure (`cachemap.c:517`,
`ttlcache.c:409`): it reads the entry again after it has freed it and answers NULL
without an exception, although the entry is gone; if the key has gone in the
meantime, it answers the value. A hash that raises in the delete of an expired entry
aborts the process (`ttlcache.c:173`).

### `Channel`

`Full`, `Empty`, `NextCursor` and `NextFlag` are the code's tests and updates with
their three cases: size 1, powers of two, other sizes. `x & (2*size-1)` and
`x ^ size` are only reached for powers of two and cursors in range, where they are
`%` and `+` modulo `2*size`; `CursorsInRange` shows the latter. The C `int` of the
cursors keeps its width: `Wrap` overflows at `IntMax`, which TLC takes as 7.
(Signed overflow is undefined; wrapping is what the compilers the project
supports store into the field.)

`recv()` is split where it allocates its tuple, which is after it has looked whether
there is an item, and whether or not there is one: `RecvBegin` and `RecvEnd` with an
item, `RecvSeesEmpty` and `RecvNothing` without, and in both cases `RecvNoMemory` when
the allocation fails. What is sent in between is not seen by an empty `recv()`;
`ChannelQueue` says so: the queue was empty when the call looked (`saw`).
`safe_consume()` is split where it calls back and where it drops the item; `clear()` at each item it releases. The asserts are
compiled out of the release build (`NDEBUG` in `CMakeLists.txt`) and are not
executed by the model: two of them are the properties `ItemAsserted` and
`RflagAsserted`.

### `RBTree` and `SortedMap`

A node is named by its key and a tree is a record of functions: root, child per
side, parent, color. The two mirrored halves of the C functions are one
definition with a side as a parameter. The sentinel is a node like the others,
whose parent `rbtree_transplant` sets, as in the code. The two rebalancing loops
take one step per iteration, so that TLC sees every intermediate tree and can tell
whether they end; nothing else runs meanwhile (`fix`), since they run no
Python code.

A descent takes one step per comparison. `Below` reads the child pointer *after* the
comparison has returned, as the code does, so that a tree changed by the
comparison is what the descent goes on with.

A listing allocates its list with `length` slots before it looks at the length and at
the tree (`ListBegin`; then `ListEmpty`, `ListKeys` or `ItemsFirst`), `items()` a pair
per node (`ItemsNext`), and `popitem()` its pair; each of these allocations may run a
collection, and through it any call, or fail (`NoMemory`).

The value of the methods that differ only in how the answer is wrapped is one
operation: `get` stands for `[]`, `in` and `get()`, `remove` for `del` and
`pop()`, `keys` for `keys()`, `values()` and iteration.

### `CacheMap`

A dict operation hashes and compares keys, so that Python code may run before it
takes effect, and destructors run after it. An action is therefore one dict
operation with the C code that follows it. A frame that puts goes through `lookup`
(the old entry is looked up, the size is checked, the victim chosen), `victim` (it is
to be deleted) and `insert` (the new entry is to be put). `Changes` marks a breach
when an entry comes or goes while another frame is at such a place.

`CacheMap_NextEvictKey` walks a small dict with `PyDict_Next`, in one step:
`NextEvictKey`. Its minimum starts at 0, and 0 also means *none yet*, which the
definition says in closed form: an entry of weight zero is replaced by whatever
follows it, so that only the entries after the last weight of zero compete. A
large dict is listed (`ListKeys`, or `ListNoMemory`), and then one random key of each
bucket is looked up (`Sample`, one step per lookup), with a last one in the middle of
the remainder (`SampleEnd`); where the code answers the key *before* the one it has
weighed, so does the model. `Weight` is computed from the time read at the start
and a visit that may be later: the unsigned difference then makes the weight 0.

Every call that puts shares `Replace`, `MakeRoom` and `Insert`; `get` stands for `in`
and `get()`, which count no visit; `next_evict_key`, `evict` and `set_capacity`
share the choice of the victim. `evict()` of an empty cache answers None (`EvictBegin`),
which `BoundedDict` tells from the eviction of a key. `pop()` is two dict operations, a
lookup (`PopBegin`) and a delete (`PopEnd`), with Python code before each.

### `TTLCache`

The expiry is `time()` in whole seconds plus the ttl, compared with `<`. The model's
clock ticks `Second` times a second, so that an entry can be made at any phase of a
second; `made` and `put` are ghosts with the full precision. That is what the
properties are about: `Fresh` and `NotLost` are stated in ticks, the code computes in
seconds (`NOW`). `Wrap` is the `int64_t` addition.

`Find` is `TTLCache_GetTTLItemWithError` up to where it has found an entry or none, for
all methods that look at the expiry, `pop()` among them; `PopEnd` is its delete.
`Expire` deletes an expired entry by its key, after the Python code of a second hash, and calls
`abort()` if the key is gone or the hash raises. `SetItem` releases the old value of
an entry before it stores the new one: `ReplaceEnd` is what follows the destructor. An
absent key goes through `alloc` (the ttl is read), `insert` (the expiry is computed)
and `Insert` (it is put, over what has been put meanwhile). `Delicate` are the
places where a frame relies on an entry that it does not hold: the contract is about
these alone, key by key. `get` stands for `[]`, `in` and `get()`, `setdefault` for
`setdefault()` and `setnx()`, whose callback runs between the lookup and the put.

### `update()` and its keywords

`update(d, **kw)` of all three mappings walks both dicts with one `PyDict_Next` cursor
that is not reset: as many of the keyword entries as the positional dict has entries
are skipped (`rbtree.c:931`, `cachemap.c:647`, `ttlcache.c:541`). The modules do the
same (`Update`, `SubSeq(kw, Len(arg) + 1, Len(kw))`). The abstract dictionaries do not:
`AskUpdate` is asked for all entries given, and those are what it puts. So the
refinements are stated, and proved, of clients that give a dict or keywords and not
both (`OneDict`), and the run `update_keywords` shows on `Mappings` that a client that
gives both loses a keyword in each of the three. `rbtree.c:1158` ("Like
dict.update"), `ttlcache.c:650` ("update(mp, **kwargs)") and the stub of `CacheMap`
(`__init__.pyi:58`) promise otherwise; the stub of `TTLCache` declares no keywords.
(`dict` entries are given as sequences of pairs with a key each; a `PyDict_Next` cursor
counts slots, which are the entries of a dict nothing was deleted from.)

## Runs

| run | instance | shows |
|---|---|---|
| `channel` | sizes 1, 2, 4 (powers of two), 3, 5 (others; 5 overflows); 2 items; 2 callers; 4-bit ints | type, cursor range and flags, the occupied window, no memory error, reference balance; `Channel` implements `ChannelQueue` |
| `channel_clear` | size 2, one caller | *violated*: the assertion that `safe_consume()` has an item, after `clear()` (`channel.c:356`) |
| `channel_close` | size 2, two callers | *violated*: the assertion that `rflag > 0`, when code that the allocation in `recv()` runs closes the channel (`channel.c:175`) |
| `sortedmap` | one caller, fairness: 6 keys in any order, and 10 keys put from one end and removed in any order | search order and parent pointers at every step, the red-black properties between the loops, the invariants of both loops, that an iteration that is not the last only climbs, termination |
| `sortedmap_calls` | 3 keys, 2 values, 2 callers, `update()` | `len()`, no memory error, and that `SortedMap` implements `SortedDict`, under the contract; beyond it, on two keys, the sentinel's references and that only overlapping calls make the map use freed memory |
| `sortedmap_race` | 4 keys, 2 callers that only add | *violated*: "Iterate sorted keys." when a comparison puts |
| `cachemap` | 3 keys, 2 values, 2 callers, capacities 1 to 3, `update()`, a clock of 2 minutes; walked in full up to two entries, sampled with three | type and dict order; under the contract, the capacity, no memory error, the choice of the victim, and that `CacheMap` implements `BoundedDict`; the excess when calls overlap as they like |
| `cachemap_evict` | capacity 2, one caller, a clock | *violated*: "Return the most unused key." when a weight has gone down to zero |
| `evict_empty` | the same | *violated*: "raise error if no item in cache." of `evict()` |
| `ttlcache` | 2 keys, 2 callers, ttls of 1 and 3 seconds, `update()`, 2 ticks a second up to tick 4 | type and the width of the expiry; under the contract, no memory error or abort, `Fresh`, `NotLost`, and that `TTLCache` implements `ExpiringDict` |
| `ttlcache_unreachable` | 1 key, one caller | *violated*: "keys expire and unreachable after ``ttl`` seconds", at exactly ttl seconds, as in the documented example |
| `update_keywords` | the three mappings, one caller, a dict of one entry and up to two keywords | *violated*: that at least one of the three has put every entry it was given, when all three have answered |

Bounds. *Channel*: with 4-bit integers, 4 is the largest power of two and 3 the
largest other size that is safe; the cursors go around their whole range in every
size, so that each of full, empty and in between is met at each cursor position.
Two items tell order apart. Two callers are one frame inside the receive side and
one that does anything else; the proofs are for any number. *SortedMap*: with six keys both
loops meet each of their cases on both sides, at the root and below it; what they do
not meet is a deletion whose repair climbs a level and then rotates. The same run
reaches it with ten keys, put in ascending or in descending order and removed in any
but for the first and the last, which stay (`Deep`), with calls of `put` and `remove`
only; a red sibling after a climb these orders do not reach. Three keys and two
callers are enough for a frame
to point to a node that a rotation moves, and four for a node to be linked on the
wrong side of it. In `sortedmap_calls`, three keys go with one value and two
values with two keys (`OneValue`, `WithoutLast`), and what follows a breach is explored with
one value, two keys and without `update()`, `setnx()` and `max()`; `update()` overlaps
with other calls in the last entry it puts. *CacheMap*: the constants of the code (255
visits, ten minutes, 8
buckets, 256 entries) are parameters, and small here, so that weights reach zero
and caches are sampled: with three entries and two buckets, that is with a remainder.
A third key makes room necessary at each
capacity but the largest. Visits stop at 2 (3 in `cachemap_evict`), the clock at minute 1
(2). Two
callers are enough for a victim to go before it is deleted and for a second entry to
be inserted past the check; the proofs are for any number. Two values are explored
before the clock moves, and one after; what follows a breach, with one value, minute 0
and without `setnx()` and `update()` (`Bounded`). *TTLCache*: two ticks a
second are enough for an entry to be made in the middle of one; by tick 4 an entry
with a ttl of one second has expired, and with `IntMax = 3` a ttl of three seconds
overflows from the first second on. No call overlaps with `update()`, which puts each
entry the way `cache[k] = v` does. Two callers
are one in a delicate place and one that does anything else; the proofs are for any
number, of keys, ticks and seconds too. *Mappings*: one entry and one keyword are all
it takes. `InContract`, `Bounded` and `Growing` are constraints that cut what comes
after a breach in runs about clients that keep to the contract: the state of the
breach itself is still checked. `Unanswered` is a view that leaves `result` out: no
action and no invariant reads it, and the action properties read its next value only.

Fairness (`sortedmap` only): the rebalancing loops run to their end, since they are
straight C code under the GIL; a call that has been entered goes on, that is,
comparisons, callbacks and destructors return. No call is ever fair to start.

Deadlock is not checked: clients may stop calling, and the model stops at a
memory error.

## Proofs

`ChannelProofs` proves, for every set of sizes, items and callers, and from the
assumptions in `Channel` alone (`IntMax` is one less than a power of two, sizes
are positive ints, `NULL` is no item):

| theorem | property |
|---|---|
| `TypeCorrect` | `TypeOK` |
| `CursorsCorrect` | `CursorsInRange`, without the contract (all but a receive side closed under a receiver) |
| `WindowCorrect` | `Window` |
| `FaultFree` | `NoFault` |
| `RefsCorrect` | `RefsBalanced` |

The argument. `Window` is not inductive: that a slot taken is the slot at the
receive cursor depends on the frame that computed it. The invariant `IInv` adds
what frames know. `CInv` holds of every client: types, `CursorsInRange`, and that a
frame inside the receive side sees that side open unless it was closed under it
(`OpenFrames`). Under the contract, `Kept` adds: no fault so far, at most one frame
is active (`Exclusive`), its slot is the one at the receive cursor and holds its
item (`FramesOK`), the window (`WindowOK`), and the reference count in terms of the
slot and this one frame (`RefsOK`). The lemmas below it are arithmetic modulo
`2*size` (`SendWindow`, `TakeWindow`), what the full and empty tests mean
(`FullMeansFull`, `EmptyMeansEmpty`), and one lemma per action.

From the same assumptions, the second half of the module proves

| theorem | property |
|---|---|
| `Refines` | `IsQueue`: every step is a step of `ChannelQueue` or a stutter |

The argument. The queue is the items in the slots from `recvx` on, `Count` of them. What
the steps owe the queue is about three ways to change the ring: an item is put in the
slot under `sendx` (the queue is appended to), the item under `recvx` is taken (its
tail), the slot of an item already handed out is released (unchanged). `SlotOnArith`
and the lemmas after it say which slot is which, modulo `2*size`; there is one `...Sim`
lemma per action, under `Good`, the invariant `IInv` with the contract kept and a safe
size.

`RBTreeProofs` and `RBTreeDeletion` prove, for every finite set of integers as keys
(`KeysAssumption`, `NilAssumption`) and every ranking of them, what the algorithms of
the tree do to any tree:

| theorem | about |
|---|---|
| `RotateSearch` | a rotation leaves a search tree of the same keys, doubly linked |
| `LinkKeeps`, `InsertFixKeeps`, `InsertFixEnds` | an insertion: the new node gives the invariant of `rbtree_insert_fix`, each iteration keeps it, its end gives a red-black tree |
| `DeleteKeeps`, `DeleteFixKeeps`, `DeleteFixEnds` | the same for `rbtree_delete` and `rbtree_delete_fixup` |
| `LeastIs`, `NextIs` | the walks of `rbtree_min`, `RBTree_max` and `rbtree_next` find the least, the greatest and the next key |
| `SearchIsOrdered`, `BalanceIsRedBlack` | what these theorems keep is what `Ordered`, `Doubly`, `Linked` and `RedBlack` say |

The argument. That a tree is in order is a fact about its subtrees, of any depth, and
the provers have no induction. So the tree carries a certificate: a function `u` from
its nodes to the sets of keys below them, and for its balance a function `h` to their
black heights. `Search(t, L, u)` and `Heights` say what these are by neighbours alone:
a node's set is its own key and the sets of its children, the keys on each side are
on that side of it; its height is that of each child, and one more if it is black. A
rotation changes the certificate at two nodes (`Turned`), a new node adds its key
to the sets it is in (`Grown`), a deletion takes a key away (`Without`) and may put the
successor in its place (`Resettled`). The loops are proved with the invariants that
are stated in their comments: `Inserting`, red twice only at the node being repaired;
`Deleting`, one of three: done; lacking one black node below the parent of `x`, where
`x` is black (`Lacking`); or one too few above an `x` that is red and will be
painted black (`Paintable`). `x` may be the sentinel, whose parent the code sets for
this. The walks, and the definitions of order and balance that the runs check, are
recursive functions of the tree; they are connected with the certificate by
well-founded induction over the size of `u[n]`, written out for each (`Iterated`,
`Levels`), since the induction theorems of the library cannot be instantiated.

`SortedMapProofs` proves, for every finite set of keys and of callers, any values and
any lists given to `update()` (`ValuesAssumption`, `CallersAssumption`,
`UpdatesAssumption` in addition):

| theorem | property |
|---|---|
| `SearchTreeHolds` | `SearchTree`, at each step of the loops too |
| `BalancedHolds` | `Balanced` |
| `FixInvariantHolds` | `FixInvariant` |
| `LengthCountsHolds` | `LengthCounts` |
| `NoFaultHolds` | `NoFault` |
| `OverlapExplainsHolds` | `OverlapExplains`, whatever clients do |
| `TypeOKHolds` | `TypeOK`, whatever clients do |
| `SentinelCountedHolds` | `SentinelCounted`, whatever clients do |
| `LoopsClimbHolds` | `LoopsClimb`, whatever clients do |
| `Refines` | `IsDict`: every step is a step of a call of `SortedDict`, on the key it was asked for, or a stutter |

The argument. None of these is inductive: what an iteration of a loop does depends on
where the tree came from, and a method goes on with the node it had reached. `IInv`
has three parts. `TreeKept`: the tree is sorted and balanced for the keys that have a
value, or a loop is running and its invariant holds. `Framed`: the node a search has reached
is linked, and the key it looks for belongs in the subtree of that node (`Placed`),
which is why a put links its node on the right side of the right parent; the node that
`min()`, `max()` and `popitem()` hold is the least or the greatest. Both hold until calls
overlap, whatever else clients do, which gives `OverlapExplains`. `Counts`, under the
whole contract: the length is the number of keys and of the removals that have not yet
been counted, and `items()` has listed the keys below the node it is at, in
order (`Ascends`), so that the list it has allocated is long enough. (That nothing is
listed meanwhile that is being removed is `Parted`.) For the refinement, `Contents` are the
dictionary, `Calls` what each caller has asked for, and `Leaving` counts what is out of the
dictionary and not yet out of `len()`; there is one lemma `...Sim` per action, under `Good`, the invariant with the contract kept,
and `OneDict`. That a call that has not found its key answers so, and one that has answers
that key, is `Placed` at the end of the descent.

Nothing of this survives a call that changes the tree under another one: a put may
then link its node anywhere, and the tree is no search tree. But it is still one in
some other ranking of its keys, and none of the algorithms but the search compares
keys. So `Search` and all that rests on it has a ranking `rk` as a parameter, any
injection of the integers into themselves (`Rankings`), and `LinkAnywhere` shows that a
node linked on side `s` of any node that has no child there can be ranked next to that
node (`Beside`): between two ranks there is always room for another. `AnyInv` holds
of every client: types (`Typed`, `Scalars`), and until a memory error `Sound`: every
frame points to a node, to the sentinel or to a node that is gone (`Traced`), the
tree is red-black in some ranking, or a loop is running and its invariant holds
(`Ranked`), and the map owns two references to the sentinel more than it has nodes.
That those are the ones of `SentinelCounted` is a count: all nodes but the root hang on
one of the 2n pointers each, so that n + 1 are left (`LinksCount`, `NilLinksCount`). The
invariant `IInv` uses the natural ranking alone.

`LoopsClimb` is what the prover can say of termination: an iteration that another
one follows leaves every link as it is and hands on a node strictly above the one it was
given (`GoesAbove`, in terms of the certificate), so that a loop has at most as many
iterations as the tree has levels, and rotates only in its last. It follows from
what the theorems about the two iterations say besides keeping their invariants.

`CacheMapProofs` proves, for every finite set of keys and of callers, every set of
capacities, and any constants of the eviction (`FiniteAssumption`,
`CapacitiesAssumption`, `NumbersAssumption`):

| theorem | property |
|---|---|
| `CapacityKept` | `WithinCapacity` |
| `OvershootBounded` | `Overshoot` |

The argument. A size below the capacity says nothing of frames that have passed the
check and are to insert, so the invariant counts them. `IInv` has three
parts. `Typed`: where a frame is says which methods it can be inside (`FrameOK`).
`MildInv`, for clients that may overlap: the entries and the frames that are to
insert exceed the capacity by the number of callers less one (`Overshoot`), and a call
of `set_capacity()` inside its loop has as many evictions left as there are entries
too many, with nobody about to add (`ShrinkOK`). `KeptInv`, under the contract: while
a frame is to insert there is room for it. Most actions add no entry and bring no
frame closer to doing so; the lemmas `Harmless...` deal with them at once. What is
left are the actions in which a frame passes the check, inserts, or changes the
capacity, each with a lemma of its own: `MakeRoom`, `Evict`, `ListNoMemory`, `Insert`,
`SetCapacity`, `ShrinkOn` and `Reinit`.

`CacheMapSafety` proves, with `NullAssumption` and `UpdatesAssumption` in addition:

| theorem | property |
|---|---|
| `TypeKept` | `TypeOK`, whatever clients do |
| `VictimsLeast` | `EvictsLeast`, whatever clients do |
| `MemorySafe` | `NoFault` |

The argument. `TInv` holds of every client: types, that the dict's order lists its
entries once each (`OrderOK`: an entry dropped is taken out of it wherever it is, one
put stands at its end), and what a frame holds at each place (`FrameData`).
That no entry was visited in the future makes the unsigned weight the one meant
(`WeightIs`); that the order lists every entry, and no weight is zero, makes the walk find
a least one (`WalkIsLeast`); no other step picks anything (lemmas `...Picked`). `SInv`,
under the contract, is what a frame may rely on after Python code has run (`Sound`): a
victim chosen and a key held are still in the dict, the value `popitem()` has read is
still the entry's, the list that a sampling walks is still the dict's order, a cache
that makes room for a put is at least full, and the evictions `set_capacity()` has
left are the entries above the capacity it sets. With these, no sampled index is out
of the list and no victim missing. `SafeInv` is `IInv`, `TInv` and `SInv` together.

`CacheMapRefines` proves, from the same assumptions:

| theorem | property |
|---|---|
| `Refines` | `IsBounded`: every step is a step of a call of `BoundedDict`, on the key it was asked for, or a stutter |

The argument. `Contents` forgets visits and times, `Calls` keeps of a frame what it was asked
for (`CalledIs`), which no step of a call but its last changes (`GoesSim`). One lemma
`...Sim` per action; the ones in which an entry vanishes on its own use `SInv`: a call was
putting an absent key into a full cache, or `set_capacity()` was above the capacity it was
asked for. Where a frame puts, `KeptInv` gives the room.

`TTLCacheProofs` proves every property of the run `ttlcache`, for every set of keys,
values, callers and ttls, every width of the integers and any number of ticks in a
second (`TimeAssumption`, `UpdatesAssumption`, `NullAssumption`):

| theorem | property |
|---|---|
| `TypeCorrect` | `TypeOK` |
| `MemorySafe` | `NoFault` |
| `Refines` | `IsExpiring`: every step is a step of a call of `ExpiringDict`, on the key it was asked for, or a stutter |
| `AnsweredInTime` | `Fresh` |
| `KeptInTime` | `NotLost` |

The argument. `IInv` is `Typed`, which holds of every client, and, under the contract,
`Sound`: an entry's expiry is what its ghosts say (`EntrySound`); a frame in a delicate
place still finds its entry, expired if it was, with the value it has read
(`FrameSound`); a value that has been released is one that a frame is about to replace
(`FreedOK`). A step of one frame touches the entries of a set of keys; the lemma `Step` says
what it owes, and there is one lemma per action. The refinement maps each action to
one of `ExpiringDict` (lemmas `...Sim`), with `InTime` for the arithmetic between whole
seconds and ticks. `ActsSim` says what does not depend on `OneDict`: every step under the
contract is one that the dictionary can take (`Acts`), but for the step in which an `update()`
given a dict and keywords sets out to put fewer entries than it was asked for. `Fresh` and `NotLost` follow from it alone, and so hold of every client of `update()`.

Every invariant, and every action property and refinement, that a passing run checks
is a theorem. Only model-checked: that calls return (`CallsReturn`), since the prover has no rules
for fairness (`LoopsClimb` bounds the loops, not the scheduling); and the runs that find
a violation.

## Not modelled

* `SortedMap(cmp)`: the reference to the comparison function, which the
  constructor drops although the map keeps it (`rbtree.c:648`), and the reference to
  `None` it drops without owning it (`rbtree.c:644`). One straight-line function,
  no state to explore.
* Garbage collection of a container itself (`tp_traverse`, `tp_clear`), `repr`, `==`,
  `_print`.
* Keys that compare inconsistently. Keys are integers in their order; a comparison may
  raise at any time.
* `CacheMap`: the counts of hits and misses (`hit_info`), the value that `pop()` does
  not release, the 32-bit overflow of the visits, the default capacity, and of a
  sampled cache which of its entries is the best victim (any key may be sampled).
* `TTLCache`: a clock that is set back, 32-bit platforms, the references that `items()`
  loses and the key list that `popitem()` of an empty cache loses (also in `CacheMap`),
  `get_default_ttl`, an entry object made by hand.
* The stateless functions: a 64-bit generator with a floating-point division, 32-bit
  hashes of byte strings, and the split of a date; exhaustive checking has nothing to
  explore in them. Read with the modules: `jump_consistent_hash` answers -1 for
  `num_buckets <= 0` where it documents the range `[0, num_buckets)`, and
  `int8_to_datetime` refuses dates after 9999-01-01 although its message admits them
  up to 99991231.

## Plan

1. A deletion that meets a red sibling after a climb, which needs a tree built in other
   orders than those of `Deep`.
2. The garbage collection of a container (`tp_clear`) as one more caller.
3. A run for `pop()` of a key that is present: the docs promise its value
   (`cachemap.c:707`, `ttlcache.c:619`), the code raises `SystemError` or worse. In the
   modules it is the breach `pop`.
