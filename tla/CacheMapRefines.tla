--------------------------- MODULE CacheMapRefines --------------------------
(***************************************************************************)
(* CacheMap implements BoundedDict, for every set of keys, callers and     *)
(* capacities and both ways of choosing a victim.                          *)
(***************************************************************************)
EXTENDS CacheMapSafety

(* The refinement mapping *)

LEMMA ContentsIs ==
  /\ Dict!Present = Present /\ Dict!Size = Size
  /\ \A k \in Present : Contents[k] = entry[k].value
<1>1. Dict!Present = Present /\ \A k \in Present : Contents[k] = entry[k].value
  BY DEF Dict!Present, Contents
<1>2. Dict!Size = Cardinality(Dict!Present)
  BY Zenon DEF Dict!Size, Dict!Cardinality, Cardinality
<1> QED BY <1>1, <1>2 DEF Size

LEMMA SameContents ==
  ASSUME Present' = Present, \A k \in Present : entry'[k].value = entry[k].value
  PROVE  Contents' = Contents
  BY DEF Contents

LEMMA EntryContents == UNCHANGED entry => Contents' = Contents /\ Present' = Present
  BY DEF Contents, Present

-----------------------------------------------------------------------------
(* What is asked for *)

\* Between two states in which the contract is kept.
Good == SafeInv /\ Kept /\ OneDict

LEMMA GoodIs == Good => call = [c \in Callers |-> call[c]]
  BY DEF Good, SafeInv, IInv, Typed, CallOK

LEMMA CallsAre == \A d \in Callers : Calls[d] = Called(call[d])
  BY DEF Calls

LEMMA CalledIs ==
  ASSUME NEW f
  PROVE  /\ Called(f).op = f.op
         /\ f.op \in Puts => Called(f) = Dict!Call(f.op, f.key, f.val, f.todo)
         /\ f.op = "set_capacity" => Called(f) = Dict!Call("set_capacity", NULL, f.cap, <<>>)
         /\ f.op \notin Puts \cup {"set_capacity"} => Called(f) = Dict!Bare(f.op)
  BY DEF Called, Dict!Call, Dict!Bare, Puts

\* A frame that goes on with what it was asked for.
LEMMA SameCalled ==
  ASSUME NEW f, NEW g, g.op = f.op,
         f.op \in Puts => g.key = f.key /\ g.val = f.val /\ g.todo = f.todo,
         f.op = "set_capacity" => g.cap = f.cap
  PROVE  Called(g) = Called(f)
  BY CalledIs

LEMMA IdleCalled == Called(Idle) = Dict!Bare("idle")
  BY IdleFrame, CalledIs DEF Puts

LEMMA UpdatingCalled == \A todo : Called(Updating(todo)) = Dict!Updating(todo)
  BY DEF Called, Updating, Frame, Dict!Updating, Dict!Call, Puts

LEMMA SameCalls == UNCHANGED call => Calls' = Calls
  BY DEF Calls

LEMMA GoesCalls ==
  ASSUME Good, NEW c \in Callers, NEW g, Goes(c, g)
  PROVE  /\ Dict!Asks(c, Called(g)) /\ Calls'[c] = Called(g)
         /\ Called(g) = Called(call[c]) => Calls' = Calls
<1>1. \A d \in Callers : call'[d] = IF d = c THEN g ELSE call[d]
  BY GoodIs DEF Goes
<1>2. Calls' = [d \in Callers |-> IF d = c THEN Called(g) ELSE Called(call[d])]
  BY <1>1 DEF Calls
<1>3. [Calls EXCEPT ![c] = Called(g)] = [d \in Callers |-> IF d = c THEN Called(g) ELSE Called(call[d])]
  BY DEF Calls
<1>4. Called(g) = Called(call[c]) =>
        [d \in Callers |-> IF d = c THEN Called(g) ELSE Called(call[d])] = Calls
  BY DEF Calls
<1> QED BY <1>2, <1>3, <1>4 DEF Dict!Asks

LEMMA ReturnsCalls == ASSUME Good, NEW c \in Callers, Goes(c, Idle) PROVE Dict!Done(c)
  BY GoesCalls, IdleCalled DEF Dict!Done

\* A caller inside no method has asked for nothing; a step of it that leaves
\* it there asks for nothing.
LEMMA FreeIs == ASSUME NEW c \in Callers, CanCall(c) PROVE Dict!Free(c)
  BY CallsAre, CalledIs, IdleFrame DEF CanCall, Dict!Free

LEMMA IdleStays ==
  ASSUME Good, NEW c \in Callers, CanCall(c), Goes(c, Idle) PROVE Calls' = Calls
  BY GoesCalls DEF CanCall

LEMMA StepKept == ASSUME Good', NEW c \in Callers, Dict!Step(c) PROVE Dict!Kept
  BY DEF Dict!Kept, Good, Kept

\* With a dict or keywords, but not both, update() puts all it was given.
LEMMA TodoIs ==
  ASSUME OneDict, NEW u \in Updates
  PROVE  /\ u[1] \o u[2] \in Seq(Keys \X Values)
         /\ u[1] \o SubSeq(u[2], Len(u[1]) + 1, Len(u[2])) = u[1] \o u[2]
<1>1. u[1] \in Seq(Keys \X Values) /\ u[2] \in Seq(Keys \X Values) /\ <<>> \in Seq(Keys \X Values)
  BY UpdatesAssumption
<1>2. CASE u[1] = <<>>
  <2>1. Len(u[1]) + 1 = 1
    BY <1>2
  <2>2. SubSeq(u[2], 1, Len(u[2])) = u[2]
    BY <1>1, SubSeqFull
  <2> QED BY <1>1, <1>2, <2>1, <2>2
<1>3. CASE u[2] = <<>>
  <2> DEFINE m == Len(u[1]) + 1
             n == Len(u[2])
  <2>1. m \in Int /\ n \in Int /\ n < m
    <3>1. Len(u[1]) \in Nat /\ Len(u[2]) = 0
      BY <1>1, <1>3
    <3> QED BY <3>1
  <2> HIDE DEF m, n
  <2>2. SubSeq(u[2], m, n) = <<>>
    BY <2>1, SubSeqEmpty
  <2>3. SubSeq(u[2], Len(u[1]) + 1, Len(u[2])) = u[2]
    BY <1>3, <2>2 DEF m, n
  <2>4. u[1] \o u[2] \in Seq(Keys \X Values)
    BY <1>1
  <2> QED BY <2>3, <2>4
<1> QED BY <1>2, <1>3 DEF OneDict

-----------------------------------------------------------------------------
(* Steps that change no entry *)

LEMMA QuietSim ==
  ASSUME Good', Contents' = Contents, UNCHANGED capacity, Calls' = Calls, result' = Pending
  PROVE  Dict!Kept
<1>1. Dict!Quiet
  BY DEF Dict!Quiet, Dict!Held, Dict!Pending, Dict!Answer, Pending, Answer
<1> QED BY <1>1 DEF Dict!Kept, Good, Kept

\* A call goes on with what it was asked for.
LEMMA GoesSim ==
  ASSUME Good, Good', NEW c \in Callers, NEW g, Goes(c, g), Called(g) = Called(call[c]),
         Contents' = Contents, UNCHANGED capacity, result' = Pending
  PROVE  Dict!Kept
  BY GoesCalls, QuietSim

LEMMA AskedIs ==
  /\ \A k \in Keys, v \in Values : Dict!Call("put", k, v, <<>>) \in Dict!Asked
  /\ \A k \in Keys \ Present, v \in Values, op \in {"setdefault", "setnx"} :
       Dict!Call(op, k, v, <<>>) \in Dict!Asked
  /\ \A op \in {"evict", "next_evict_key", "popitem"} : Dict!Bare(op) \in Dict!Asked
  /\ \A n \in Capacities : n < Size => Dict!Call("set_capacity", NULL, n, <<>>) \in Dict!Asked
<1>1. \A k \in Keys, v \in Values : Dict!Call("put", k, v, <<>>) \in Dict!Asked
  BY DEF Dict!Call, Dict!Asked
<1>2. \A k \in Keys \ Present, v \in Values, op \in {"setdefault", "setnx"} :
        Dict!Call(op, k, v, <<>>) \in Dict!Asked
  BY ContentsIs DEF Dict!Call, Dict!Asked
<1>3. \A op \in {"evict", "next_evict_key", "popitem"} : Dict!Bare(op) \in Dict!Asked
  BY DEF Dict!Call, Dict!Bare, Dict!Asked
<1>4. \A n \in Capacities : n < Size => Dict!Call("set_capacity", NULL, n, <<>>) \in Dict!Asked
  BY ContentsIs DEF Dict!Call, Dict!Asked
<1> QED BY <1>1, <1>2, <1>3, <1>4

\* A call is asked for.
LEMMA AskSim ==
  ASSUME Good, Good', NEW c \in Callers, CanCall(c), NEW g, Goes(c, g), Called(g) \in Dict!Asked,
         UNCHANGED cache, result' = Pending
  PROVE  Dict!Kept
<1>1. /\ Dict!Free(c) /\ Dict!Asks(c, Calls'[c]) /\ Calls'[c] \in Dict!Asked
      /\ UNCHANGED Dict!Held
  BY FreeIs, GoesCalls, EntryContents DEF Dict!Held, cache
<1>2. result' = Dict!Pending
  BY DEF Dict!Pending, Dict!Answer, Pending, Answer
<1>3. Dict!Ask(c)
  BY <1>1, <1>2 DEF Dict!Ask
<1> QED BY <1>3, StepKept DEF Dict!Step

LEMMA TickSim == ASSUME Good, Good', Tick PROVE Dict!Kept
  BY EntryContents, SameCalls, QuietSim DEF Tick, cache

LEMMA PutBeginSim ==
  ASSUME Good, Good', NEW c \in Callers, NEW k \in Keys, NEW v \in Values, PutBegin(c, k, v)
  PROVE  Dict!Kept
<1> DEFINE g == Frame("put", "lookup", k, v, <<>>)
<1>1. Called(g) = Dict!Call("put", k, v, <<>>)
  BY CalledIs DEF Frame, Puts
<1>2. CanCall(c) /\ Goes(c, g) /\ UNCHANGED cache /\ result' = Pending
  BY DEF PutBegin
<1> HIDE DEF g
<1> QED BY <1>1, <1>2, AskedIs, AskSim

\* update() of nothing answers; else it begins, and was asked for all it is
\* going to put.
LEMMA UpdateSim ==
  ASSUME Good, Good', NEW c \in Callers, NEW u \in Updates, Update(c, u[1], u[2]) PROVE Dict!Kept
<1> DEFINE todo == u[1] \o u[2]
<1>1. todo = u[1] \o SubSeq(u[2], Len(u[1]) + 1, Len(u[2]))
  BY TodoIs DEF Good
<1>2. /\ UNCHANGED cache /\ CanCall(c)
      /\ \/ todo = <<>> /\ result' = Answer("update", todo) /\ call' = call
         \/ Goes(c, Updating(todo)) /\ result' = Answer("asked", todo)
  BY <1>1 DEF Update
<1>3. Dict!Free(c) /\ UNCHANGED Dict!Held
  BY <1>2, FreeIs, EntryContents DEF cache, Dict!Held
<1> HIDE DEF todo
<1>4. CASE todo = <<>> /\ result' = Answer("update", todo) /\ call' = call
  <2>1. Dict!UpdateNothing(c)
    BY <1>3, <1>4, SameCalls DEF Dict!UpdateNothing, Dict!Answer, Answer, Dict!Held
  <2> QED BY <2>1, StepKept DEF Dict!Step
<1>5. CASE Goes(c, Updating(todo)) /\ result' = Answer("asked", todo)
  <2>1. result'.op = "asked" /\ result'.out = todo
    BY <1>5 DEF Answer
  <2>2. Dict!Asks(c, Dict!Updating(result'.out))
    BY <1>5, <2>1, GoesCalls, UpdatingCalled
  <2>3. Dict!AskUpdate(c)
    BY <1>3, <2>1, <2>2 DEF Dict!AskUpdate
  <2> QED BY <2>3, StepKept DEF Dict!Step
<1> QED BY <1>2, <1>4, <1>5

\* A call that raises leaves the dictionary alone.
LEMMA FailsSim == ASSUME Good, Good', NEW c \in Callers, Fails(c) PROVE Dict!Kept
<1>1. /\ Goes(c, Idle) /\ UNCHANGED cache /\ result' = Answer("error", <<>>)
      /\ call[c].op # "idle"
  BY CallData DEF Fails, Returns, Inside, FrameOK, Puts, Choose, Good, SafeInv
<1>2. Dict!Done(c) /\ UNCHANGED Dict!Held /\ ~Dict!Free(c)
  BY <1>1, ReturnsCalls, EntryContents, CallsAre, CalledIs DEF Dict!Held, cache, Dict!Free
<1>3. Dict!Fails(c)
  BY <1>1, <1>2 DEF Dict!Fails, Dict!Answer, Answer
<1> QED BY <1>3, StepKept DEF Dict!Step

\* A call that only looks.
LEMMA LooksSim ==
  ASSUME Good, Good', NEW c \in Callers, CanCall(c), NEW k \in Keys, UNCHANGED call,
         Contents' = Contents, UNCHANGED capacity,
         \/ /\ k \in Present
            /\ result' \in {Answer(op, <<k, entry[k].value>>) : op \in {"get", "setdefault", "setnx"}}
         \/ /\ k \notin Present
            /\ result' \in {Answer(op, <<k, NULL>>) : op \in {"get", "setdefault", "delete", "pop"}}
  PROVE  Dict!Kept
<1>1. Dict!Free(c) /\ UNCHANGED <<Dict!Held, Calls>>
  BY FreeIs, SameCalls DEF Dict!Held
<1>2. Dict!Look(c, k)
  BY <1>1, ContentsIs DEF Dict!Look, Dict!Answer, Answer
<1> QED BY <1>2, StepKept DEF Dict!Step

\* An entry that is visited has the value that it had.
LEMMA VisitContents ==
  ASSUME Good, NEW k \in Present, entry' = [entry EXCEPT ![k] = Visited(@)], UNCHANGED now
  PROVE  Contents' = Contents
<1>1. Present' = Present
  BY VisitEntry DEF Good, SafeInv, TInv
<1>2. \A j \in Present : entry'[j].value = entry[j].value
  BY VisitValue DEF Good
<1> QED BY <1>1, <1>2, SameContents

LEMMA GetSim ==
  ASSUME Good, Good', NEW c \in Callers, NEW k \in Keys, Subscript(c, k) \/ Get(c, k)
  PROVE  Dict!Kept
<1>1. CanCall(c) /\ UNCHANGED <<capacity, call>> /\ result' = Answer("get", Seen(k))
  BY DEF Subscript, Get, cache
<1>2. Contents' = Contents
  <2>1. CASE UNCHANGED entry
    BY <2>1, EntryContents
  <2>2. CASE k \in Present /\ entry' = [entry EXCEPT ![k] = Visited(@)] /\ UNCHANGED now
    BY <2>2, VisitContents
  <2> QED BY <2>1, <2>2 DEF Subscript, Get, cache
<1>3. \/ k \in Present /\ result' = Answer("get", <<k, entry[k].value>>)
      \/ k \notin Present /\ result' = Answer("get", <<k, NULL>>)
  BY <1>1 DEF Seen
<1> QED BY <1>1, <1>2, <1>3, LooksSim

\* What is left when the key is deleted.
LEMMA UnsetIs == ASSUME Good, NEW k \in Present, Drop(k) PROVE Dict!Unset(k) /\ k \in Keys
<1>1. k \in Keys /\ Present' = Present \ {k} /\ \A j \in Present \ {k} : entry'[j] = entry[j]
  BY Dropped DEF Good, SafeInv, IInv, Typed, Drop, Present
<1> QED BY <1>1, ContentsIs DEF Dict!Unset, Contents

LEMMA DeleteSim ==
  ASSUME Good, Good', NEW c \in Callers, NEW k \in Keys, Delete(c, k) PROVE Dict!Kept
<1>1. CanCall(c) /\ UNCHANGED <<capacity, call>> /\ result' = Answer("delete", Seen(k))
  BY DEF Delete
<1>2. CASE k \notin Present
  <2>1. result' = Answer("delete", <<k, NULL>>) /\ Contents' = Contents
    BY <1>1, <1>2, EntryContents DEF Seen, Delete
  <2> QED BY <1>1, <1>2, <2>1, LooksSim
<1>3. CASE k \in Present
  <2>1. Drop(k) /\ result' = Answer("delete", <<k, entry[k].value>>)
    BY <1>1, <1>3 DEF Delete, Seen
  <2>2. Dict!Delete(c, k)
    BY <1>1, <1>3, <2>1, UnsetIs, FreeIs, SameCalls, ContentsIs DEF Dict!Delete, Dict!Answer, Answer
  <2> QED BY <2>2, StepKept DEF Dict!Step
<1> QED BY <1>2, <1>3

\* pop() is called for absent keys only.
LEMMA PopSim ==
  ASSUME Good, Good', NEW c \in Callers, NEW k \in Keys, PopBegin(c, k) PROVE Dict!Kept
<1>1. k \notin Present
  BY DEF PopBegin, Good, Kept
<1>2. CanCall(c) /\ UNCHANGED <<cache, call>> /\ result' = Answer("pop", <<k, NULL>>)
  BY <1>1 DEF PopBegin, Seen
<1> QED BY <1>1, <1>2, EntryContents, LooksSim DEF cache

LEMMA DefaultSim ==
  ASSUME Good, Good', NEW c \in Callers, NEW op \in {"setdefault", "setnx"}, NEW k \in Keys,
         NEW v \in Values \cup {NULL},
         \/ PresentDefault(c, op, k)
         \/ AbsentDefault(c, op, k, v) /\ (v = NULL => op = "setdefault")
  PROVE  Dict!Kept
<1>1. CASE PresentDefault(c, op, k)
  <2>1. /\ k \in Present /\ entry' = [entry EXCEPT ![k] = Visited(@)]
        /\ UNCHANGED <<capacity, now, call>> /\ result' = Answer(op, <<k, entry[k].value>>)
        /\ CanCall(c)
    BY <1>1 DEF PresentDefault, Seen
  <2>2. Contents' = Contents
    BY <2>1, VisitContents
  <2> QED BY <2>1, <2>2, LooksSim
<1>2. CASE AbsentDefault(c, op, k, v) /\ v = NULL
  <2>1. /\ k \notin Present /\ UNCHANGED <<cache, call>> /\ CanCall(c)
        /\ result' = Answer("setdefault", <<k, NULL>>)
    BY <1>2 DEF AbsentDefault, Seen, PresentDefault
  <2> QED BY <2>1, EntryContents, LooksSim DEF cache
<1>3. CASE AbsentDefault(c, op, k, v) /\ v # NULL
  <2> DEFINE g == Frame(op, "lookup", k, v, <<>>)
  <2>1. Called(g) = Dict!Call(op, k, v, <<>>)
    BY CalledIs DEF Frame, Puts
  <2>2. CanCall(c) /\ Goes(c, g) /\ UNCHANGED cache /\ result' = Pending /\ k \in Keys \ Present
    BY <1>3 DEF AbsentDefault
  <2> HIDE DEF g
  <2>3. v \in Values
    BY <1>3
  <2> QED BY <2>1, <2>2, <2>3, AskedIs, AskSim
<1> QED BY <1>1, <1>2, <1>3

-----------------------------------------------------------------------------
(* Searches and evictions *)

\* A search goes on, or answers a key of the cache.
Finds(c, f) ==
  \/ /\ f.op = "next_evict_key" /\ Goes(c, Idle)
     /\ \E k \in Present : result' = Answer("next_evict_key", <<k>>)
  \/ result' = Pending /\ \E g : Goes(c, g) /\ Called(g) = Called(f)

LEMMA ChosenFinds ==
  ASSUME NEW c \in Callers, NEW f, Searcher(f), NEW k \in Present, Chosen(c, f, k)
  PROVE  Finds(c, f)
<1>1. CASE f.op = "next_evict_key"
  BY <1>1 DEF Chosen, Returns, Finds
<1>2. CASE f.op # "next_evict_key"
  <2>1. k \in Keys \cup {NULL}
    BY DEF Present
  <2>2. PICK g : /\ Goes(c, g) /\ g.op = f.op /\ g.key = f.key /\ g.val = f.val
                 /\ g.todo = f.todo /\ g.cap = f.cap
    BY <1>2, <2>1, ChosenData
  <2>3. Called(g) = Called(f)
    BY <2>2, SameCalled
  <2> QED BY <1>2, <2>2, <2>3 DEF Chosen, Finds
<1> QED BY <1>1, <1>2

LEMMA ChoosingFinds ==
  ASSUME Good, NEW c \in Callers, NEW f, Searcher(f), Present # {}, Choosing(c, f)
  PROVE  Finds(c, f)
<1>1. CASE Size < BucketSize
  <2>1. NextEvictKey \in Present
    BY WalkFinds DEF Good, SafeInv, TInv
  <2>2. Chosen(c, f, NextEvictKey)
    BY <1>1 DEF Choosing
  <2> QED BY <2>1, <2>2, ChosenFinds
<1>2. CASE ~(Size < BucketSize)
  <2> DEFINE s == Scan(now, Size, <<>>, 0, 0, NULL, NULL)
             g == [f EXCEPT !.at = "list", !.scan = s]
  <2>1. Goes(c, g) /\ result' = Pending
    BY <1>2 DEF Choosing
  <2> HIDE DEF s
  <2>2. /\ g.op = f.op /\ g.key = f.key /\ g.val = f.val /\ g.todo = f.todo
        /\ g.cap = f.cap
    BY DEF Searcher, Begun
  <2> HIDE DEF g
  <2>3. Called(g) = Called(f)
    BY <2>2, SameCalled
  <2> QED BY <2>1, <2>3 DEF Finds
<1> QED BY <1>1, <1>2

LEMMA NextEvictKeySim ==
  ASSUME Good, Good', NEW c \in Callers, UNCHANGED cache, NEW k \in Present,
         result' = Answer("next_evict_key", <<k>>),
         \/ Dict!Free(c) /\ UNCHANGED Calls
         \/ Calls[c].op = "next_evict_key" /\ Dict!Done(c)
  PROVE  Dict!Kept
<1>1. UNCHANGED Dict!Held /\ k \in Keys
  BY EntryContents DEF cache, Present, Dict!Held
<1>2. Dict!NextEvictKey(c, k)
  BY <1>1, ContentsIs DEF Dict!NextEvictKey, Dict!Answer, Answer
<1> QED BY <1>1, <1>2, StepKept DEF Dict!Step

\* The search of a call that is going on.
LEMMA FindsOn ==
  ASSUME Good, Good', NEW c \in Callers, Finds(c, call[c]), UNCHANGED cache PROVE Dict!Kept
<1>1. ASSUME call[c].op = "next_evict_key", Goes(c, Idle), NEW k \in Present,
             result' = Answer("next_evict_key", <<k>>)
      PROVE  Dict!Kept
  <2>1. Calls[c].op = "next_evict_key" /\ Dict!Done(c)
    BY <1>1, CallsAre, CalledIs, ReturnsCalls
  <2> QED BY <1>1, <2>1, NextEvictKeySim
<1>2. ASSUME result' = Pending, NEW g, Goes(c, g), Called(g) = Called(call[c]) PROVE Dict!Kept
  BY <1>2, EntryContents, GoesSim DEF cache
<1> QED BY <1>1, <1>2 DEF Finds

\* The search of a call that begins with the frame f.
LEMMA FindsFirst ==
  ASSUME Good, Good', NEW c \in Callers, CanCall(c), NEW f, Finds(c, f), Called(f) \in Dict!Asked,
         UNCHANGED cache
  PROVE  Dict!Kept
<1>1. ASSUME Goes(c, Idle), NEW k \in Present, result' = Answer("next_evict_key", <<k>>)
      PROVE  Dict!Kept
  <2>1. Dict!Free(c) /\ UNCHANGED Calls
    BY <1>1, FreeIs, IdleStays
  <2> QED BY <1>1, <2>1, NextEvictKeySim
<1>2. ASSUME result' = Pending, NEW g, Goes(c, g), Called(g) = Called(f) PROVE Dict!Kept
  BY <1>2, AskSim
<1> QED BY <1>1, <1>2 DEF Finds

\* The sampling goes on, or ends with a key of the cache.
LEMMA SampleSim ==
  ASSUME Good, Good', NEW c \in Callers, Sample(c) \/ SampleEnd(c) \/ ListKeys(c) PROVE Dict!Kept
<1> DEFINE f == call[c]
           s == f.scan
<1>1. f \in Frames /\ (f.at \in Choose => Searcher(f))
  BY CallData DEF Good, SafeInv
<1>2. CASE result' = Pending /\ UNCHANGED <<cache, call>>
  BY <1>2, EntryContents, SameCalls, QuietSim DEF cache
<1>3. ASSUME NEW z, Goes(c, [f EXCEPT !.scan = z]), UNCHANGED cache, result' = Pending
      PROVE  Dict!Kept
  <2> DEFINE g == [f EXCEPT !.scan = z]
  <2>1. g.op = f.op /\ g.key = f.key /\ g.val = f.val /\ g.todo = f.todo /\ g.cap = f.cap
    BY <1>1, FramesIs
  <2>2. Goes(c, g)
    BY <1>3
  <2> HIDE DEF g
  <2>3. Called(g) = Called(f)
    BY <2>1, SameCalled
  <2> QED BY <1>3, <2>2, <2>3, EntryContents, GoesSim DEF cache
<1>4. CASE Sample(c)
  <2>1. result' = Pending /\ UNCHANGED cache /\ (UNCHANGED call \/ \E z : Goes(c, [f EXCEPT !.scan = z]))
    BY Zenon, <1>4 DEF Sample, Crash
  <2> QED BY <1>2, <1>3, <2>1
<1>5. CASE ListKeys(c)
  <2> DEFINE g == [f EXCEPT !.at = "sample", !.scan.list = order]
  <2>1. Goes(c, g) /\ UNCHANGED cache /\ result' = Pending
    BY <1>5 DEF ListKeys
  <2>2. g.op = f.op /\ g.key = f.key /\ g.val = f.val /\ g.todo = f.todo /\ g.cap = f.cap
    BY <1>1, FramesIs
  <2> HIDE DEF g
  <2>3. Called(g) = Called(f)
    BY <2>2, SameCalled
  <2> QED BY <2>1, <2>3, EntryContents, GoesSim DEF cache
<1>6. CASE SampleEnd(c)
  <2>1. f.at = "sample" /\ s.i = BucketNum - 1
    BY <1>6 DEF SampleEnd, Inside
  <2>2. s.rv \in Present /\ s.key \in Present
    BY <2>1, ScanFinds, NumbersAssumption DEF ScanSound, Good
  <2>3. ASSUME NEW k \in {s.rv, s.key}, Sampled(c, k) PROVE Dict!Kept
    <3>1. k \in Present
      BY <2>2
    <3>2. Chosen(c, f, k) /\ UNCHANGED cache
      BY <2>3, <3>1 DEF Sampled
    <3>3. Searcher(f)
      BY <1>1, <2>1 DEF Choose
    <3> HIDE DEF f
    <3>4. Finds(c, f)
      BY <3>1, <3>2, <3>3, ChosenFinds
    <3> QED BY <3>2, <3>4, FindsOn DEF f
  <2>4. CASE result' = Pending /\ UNCHANGED <<cache, call>>
    BY <1>2, <2>4
  <2> QED BY <1>6, <2>3, <2>4 DEF SampleEnd, Crash
<1> QED BY <1>4, <1>5, <1>6

LEMMA FoundEmptySim ==
  ASSUME Good, Good', NEW c \in Callers, CanCall(c), UNCHANGED <<cache, call>>, Present = {},
         NEW op \in {"evict", "next_evict_key", "popitem"}, result' = Answer(op, <<>>)
  PROVE  Dict!Kept
<1>1. Dict!Free(c) /\ UNCHANGED <<Dict!Held, Calls>>
  BY FreeIs, SameCalls, EntryContents DEF Dict!Held, cache
<1>2. Dict!FoundEmpty(c)
  BY <1>1, ContentsIs DEF Dict!FoundEmpty, Dict!Answer, Answer
<1> QED BY <1>2, StepKept DEF Dict!Step

LEMMA EvictBeginSim ==
  ASSUME Good, Good', NEW c \in Callers, NEW op \in {"evict", "next_evict_key"}, EvictBegin(c, op)
  PROVE  Dict!Kept
<1> DEFINE f == Frame(op, "evict", NULL, NULL, <<>>)
<1>1. UNCHANGED cache /\ CanCall(c)
  BY DEF EvictBegin
<1>2. CASE Present = {}
  BY <1>1, <1>2, FoundEmptySim DEF EvictBegin
<1>3. CASE Present # {}
  <2>1. Choosing(c, f)
    BY <1>3 DEF EvictBegin
  <2>2. Searcher(f)
    <3>1. <<>> \in Seq(Keys \X Values)
      BY EmptySeq
    <3> QED BY <3>1, NoScanType DEF Searcher, Frame, Begun, Ops, Puts
  <2>3. Called(f) \in Dict!Asked
    <3>1. Called(f) = Dict!Bare(op)
      BY CalledIs DEF Frame, Puts
    <3> HIDE DEF f
    <3> QED BY <3>1, AskedIs
  <2> HIDE DEF f
  <2> QED BY <1>1, <1>3, <2>1, <2>2, <2>3, ChoosingFinds, FindsFirst
<1> QED BY <1>2, <1>3

LEMMA MakeRoomSim ==
  ASSUME Good, Good', NEW c \in Callers, MakeRoom(c) PROVE Dict!Kept
<1> DEFINE f == call[c]
<1>1. f.at = "lookup" /\ f.op \in Puts /\ UNCHANGED cache /\ f \in Frames
  BY CallData DEF MakeRoom, Inside, FrameOK, Good, SafeInv
<1>2. CASE ~Full
  <2> DEFINE g == At(f, "insert")
  <2>1. Goes(c, g) /\ result' = Pending
    BY <1>2 DEF MakeRoom
  <2>2. g.op = f.op /\ g.key = f.key /\ g.val = f.val /\ g.todo = f.todo /\ g.cap = f.cap
    BY <1>1, FramesIs DEF At
  <2> HIDE DEF g
  <2>3. Called(g) = Called(f)
    BY <2>2, SameCalled
  <2> QED BY <1>1, <2>1, <2>3, EntryContents, GoesSim DEF cache
<1>3. CASE Full
  <2>1. Present # {}
    <3>1. Size # 0
      BY <1>3, Sizes, CapacitiesAssumption DEF Full, Good, SafeInv, TInv, ScalarsOK
    <3> QED BY <3>1, FS_EmptySet DEF Size
  <2>2. Searcher(f)
    BY <1>1, CallData DEF Searcher, FrameData, Puts, Good, SafeInv
  <2>3. Choosing(c, f)
    BY <1>3 DEF MakeRoom
  <2> HIDE DEF f
  <2>4. Finds(c, f)
    BY <2>1, <2>2, <2>3, ChoosingFinds
  <2> QED BY <1>1, <2>4, FindsOn DEF f
<1> QED BY <1>2, <1>3

\* An entry vanishes, because evict() was called or to make room.
LEMMA EvictSim == ASSUME Good, Good', NEW c \in Callers, Evict(c) PROVE Dict!Kept
<1> DEFINE f == call[c]
           k == f.victim
<1>1. /\ f.at = "victim" /\ k \in Present /\ Drop(k) /\ f \in Frames
      /\ Evicted(c, f) /\ UNCHANGED <<capacity, now, fault>>
  BY CallData DEF Evict, Inside, Good, SafeInv
<1>2. f.at \in Choose /\ f.op \in Puts \cup {"evict", "set_capacity"}
  BY <1>1, CallData DEF FrameOK, Choose, Good, SafeInv
<1>3. Dict!Unset(k) /\ k \in Keys /\ k \in Dict!Present
  BY <1>1, UnsetIs, ContentsIs
<1>4. Sound(f, Present, Size, order, entry, capacity)
  BY CallSound DEF Good
<1>5. CASE f.op = "evict"
  <2>1. result' = Answer("evict", <<k>>) /\ Goes(c, Idle)
    BY <1>1, <1>5 DEF Evicted, Returns
  <2>2. Calls[c].op = "evict" /\ Dict!Done(c)
    BY <1>5, <2>1, CallsAre, CalledIs, ReturnsCalls
  <2> HIDE DEF k, f
  <2>3. Dict!Evict(c, k)
    BY <1>1, <1>3, <2>1, <2>2 DEF Dict!Evict, Dict!Answer, Answer
  <2> QED BY <1>3, <2>3, StepKept DEF Dict!Step
<1>6. CASE f.op # "evict"
  <2>1. result' = Pending
    BY <1>1, <1>2, <1>6 DEF Evicted, Puts
  <2>2. Calls' = Calls
    <3>1. ASSUME NEW g, Goes(c, g), g.op = f.op, g.key = f.key, g.val = f.val,
                 g.todo = f.todo, g.cap = f.cap
          PROVE  Calls' = Calls
      BY <3>1, SameCalled, GoesCalls
    <3>2. CASE f.op = "set_capacity"
      <4> DEFINE g == [f EXCEPT !.at = "again", !.left = @ - 1, !.victim = NULL, !.scan = NoScan]
      <4>1. Goes(c, g)
        BY <1>1, <3>2 DEF Evicted
      <4>2. g.op = f.op /\ g.key = f.key /\ g.val = f.val /\ g.todo = f.todo /\ g.cap = f.cap
        BY <1>1, FramesIs
      <4> HIDE DEF g
      <4> QED BY <3>1, <4>1, <4>2
    <3>3. CASE f.op \in Puts
      <4> DEFINE g == [f EXCEPT !.at = "insert", !.victim = NULL, !.scan = NoScan]
      <4>1. Goes(c, g)
        BY <1>1, <3>3 DEF Evicted, Puts
      <4>2. g.op = f.op /\ g.key = f.key /\ g.val = f.val /\ g.todo = f.todo /\ g.cap = f.cap
        BY <1>1, FramesIs
      <4> HIDE DEF g
      <4> QED BY <3>1, <4>1, <4>2
    <3> QED BY <1>2, <1>6, <3>2, <3>3
  <2>3. \/ Calls[c].op \in Dict!Puts /\ Calls[c].key \notin Dict!Present /\ Dict!Size >= capacity
        \/ Calls[c].op = "set_capacity" /\ Dict!Size > Calls[c].val
    <3>1. CASE f.op \in Puts
      <4>1. f.key \notin Present /\ Size >= capacity
        BY <1>2, <1>4, <3>1 DEF Sound
      <4>2. Calls[c].op = f.op /\ Calls[c].key = f.key
        BY <3>1, CallsAre, CalledIs DEF Dict!Call
      <4>3. f.op \in Dict!Puts
        BY <3>1 DEF Puts, Dict!Puts
      <4> HIDE DEF f
      <4> QED BY <4>1, <4>2, <4>3, ContentsIs
    <3>2. CASE f.op = "set_capacity"
      <4>1. Size = f.cap + f.left /\ f.left \in Nat /\ f.left >= 1 /\ f.cap \in Nat
        BY <1>2, <1>4, <3>2, CallData, FieldTypes, CapacitiesAssumption
           DEF Good, SafeInv, FrameData, Sound
      <4>2. Calls[c].op = "set_capacity" /\ Calls[c].val = f.cap
        BY <3>2, CallsAre, CalledIs DEF Dict!Call
      <4> HIDE DEF f
      <4> QED BY <4>1, <4>2, ContentsIs
    <3> QED BY <1>2, <1>6, <3>1, <3>2
  <2> HIDE DEF k, f
  <2>4. Dict!MakeRoom(c, k)
    BY <1>1, <1>3, <2>1, <2>2, <2>3 DEF Dict!MakeRoom, Dict!Pending, Dict!Answer, Pending, Answer
  <2> QED BY <1>3, <2>4, StepKept DEF Dict!Step
<1> QED BY <1>5, <1>6

-----------------------------------------------------------------------------
(* Puts *)

LEMMA PutDoneIs ==
  ASSUME Good, NEW c \in Callers, call[c].op \in Puts, PutDone(c, call[c])
  PROVE  LET q == Calls[c] IN
         IF q.todo = <<>> THEN Dict!Done(c) /\ result' = Dict!PutAnswer(q)
                          ELSE Dict!Asks(c, Dict!Updating(q.todo)) /\ result' = Dict!Pending
<1> DEFINE f == call[c]
           q == Calls[c]
<1>1. q.op = f.op /\ q.key = f.key /\ q.val = f.val /\ q.todo = f.todo
  BY CallsAre, CalledIs DEF Dict!Call
<1>2. CASE f.todo # <<>>
  <2>1. Goes(c, Updating(f.todo)) /\ result' = Pending
    BY <1>2 DEF PutDone
  <2>2. Dict!Asks(c, Dict!Updating(f.todo))
    BY <2>1, GoesCalls, UpdatingCalled
  <2> HIDE DEF f, q
  <2>3. q.todo # <<>> /\ Dict!Asks(c, Dict!Updating(q.todo)) /\ result' = Dict!Pending
    BY <1>1, <1>2, <2>1, <2>2 DEF Dict!Pending, Dict!Answer, Pending, Answer
  <2> QED BY <2>3 DEF q
<1>3. CASE f.todo = <<>>
  <2>1. /\ Goes(c, Idle)
        /\ result' = Answer(f.op, IF f.op \in {"setdefault", "setnx"} THEN <<f.key, f.val>> ELSE <<>>)
    BY <1>3 DEF PutDone, Returns
  <2>2. Dict!Done(c)
    BY <2>1, ReturnsCalls
  <2> HIDE DEF f, q
  <2>3. q.todo = <<>> /\ result' = Dict!PutAnswer(q)
    BY <1>1, <1>3, <2>1 DEF Dict!PutAnswer, Dict!Answer, Answer
  <2> QED BY <2>2, <2>3 DEF q
<1> QED BY <1>2, <1>3

LEMMA PutSim ==
  ASSUME Good, Good', NEW c \in Callers, Replace(c) \/ Insert(c) PROVE Dict!Kept
<1> DEFINE f == call[c]
           v == f.val
           q == Calls[c]
<1>1. /\ f.op \in Puts /\ PutDone(c, f) /\ UNCHANGED capacity
      /\ f.key \in Keys /\ f.val \in Values
  BY CallData DEF Replace, Insert, Inside, FrameOK, FrameData, Good, SafeInv
<1>2. q.op = f.op /\ q.key = f.key /\ q.val = v
  BY <1>1, CallsAre, CalledIs DEF Dict!Call
<1>3. IF q.todo = <<>> THEN Dict!Done(c) /\ result' = Dict!PutAnswer(q)
                       ELSE Dict!Asks(c, Dict!Updating(q.todo)) /\ result' = Dict!Pending
  BY <1>1, PutDoneIs
<1>4. /\ Present' = Present \cup {f.key} /\ entry'[f.key].value = v
      /\ \A j \in Present \ {f.key} : entry'[j] = entry[j]
  <2>1. CASE Replace(c)
    <3>1. f.key \in Present /\ entry' = [entry EXCEPT ![f.key].value = v] /\ UNCHANGED now
      BY <2>1 DEF Replace
    <3>2. Present' = Present
      BY <1>1, <3>1, ReplaceEntry DEF Good, SafeInv, TInv
    <3>3. entry'[f.key].value = v
      BY <3>1, EntryType DEF Good, SafeInv, TInv, EntryOK, Entries
    <3> QED BY <3>1, <3>2, <3>3 DEF Good, SafeInv, IInv, Typed, Present
  <2>2. CASE Insert(c)
    <3>1. Present' = Present \cup {f.key}
      BY <2>2, InsertT DEF Good, SafeInv
    <3>2. entry' = [entry EXCEPT ![f.key] = Entry(v, DefaultVisits, now)]
      BY <2>2 DEF Insert
    <3> QED BY <1>1, <3>1, <3>2 DEF Good, SafeInv, IInv, Typed, Present, Entry
  <2> QED BY <2>1, <2>2
<1>5. f.key \in Present \/ Size < capacity
  <2>1. CASE Replace(c)
    BY <2>1 DEF Replace
  <2>2. CASE Insert(c)
    <3>1. c \in Inserters
      BY <2>2 DEF Insert, Inside, Inserters
    <3> QED BY <3>1 DEF Good, SafeInv, IInv, KeptInv
  <2> QED BY <2>1, <2>2
<1> HIDE DEF f, q
<1>6. Dict!Set(f.key, v)
  BY <1>4, ContentsIs DEF Dict!Set, Contents
<1>7. q.op \in Dict!Puts /\ (q.key \in Dict!Present \/ Dict!Size < capacity) /\ Dict!Set(q.key, q.val)
  BY <1>1, <1>2, <1>5, <1>6, ContentsIs DEF Puts, Dict!Puts
<1>8. Dict!Put(c)
  BY <1>1, <1>3, <1>7 DEF Dict!Put, q
<1> QED BY <1>8, StepKept DEF Dict!Step

-----------------------------------------------------------------------------
(* The capacity *)

LEMMA SetCapacitySim ==
  ASSUME Good, Good', NEW c \in Callers, NEW n \in Capacities, SetCapacity(c, n) \/ Reinit(c, n)
  PROVE  Dict!Kept
<1>1. /\ n \in Nat /\ capacity \in Nat /\ Size \in Nat /\ Size <= capacity
      /\ CanCall(c) /\ UNCHANGED entry
  BY Sizes, CapacitiesAssumption
     DEF Good, SafeInv, TInv, ScalarsOK, IInv, KeptInv, SetCapacity, Reinit
<1>2. CASE SetCapacity(c, n) /\ n < capacity /\ Size > n
  <2> DEFINE f == [Frame("set_capacity", "evict", NULL, NULL, <<>>) EXCEPT !.left = Size - n, !.cap = n]
  <2>1. Choosing(c, f) /\ UNCHANGED cache
    BY <1>2 DEF SetCapacity, cache
  <2>2. Searcher(f) /\ f.op = "set_capacity" /\ f.cap = n /\ Present # {}
    BY Zenon, <1>2, ShrinkerType DEF Good, SafeInv
  <2> HIDE DEF f
  <2>3. Called(f) = Dict!Call("set_capacity", NULL, n, <<>>)
    BY <2>2, CalledIs
  <2>4. Called(f) \in Dict!Asked
    BY <1>1, <1>2, <2>3, AskedIs
  <2> QED BY <1>1, <2>1, <2>2, <2>4, ChoosingFinds, FindsFirst
<1>3. ASSUME capacity' = n, UNCHANGED call, Size <= n,
             result' \in {Answer("set_capacity", <<n>>), Answer("init", <<n>>)}
      PROVE  Dict!Kept
  <2>1. Dict!Free(c) /\ Contents' = Contents /\ Calls' = Calls
    BY <1>1, <1>3, FreeIs, SameCalls, EntryContents
  <2>2. Dict!SetCapacity(c, n)
    BY <1>3, <2>1, ContentsIs DEF Dict!SetCapacity, Dict!Answer, Answer
  <2> QED BY <2>2, StepKept DEF Dict!Step
<1>4. CASE SetCapacity(c, n) /\ ~(n < capacity /\ Size > n)
  <2>1. Size <= n
    BY <1>1, <1>4
  <2> QED BY <1>3, <1>4, <2>1 DEF SetCapacity
<1>5. CASE Reinit(c, n)
  <2>1. n >= capacity
    BY <1>1, <1>5 DEF Reinit, Good, Kept
  <2> QED BY <1>1, <1>3, <1>5, <2>1 DEF Reinit
<1> QED BY <1>2, <1>4, <1>5

LEMMA ShrinkOnSim ==
  ASSUME Good, Good', NEW c \in Callers, ShrinkOn(c) PROVE Dict!Kept
<1> DEFINE f == call[c]
<1>1. f.at = "again" /\ f.op = "set_capacity" /\ UNCHANGED <<entry, order>>
  BY CallData DEF ShrinkOn, Inside, FrameOK, Good, SafeInv
<1>2. f.cap \in Capacities /\ f.left \in Nat /\ f.cap \in Nat \ {0} /\ Size = f.cap + f.left
  BY <1>1, CallSound, CallData, FieldTypes, CapacitiesAssumption
     DEF FrameData, Good, SafeInv, Sound
<1>3. CASE More(f) /\ Present # {}
  <2>1. Choosing(c, f) /\ UNCHANGED cache
    BY <1>1, <1>3 DEF ShrinkOn, cache
  <2>2. Searcher(f)
    BY <1>1, <1>2, <1>3, CallData DEF Searcher, More, Puts, Good, SafeInv
  <2> HIDE DEF f
  <2>3. Finds(c, f)
    BY <1>3, <2>1, <2>2, ChoosingFinds
  <2> QED BY <2>1, <2>3, FindsOn DEF f
<1>4. CASE ~(More(f) /\ Present # {})
  <2> DEFINE n == f.cap
  <2>1. capacity' = n /\ Goes(c, Idle) /\ result' = Answer("set_capacity", <<n>>)
    BY <1>4 DEF ShrinkOn, Returns
  <2>2. Size <= n
    <3>1. Present = {} => Size = 0
      BY FS_EmptySet DEF Size
    <3> QED BY <1>2, <1>4, <3>1 DEF More
  <2>3. Calls[c].op = "set_capacity" /\ Calls[c].val = n /\ Dict!Done(c) /\ Contents' = Contents
    BY <1>1, <2>1, CallsAre, CalledIs, ReturnsCalls, EntryContents DEF Dict!Call
  <2>4. n \in Capacities
    BY <1>2
  <2> HIDE DEF f, n
  <2>5. Dict!SetCapacity(c, n)
    BY <2>1, <2>2, <2>3, ContentsIs DEF Dict!SetCapacity, Dict!Answer, Answer
  <2> QED BY <2>4, <2>5, StepKept DEF Dict!Step
<1> QED BY <1>3, <1>4

-----------------------------------------------------------------------------
(* All entries *)

LEMMA ItemsSim == ASSUME Good, Good', NEW c \in Callers, ValuesOf(c) PROVE Dict!Kept
<1>1. /\ UNCHANGED <<order, capacity, now, call>> /\ CanCall(c)
      /\ entry' = [k \in Keys |-> IF k \in Present THEN Visited(entry[k]) ELSE NULL]
      /\ result' = Answer("items", [i \in 1..Len(order) |-> <<order[i], entry[order[i]].value>>])
  BY DEF ValuesOf
<1>2. Contents' = Contents
  <2>1. \A k \in Present : Visited(entry[k]) # NULL /\ Visited(entry[k]).value = entry[k].value
    <3>1. \A k \in Present : Visited(entry[k]) # NULL
      BY EntryType, NotNull DEF Good, SafeInv, TInv, ScalarsOK
    <3> QED BY <3>1 DEF Visited, Entry
  <2> HIDE DEF Visited
  <2>2. Present' = Present /\ \A k \in Present : entry'[k].value = entry[k].value
    BY <1>1, <2>1 DEF Present
  <2> QED BY <2>2, SameContents
<1>3. Dict!Free(c) /\ UNCHANGED <<Dict!Held, Calls>>
  BY <1>1, <1>2, FreeIs, SameCalls DEF Dict!Held
<1> DEFINE n == Len(order)
           out == [i \in 1..n |-> <<order[i], entry[order[i]].value>>]
<1>4. /\ n \in Nat /\ n = Size /\ \A i \in 1..n : order[i] \in Present
      /\ \A k \in Present : \E i \in 1..n : order[i] = k
  BY LenProperties, ElementOfSeq DEF Good, SafeInv, TInv, OrderOK
<1> HIDE DEF n
<1>5. result'.op = "items" /\ result'.out = out
  BY <1>1 DEF Answer, n
<1>6. Len(out) = n
  BY <1>4
<1>7. {out[i] : i \in 1..n} = {<<k, Contents[k]>> : k \in Present}
  <2>1. \A i \in 1..n : out[i] = <<order[i], Contents[order[i]]>>
    BY <1>4, ContentsIs
  <2> HIDE DEF out
  <2> QED BY <1>4, <2>1
<1> HIDE DEF out
<1>8. Dict!Items(c)
  BY <1>3, <1>4, <1>5, <1>6, <1>7, ContentsIs DEF Dict!Items
<1> QED BY <1>8, StepKept DEF Dict!Step

LEMMA ClearSim == ASSUME Good, Good', NEW c \in Callers, Clear(c) PROVE Dict!Kept
<1>1. /\ entry' = [k \in Keys |-> NULL] /\ result' = Answer("clear", <<>>)
      /\ UNCHANGED <<capacity, call>> /\ CanCall(c)
  BY DEF Clear
<1>2. Present' = {}
  BY <1>1 DEF Present
<1>3. Contents' = [k \in {} |-> 0]
  BY <1>2 DEF Contents
<1>4. Dict!Clear(c)
  BY <1>1, <1>3, FreeIs, SameCalls DEF Dict!Clear, Dict!Answer, Answer
<1> QED BY <1>4, StepKept DEF Dict!Step

LEMMA PopItemSim ==
  ASSUME Good, Good', NEW c \in Callers, PopItemBegin(c) \/ PopItemFound(c) \/ PopItemEnd(c)
  PROVE  Dict!Kept
<1>0. \A at, k, v : Called(Frame("popitem", at, k, v, <<>>)) = Dict!Bare("popitem")
  BY DEF Called, Frame, Puts, Dict!Bare, Dict!Call
<1>1. CASE PopItemBegin(c)
  <2>1. CASE Present = {}
    BY <1>1, <2>1, FoundEmptySim DEF PopItemBegin
  <2>2. CASE Present # {}
    BY <1>0, <1>1, <2>2, AskedIs, AskSim DEF PopItemBegin
  <2> QED BY <2>1, <2>2
<1>2. CASE PopItemFound(c)
  <2> DEFINE k == call[c].key
             g == Frame("popitem", "pair", k, entry[k].value, <<>>)
  <2>1. /\ call[c].at = "first" /\ UNCHANGED <<order, capacity, now>> /\ result' = Pending
    BY <1>2 DEF PopItemFound, Inside
  <2>2. k \in Present
    BY <2>1, CallSound DEF Sound, Good
  <2>3. entry' = [entry EXCEPT ![k] = Visited(@)] /\ Goes(c, g)
    BY <1>2, <2>2 DEF PopItemFound
  <2>4. Called(g) = Called(call[c])
    <3>1. call[c].op = "popitem"
      BY <2>1, CallData DEF FrameOK, Good, SafeInv
    <3>2. Called(call[c]) = Dict!Bare("popitem")
      BY <3>1, CalledIs DEF Puts
    <3> QED BY <1>0, <3>2
  <2> HIDE DEF g, k
  <2>5. Contents' = Contents
    BY <2>1, <2>2, <2>3, VisitContents
  <2> QED BY <2>1, <2>3, <2>4, <2>5, GoesSim
<1>3. CASE PopItemEnd(c)
  <2> DEFINE f == call[c]
             k == f.key
  <2>1. /\ f.at = "pair" /\ f.op = "popitem" /\ Goes(c, Idle) /\ UNCHANGED capacity
        /\ result' = Answer("popitem", <<k, f.val>>)
    BY <1>3, CallData DEF PopItemEnd, Returns, Inside, FrameOK, Good, SafeInv
  <2>2. k \in Present /\ entry[k].value = f.val
    BY <2>1, CallSound DEF Sound, Good
  <2>3. Drop(k)
    <3>1. breach' # breach \cup {"raised"}
      BY DEF Good, Kept
    <3> QED BY <1>3, <2>2, <3>1 DEF PopItemEnd
  <2>4. Calls[c].op = "popitem" /\ Dict!Done(c)
    BY <2>1, CallsAre, CalledIs, ReturnsCalls
  <2> HIDE DEF f, k
  <2>5. Dict!Evict(c, k) /\ k \in Keys
    BY <2>1, <2>2, <2>3, <2>4, UnsetIs, ContentsIs DEF Dict!Evict, Dict!Answer, Answer
  <2> QED BY <2>5, StepKept DEF Dict!Step
<1> QED BY <1>1, <1>2, <1>3

-----------------------------------------------------------------------------

LEMMA EnterSim == ASSUME Good, Good', NEW c \in Callers, Enter(c) PROVE Dict!Kept
<1>1. ASSUME NEW k \in Keys, NEW v \in Values, PutBegin(c, k, v) PROVE Dict!Kept
  BY <1>1, PutBeginSim
<1>2. ASSUME NEW k \in Keys, Subscript(c, k) \/ Get(c, k) \/ Delete(c, k) \/ PopBegin(c, k)
      PROVE Dict!Kept
  BY <1>2, GetSim, DeleteSim, PopSim
<1>3. ASSUME NEW k \in Keys, NEW op \in {"setdefault", "setnx"}, PresentDefault(c, op, k)
      PROVE  Dict!Kept
  <2>1. NULL \in Values \cup {NULL}
    OBVIOUS
  <2> QED BY <1>3, <2>1, DefaultSim
<1>4. ASSUME NEW k \in Keys, NEW v \in Values, AbsentDefault(c, "setnx", k, v) PROVE Dict!Kept
  <2>1. v # NULL
    BY NullAssumption
  <2> QED BY <1>4, <2>1, DefaultSim
<1>5. ASSUME NEW k \in Keys, NEW v \in Values \cup {NULL}, AbsentDefault(c, "setdefault", k, v)
      PROVE  Dict!Kept
  BY <1>5, DefaultSim
<1>6. ASSUME NEW u \in Updates, Update(c, u[1], u[2]) PROVE Dict!Kept
  BY <1>6, UpdateSim
<1>7. ASSUME NEW op \in {"evict", "next_evict_key"}, EvictBegin(c, op) PROVE Dict!Kept
  BY <1>7, EvictBeginSim
<1>8. ASSUME NEW n \in Capacities, SetCapacity(c, n) \/ Reinit(c, n) PROVE Dict!Kept
  BY <1>8, SetCapacitySim
<1> QED BY <1>1, <1>2, <1>3, <1>4, <1>5, <1>6, <1>7, <1>8, ItemsSim, ClearSim, PopItemSim
        DEF Enter

LEMMA GoOnSim == ASSUME Good, Good', NEW c \in Callers, GoOn(c) PROVE Dict!Kept
<1>1. ~ListNoMemory(c)
  BY DEF ListNoMemory, Good, Kept
<1>2. ~PopEnd(c)
  BY CallSound DEF PopEnd, Inside, Sound, Good
<1> QED BY <1>1, <1>2, PutSim, MakeRoomSim, SampleSim, EvictSim, ShrinkOnSim, FailsSim, PopItemSim
        DEF GoOn

LEMMA BreachStays == ASSUME Next PROVE breach \subseteq breach'
<1>1. CASE Tick
  BY <1>1 DEF Tick
<1>2. ASSUME NEW c \in Callers, Enter(c) PROVE breach \subseteq breach'
  <2>1. ASSUME NEW k, NEW v, NEW op, PutBegin(c, k, v) \/ PresentDefault(c, op, k) \/ AbsentDefault(c, op, k, v)
        PROVE  breach \subseteq breach'
    BY <2>1 DEF PutBegin, PresentDefault, AbsentDefault
  <2>2. ASSUME NEW k, Subscript(c, k) \/ Get(c, k) \/ Delete(c, k) \/ PopBegin(c, k)
        PROVE  breach \subseteq breach'
    BY <2>2 DEF Subscript, Get, Delete, PopBegin
  <2>3. ASSUME NEW u, NEW op, Update(c, u[1], u[2]) \/ EvictBegin(c, op) PROVE breach \subseteq breach'
    BY <2>3 DEF Update, EvictBegin
  <2>4. ASSUME NEW n, SetCapacity(c, n) \/ Reinit(c, n) PROVE breach \subseteq breach'
    BY <2>4 DEF SetCapacity, Reinit
  <2>5. CASE ValuesOf(c) \/ PopItemBegin(c) \/ Clear(c)
    BY <2>5 DEF ValuesOf, PopItemBegin, Clear
  <2> QED BY <1>2, <2>1, <2>2, <2>3, <2>4, <2>5 DEF Enter
<1>3. ASSUME NEW c \in Callers, GoOn(c) PROVE breach \subseteq breach'
  <2>1. CASE Replace(c) \/ MakeRoom(c) \/ Insert(c) \/ Evict(c) \/ ShrinkOn(c) \/ Fails(c)
    BY <2>1 DEF Replace, MakeRoom, Insert, Evict, ShrinkOn, Fails
  <2>2. CASE ListKeys(c) \/ ListNoMemory(c) \/ PopItemFound(c) \/ PopItemEnd(c) \/ PopEnd(c)
    BY <2>2 DEF ListKeys, ListNoMemory, PopItemFound, PopItemEnd, PopEnd
  <2>3. CASE Sample(c)
    BY <2>3 DEF Sample
  <2>4. CASE SampleEnd(c)
    BY <2>4 DEF SampleEnd, Sampled
  <2> QED BY <1>3, <2>1, <2>2, <2>3, <2>4 DEF GoOn
<1> QED BY <1>1, <1>2, <1>3 DEF Next

LEMMA StepSim == SafeInv /\ SafeInv' /\ [Next]_vars => [Dict!Next]_(Dict!vars)
<1>1. UNCHANGED vars => UNCHANGED Dict!vars
  <2> SUFFICES ASSUME UNCHANGED vars PROVE UNCHANGED Dict!vars
    OBVIOUS
  <2>1. Contents' = Contents /\ Calls' = Calls
    BY EntryContents, SameCalls DEF vars, cache
  <2> QED BY <2>1 DEF vars, cache, Dict!vars
<1>2. breach' # {} \/ ~OneDict => Dict!Next
  BY DEF Dict!Next
<1>3. ASSUME SafeInv, SafeInv', Next, breach' = {}, OneDict PROVE Dict!Next
  <2>1. Good /\ Good'
    BY <1>3, BreachStays DEF Good, Kept
  <2>2. Dict!Kept
    BY <1>3, <2>1, TickSim, EnterSim, GoOnSim DEF Next
  <2> QED BY <2>1, <2>2 DEF Dict!Next, Good, Kept
<1> QED BY <1>1, <1>2, <1>3

\* The cache implements the bounded dictionary, whatever Python code runs
\* inside its calls, for clients that keep to the contract and call update()
\* with a dict or with keywords: what is put is what was asked for, and only
\* when there is room; an entry vanishes on its own only while a call puts a
\* new one into a full cache or lowers the capacity; and every answer is of
\* the key that was asked about, what the dictionary holds as the call returns.
THEOREM Refines == Spec => IsBounded
<1>1. Init => Dict!Init
  <2> SUFFICES ASSUME Init PROVE Dict!Init
    OBVIOUS
  <2>1. Contents = [k \in {} |-> 0]
    BY DEF Init, Present, Contents
  <2>2. Calls = [c \in Callers |-> Dict!Bare("idle")]
    BY IdleCalled DEF Init, Calls
  <2>3. (breach # {} \/ ~OneDict) \in BOOLEAN
    OBVIOUS
  <2> QED BY <2>1, <2>2, <2>3 DEF Init, Dict!Init, Dict!Answer, Answer, Dict!Pending, Pending
<1>2. Spec => []SafeInv
  BY InitSafe, StepSafe, PTL DEF Spec
<1> QED BY <1>1, <1>2, StepSim, PTL DEF Spec, IsBounded
=============================================================================
