--------------------------- MODULE TTLCacheProofs ---------------------------
(***************************************************************************)
(* Theorems about TTLCache, for every set of keys, values, callers and     *)
(* ttls, every width of the integers and every precision of the clock.     *)
(***************************************************************************)
EXTENDS TTLCache, SequenceTheorems, TLAPS

(* Ticks and seconds *)

LEMMA DivBounds ==
  ASSUME NEW S \in Nat \ {0}, NEW n \in Nat
  PROVE  /\ n \div S \in Nat
         /\ S * (n \div S) <= n
         /\ n < S * (n \div S) + S
  OBVIOUS

LEMMA Product ==
  ASSUME NEW S \in Nat, NEW a \in Nat, NEW b \in Nat
  PROVE  S * (a + b) = S * a + S * b /\ S * a \in Nat
  OBVIOUS

LEMMA Monotone ==
  ASSUME NEW S \in Nat, NEW a \in Int, NEW b \in Int, a <= b
  PROVE  S * a <= S * b
  OBVIOUS

\* The arithmetic of NotLost and of Fresh: what has expired was made more than
\* its ttl ago, and what has not was made less than one second more ago.
LEMMA ExpiredArith ==
  ASSUME NEW S \in Nat \ {0}, NEW made \in Nat, NEW n \in Nat, NEW ttl \in Nat
  PROVE  /\ made \div S + ttl < n \div S => n > made + ttl * S
         /\ made \div S + ttl >= n \div S => n < made + (ttl + 1) * S
<1> DEFINE m == made \div S
           q == n \div S
<1>1. m \in Nat /\ S * m <= made /\ made < S * m + S
  BY DivBounds
<1>2. q \in Nat /\ S * q <= n /\ n < S * q + S
  BY DivBounds
<1>3. /\ S * (m + ttl) = S * m + S * ttl /\ S * ttl = ttl * S /\ S * ttl \in Nat
      /\ S * (m + ttl + 1) = S * m + S * ttl + S
      /\ (ttl + 1) * S = S * ttl + S
      /\ S * m \in Nat /\ S * q \in Nat
  BY <1>1, <1>2
<1> HIDE DEF m, q
<1>4. ASSUME m + ttl < q PROVE n > made + ttl * S
  <2>1. S * (m + ttl + 1) <= S * q
    BY <1>1, <1>2, <1>4, Monotone
  <2> QED BY <1>1, <1>2, <1>3, <2>1
<1>5. ASSUME m + ttl >= q PROVE n < made + (ttl + 1) * S
  <2>1. S * q <= S * (m + ttl)
    BY <1>1, <1>2, <1>5, Monotone
  <2> QED BY <1>1, <1>2, <1>3, <2>1
<1> QED BY <1>4, <1>5 DEF m, q

LEMMA SubSeqType ==
  ASSUME NEW S, NEW s \in Seq(S), NEW m \in Nat \ {0}
  PROVE  SubSeq(s, m, Len(s)) \in Seq(S)
<1>1. CASE m \in 1..Len(s)+1
  BY <1>1, SubSeqProperties
<1>2. CASE m \notin 1..Len(s)+1
  BY <1>2
<1> QED BY <1>1, <1>2

-----------------------------------------------------------------------------
(* The invariant *)

\* Where a frame is says which methods it can be inside, and what it knows.
FrameOK(f) ==
  /\ f.at # "idle" => f.key \in Keys
  /\ f.at = "expired" => f.op \in {"get", "pop", "setdefault"}
  /\ f.at \in {"lookup", "store", "alloc", "insert"} =>
       f.op \in Puts /\ f.val \in Values
  /\ f.at = "expired" /\ f.op = "setdefault" => f.val \in Values
  /\ f.at \in {"alloc", "insert"} => f.ttl \in Ttls
  /\ f.at = "pop" => f.op = "pop"
  /\ f.at \in {"first", "pair"} => f.op = "popitem"

Typed == TypeOK /\ \A c \in Callers : FrameOK(call[c])

\* The rest is about clients that keep to the contract.  An entry, and a frame
\* that is to insert one, has the expiry that its ghosts say.
Expires(made, ttl) == made \div Second + ttl
EntrySound(e) == e.expire = Expires(e.made, e.ttl) /\ e.made <= e.put

\* What a frame has found is still there, and has expired if it had.
FrameSound(f) ==
  /\ f.at \in Delicate => f.key \in Present
  /\ f.at = "expired" => Expired(f.key)
  /\ f.at = "pair" => f.val = entry[f.key].value
  /\ f.at = "insert" => f.expire = Expires(f.made, f.ttl)

\* A value that has been released is one that a frame is about to replace.
FreedOK == \A k \in Present :
             entry[k].freed => \E c \in Callers : call[c].at = "store" /\ call[c].key = k

Sound == /\ fault = "none"
         /\ \A k \in Present : EntrySound(entry[k])
         /\ \A c \in Callers : FrameSound(call[c])
         /\ FreedOK

IInv == Typed /\ (Kept => Sound)

-----------------------------------------------------------------------------
(* What every step has in common *)

LEMMA NowRange ==
  ASSUME TypeOK
  PROVE  now \in Nat /\ NOW \in 0..IntMax
<1>1. now \in Nat /\ MaxNow \in Nat /\ now <= MaxNow /\ Second \in Nat \ {0}
      /\ MaxNow \div Second <= IntMax /\ IntMax \in Nat
  BY TimeAssumption DEF TypeOK
<1>2. /\ now \div Second \in Nat /\ Second * (now \div Second) <= now
      /\ MaxNow \div Second \in Nat /\ MaxNow < Second * (MaxNow \div Second) + Second
  BY <1>1, DivBounds
<1> DEFINE q == now \div Second
           m == MaxNow \div Second
<1>3. q <= m
  <2> SUFFICES ASSUME m + 1 <= q PROVE FALSE
    BY <1>2
  <2>1. Second * (m + 1) <= Second * q /\ Second * (m + 1) = Second * m + Second
    BY <1>1, <1>2, Monotone
  <2> HIDE DEF m, q
  <2>2. m \in Nat /\ q \in Nat /\ Second * m \in Nat /\ Second * q \in Nat
    BY <1>1, <1>2 DEF m, q
  <2> QED BY <1>1, <1>2, <2>1, <2>2 DEF m, q
<1> QED BY <1>1, <1>2, <1>3 DEF NOW

LEMMA WrapType ==
  ASSUME NEW n \in 0..(IntMax + IntMax)
  PROVE  Wrap(n) \in Seconds /\ (n <= IntMax => Wrap(n) = n)
  BY TimeAssumption DEF Wrap, Seconds

\* A step of frame c, which becomes g, that may touch the entries of ks.
Touches(c, g, ks) ==
  /\ FrameOK(g) /\ call' = [call EXCEPT ![c] = g]
  /\ now' = now /\ default_ttl' \in Ttls
  /\ entry' \in [Keys -> {NULL} \cup Entries]
  /\ \A k \in Keys \ ks : entry'[k] = entry[k]
  /\ breach \subseteq breach'
  /\ breach' \subseteq {"overlap", "pop", "huge", "raised"}
  /\ fault' \in {"none", "abort", "freed_value", "double_free", "freed_entry", "freed_key"}
  /\ call[c].at = "store" => call[c].key \in ks

\* ... in the contract, it breaks nothing.
TouchesSoundly(c, g, ks) ==
  /\ fault' = "none"
  /\ \A d \in Callers \ {c} : call[d].at \in Delicate => call[d].key \notin ks
  /\ \A k \in ks : entry'[k] # NULL =>
       /\ EntrySound(entry'[k])
       /\ entry'[k].freed => g.at = "store" /\ g.key = k
  /\ g.at \in Delicate => entry'[g.key] # NULL
  /\ g.at = "expired" => entry'[g.key].expire < NOW
  /\ g.at = "pair" => g.val = entry'[g.key].value
  /\ g.at = "insert" => g.expire = Expires(g.made, g.ttl)

LEMMA Step ==
  ASSUME IInv, NEW c \in Callers, NEW g \in Frames, NEW ks \in SUBSET Keys,
         Touches(c, g, ks), Kept' => TouchesSoundly(c, g, ks)
  PROVE  IInv'
<1> USE DEF Touches, TouchesSoundly
<1>1. call \in [Callers -> Frames] /\ call'[c] = g
      /\ \A d \in Callers \ {c} : call'[d] = call[d]
  BY DEF IInv, Typed, TypeOK
<1>2. Frames' = Frames /\ Entries' = Entries /\ NOW' = NOW
  BY DEF Frames, Entries, NOW, Seconds, Delicate
<1>3. TypeOK'
  BY <1>1, <1>2 DEF IInv, Typed, TypeOK
<1>4. Typed'
  BY <1>1, <1>3 DEF IInv, Typed
<1>5. ASSUME Kept' PROVE Sound'
  <2>1. Sound
    BY <1>5 DEF Kept, IInv
  <2>2. \A k \in Keys : k \notin ks => (k \in Present' <=> k \in Present)
    BY DEF Present
  <2>3. ASSUME NEW k \in Present' PROVE EntrySound(entry[k])'
    BY <1>5, <2>1, <2>2, <2>3 DEF Sound, Present, EntrySound, Expires
  <2>4. ASSUME NEW d \in Callers PROVE FrameSound(call[d])'
    <3>1. CASE d = c
      BY <1>1, <1>2, <1>4, <1>5, <3>1 DEF FrameSound, Expired, Expires, Typed, FrameOK, Present, Delicate
    <3>2. CASE d # c
      <4>1. call'[d] = call[d] /\ FrameSound(call[d]) /\ FrameOK(call[d])
        BY <1>1, <2>1, <3>2 DEF Sound, IInv, Typed
      <4>2. call[d].at \in Delicate => /\ call[d].key \in Keys \ ks
                                      /\ entry'[call[d].key] = entry[call[d].key]
        BY <1>5, <3>2, <4>1 DEF FrameSound, Present
      <4> QED BY <1>2, <2>2, <4>1, <4>2 DEF FrameSound, Expired, Expires, Delicate
    <3> QED BY <3>1, <3>2
  <2>5. FreedOK'
    <3> SUFFICES ASSUME NEW k \in Present', entry'[k].freed
                 PROVE  \E d \in Callers : call'[d].at = "store" /\ call'[d].key = k
      BY DEF FreedOK
    <3>1. CASE k \in ks
      BY <1>1, <1>5, <3>1 DEF Present
    <3>2. CASE k \notin ks
      <4>1. k \in Present /\ entry[k].freed
        BY <2>2, <3>2 DEF Present
      <4>2. PICK d \in Callers : call[d].at = "store" /\ call[d].key = k
        BY <2>1, <4>1 DEF Sound, FreedOK
      <4> QED BY <1>1, <3>2, <4>2
    <3> QED BY <3>1, <3>2
  <2> QED BY <1>5, <2>3, <2>4, <2>5 DEF Sound
<1> QED BY <1>4, <1>5 DEF IInv

LEMMA FrameType ==
  ASSUME TypeOK, NEW op \in {"get", "pop", "setdefault", "put", "update", "popitem"},
         NEW at \in Delicate \cup {"lookup", "alloc", "insert"},
         NEW k \in Keys \cup {NULL}, NEW v \in Values \cup {NULL},
         NEW todo \in Seq(Keys \X Values)
  PROVE  Frame(op, at, k, v, todo) \in Frames
  BY NowRange, TimeAssumption DEF Frame, Frames, Seconds

LEMMA IdleType ==
  ASSUME TypeOK
  PROVE  Idle \in Frames /\ FrameOK(Idle) /\ Idle.at = "idle"
<1>1. <<>> \in Seq(Keys \X Values)
  OBVIOUS
<1> QED BY <1>1, NowRange, TimeAssumption DEF Idle, Frame, Frames, Seconds, FrameOK, Delicate

\* A frame that neither is about to change an entry nor holds one.
Plain(g) == g \in Frames /\ FrameOK(g) /\ g.at \notin Delicate \cup {"insert"}

LEMMA MissedStep ==
  ASSUME TypeOK, NEW c \in Callers, NEW f \in Frames, FrameOK(At(f, "expired")),
         Missed(c, f)
  PROVE  \E g : Plain(g) /\ call' = [call EXCEPT ![c] = g]
<1>1. CASE f.op = "setdefault"
  <2>1. At(f, "lookup") \in Frames /\ At(f, "lookup").at = "lookup"
        /\ At(f, "lookup").key = f.key /\ At(f, "lookup").val = f.val
        /\ At(f, "lookup").op = f.op /\ At(f, "expired").at = "expired"
        /\ At(f, "expired").key = f.key /\ At(f, "expired").val = f.val
        /\ At(f, "expired").op = f.op
    BY DEF At, Frames
  <2>2. Plain(At(f, "lookup"))
    BY <1>1, <2>1 DEF Plain, FrameOK, Delicate, Puts
  <2> QED BY <1>1, <2>2 DEF Missed, Goes
<1>2. CASE f.op # "setdefault"
  <2>1. Plain(Idle)
    BY IdleType DEF Plain, Delicate
  <2> QED BY <1>2, <2>1 DEF Missed, Returns, Goes
<1> QED BY <1>1, <1>2

\* update() goes on with a frame that is to put the next of its entries.
LEMMA UpdatingPlain ==
  ASSUME TypeOK, NEW todo \in Seq(Keys \X Values), todo # <<>>
  PROVE  Plain(Updating(todo))
<1> DEFINE g == Updating(todo)
<1>1. todo[1] \in Keys \X Values /\ Tail(todo) \in Seq(Keys \X Values)
  OBVIOUS
<1>2. todo[1][1] \in Keys /\ todo[1][2] \in Values
  BY <1>1
<1>3. g \in Frames
  BY <1>1, <1>2, FrameType DEF Updating
<1> QED BY <1>2, <1>3 DEF Plain, Updating, Frame, FrameOK, Delicate, Puts

LEMMA PutDoneStep ==
  ASSUME TypeOK, NEW c \in Callers, NEW f, f.todo \in Seq(Keys \X Values),
         PutDone(c, f)
  PROVE  \E g : Plain(g) /\ call' = [call EXCEPT ![c] = g]
<1>1. CASE f.todo # <<>>
  BY <1>1, UpdatingPlain DEF PutDone, Goes
<1>2. CASE f.todo = <<>>
  <2>1. Plain(Idle)
    BY IdleType DEF Plain, Delicate
  <2> QED BY <1>2, <2>1 DEF PutDone, Returns, Goes
<1> QED BY <1>1, <1>2

\* In the contract no other frame holds the entry that is changed, and nobody
\* touches a value that has been released.
LEMMA Alone ==
  ASSUME NEW c \in Callers, NEW ks \in SUBSET Keys, Changes(c, ks) \subseteq breach', Kept'
  PROVE  \A d \in Callers \ {c} : call[d].at \in Delicate => call[d].key \notin ks
  BY DEF Changes, Kept

LEMMA Unreleased ==
  ASSUME Sound, NEW ks \in SUBSET Keys, ~Storing(ks)
  PROVE  ~Freed(ks)
  BY DEF Sound, FreedOK, Storing, Freed, Present

LEMMA AloneUnreleased ==
  ASSUME Sound, NEW c \in Callers, NEW ks \in SUBSET Keys,
         Changes(c, ks) \subseteq breach', Kept', call[c].at # "store"
  PROVE  ~Freed(ks)
<1>1. ~Storing(ks)
  BY Alone DEF Storing, Delicate
<1> QED BY <1>1, Unreleased

LEMMA ReadsStep ==
  ASSUME IInv, Running, NEW ks \in SUBSET Keys, Reads(ks)
  PROVE  /\ breach \subseteq breach'
         /\ breach' \subseteq {"overlap", "pop", "huge", "raised"}
         /\ fault' \in {"none", "abort", "freed_value", "double_free", "freed_entry", "freed_key"}
         /\ Kept' => fault' = "none" /\ Sound
<1>1. breach \subseteq {"overlap", "pop", "huge", "raised"}
  BY DEF IInv, Typed, TypeOK
<1>2. ASSUME Kept' PROVE fault' = "none" /\ Sound
  <2>1. Kept /\ ~Storing(ks)
    BY <1>2 DEF Reads, Kept
  <2>2. Sound
    BY <2>1 DEF IInv
  <2> QED BY <2>1, <2>2, Unreleased DEF Reads, Running
<1> QED BY <1>1, <1>2 DEF Reads, Running

LEMMA ReleasesStep ==
  ASSUME IInv, Running, NEW c \in Callers, NEW ks \in SUBSET Keys, Releases(c, ks),
         call[c].at # "store"
  PROVE  /\ breach \subseteq breach'
         /\ breach' \subseteq {"overlap", "pop", "huge", "raised"}
         /\ fault' \in {"none", "abort", "freed_value", "double_free", "freed_entry", "freed_key"}
         /\ Kept' => /\ fault' = "none" /\ Sound
                     /\ \A d \in Callers \ {c} : call[d].at \in Delicate => call[d].key \notin ks
<1>1. breach \subseteq {"overlap", "pop", "huge", "raised"} /\ Changes(c, ks) \subseteq {"overlap"}
  BY DEF IInv, Typed, TypeOK, Changes
<1>2. ASSUME Kept' PROVE /\ fault' = "none" /\ Sound
                         /\ \A d \in Callers \ {c} : call[d].at \in Delicate => call[d].key \notin ks
  <2>1. Kept /\ Changes(c, ks) \subseteq breach'
    BY <1>2 DEF Releases, Kept
  <2>2. Sound
    BY <2>1 DEF IInv
  <2>3. ~Freed(ks)
    BY <1>2, <2>1, <2>2, AloneUnreleased
  <2> QED BY <1>2, <2>1, <2>2, <2>3, Alone DEF Releases, Running
<1> QED BY <1>1, <1>2 DEF Releases, Running

-----------------------------------------------------------------------------
(* One lemma per action *)

LEMMA Facts ==
  ASSUME IInv, NEW c \in Callers
  PROVE  /\ TypeOK /\ call[c] \in Frames /\ FrameOK(call[c])
         /\ entry \in [Keys -> {NULL} \cup Entries]
         /\ default_ttl \in Ttls /\ now \in Nat
         /\ breach \subseteq {"overlap", "pop", "huge", "raised"}
         /\ \A k \in Present : k \in Keys /\ entry[k] \in Entries
         /\ call[c] = Idle => call[c].at # "store" /\ call = [call EXCEPT ![c] = Idle]
  BY NowRange, IdleType DEF IInv, Typed, TypeOK, Present

\* A frame that is inside no method, and one that becomes plain.
LEMMA IdlePlain ==
  ASSUME TypeOK
  PROVE  Plain(Idle)
  BY IdleType DEF Plain, Delicate

LEMMA NullEntry == now \in Nat => NULL \notin Entries
<1>1. ASSUME now \in Nat
      PROVE  Entries \subseteq [value : Values, expire : Int, freed : BOOLEAN, ttl : Ttls,
                                made : Nat, put : Nat]
  BY <1>1, TimeAssumption DEF Entries, Seconds
<1> QED BY <1>1, NullAssumption

LEMMA PlainFacts ==
  ASSUME NEW g, Plain(g)
  PROVE  /\ g \in Frames /\ FrameOK(g) /\ g.at \notin Delicate
         /\ g.at # "store" /\ g.at # "expired" /\ g.at # "insert" /\ g.at # "pair"
  BY DEF Plain, Delicate

\* A step that touches no entry.
LEMMA QuietStep ==
  ASSUME IInv, Running, NEW c \in Callers, NEW g, Plain(g),
         call' = [call EXCEPT ![c] = g], call[c].at # "store",
         now' = now, default_ttl' \in Ttls, entry' = entry, breach \subseteq breach',
         breach' \subseteq {"overlap", "pop", "huge", "raised"}, fault' = fault
  PROVE  IInv'
<1>1. entry' \in [Keys -> {NULL} \cup Entries] /\ g \in Frames
  BY Facts, PlainFacts
<1>2. Touches(c, g, {})
  BY <1>1, PlainFacts DEF Touches, Running
<1>3. TouchesSoundly(c, g, {})
  BY PlainFacts DEF TouchesSoundly, Running
<1> QED BY <1>1, <1>2, <1>3, Step

\* A call that changes nothing but, perhaps, reads values.
LEMMA ReadOnlyStep ==
  ASSUME IInv, NEW c \in Callers, call[c] = Idle,
         UNCHANGED <<entry, default_ttl, now, call>>, breach \subseteq breach',
         breach' \subseteq {"overlap", "pop", "huge", "raised"},
         fault' \in {"none", "abort", "freed_value", "double_free", "freed_entry", "freed_key"},
         Kept' => fault' = "none"
  PROVE  IInv'
<1>1. /\ entry' \in [Keys -> {NULL} \cup Entries] /\ default_ttl' \in Ttls
      /\ call[c].at # "store" /\ call' = [call EXCEPT ![c] = Idle]
  BY Facts
<1>2. Plain(Idle)
  BY Facts, IdlePlain
<1>3. Touches(c, Idle, {})
  BY <1>1, <1>2, PlainFacts DEF Touches
<1>4. Kept' => TouchesSoundly(c, Idle, {})
  BY <1>2, PlainFacts DEF TouchesSoundly
<1> QED BY <1>2, <1>3, <1>4, PlainFacts, Step

LEMMA TickStep == IInv /\ Tick => IInv'
<1> SUFFICES ASSUME IInv, Tick PROVE IInv'
  OBVIOUS
<1>1. /\ now \in 0..MaxNow /\ now' = now + 1 /\ now' \in 0..MaxNow /\ MaxNow \in Nat
      /\ Second \in Nat \ {0}
  BY TimeAssumption DEF Tick, IInv, Typed, TypeOK
<1>2. 0..now \subseteq 0..now'
  BY <1>1
<1>3. Frames \subseteq Frames' /\ Entries \subseteq Entries'
  <2>1. ASSUME NEW f \in Frames PROVE f \in Frames'
    BY <1>2 DEF Frames, Seconds, Delicate
  <2>2. ASSUME NEW e \in Entries PROVE e \in Entries'
    BY <1>2 DEF Entries, Seconds
  <2> QED BY <2>1, <2>2
<1>4. Typed'
  <2>1. entry' \in [Keys -> {NULL} \cup Entries'] /\ call' \in [Callers -> Frames']
    BY <1>3 DEF Tick, IInv, Typed, TypeOK
  <2>2. TypeOK'
    BY <1>1, <2>1 DEF Tick, IInv, Typed, TypeOK
  <2> QED BY <2>2 DEF Tick, IInv, Typed
<1>5. NOW \in Int /\ NOW' \in Int /\ NOW <= NOW'
  <2> DEFINE q == now \div Second
             r == now' \div Second
  <2>1. /\ q \in Nat /\ Second * q <= now
        /\ r \in Nat /\ now' < Second * r + Second
    BY <1>1, DivBounds
  <2>2. q <= r
    <3> SUFFICES ASSUME r + 1 <= q PROVE FALSE
      BY <2>1
    <3>1. Second * (r + 1) <= Second * q /\ Second * (r + 1) = Second * r + Second
      BY <1>1, <2>1, Monotone
    <3>2. Second * r \in Nat /\ Second * q \in Nat
      BY <1>1, <2>1
    <3> HIDE DEF q, r
    <3> QED BY <1>1, <2>1, <3>1, <3>2
  <2> QED BY <2>1, <2>2 DEF NOW
<1>6. ASSUME Kept' PROVE Sound'
  <2>1. Sound
    BY <1>6 DEF Tick, Kept, IInv
  <2>2. ASSUME NEW c \in Callers PROVE FrameSound(call[c])'
    <3>1. FrameSound(call[c]) /\ Present' = Present
      BY <2>1 DEF Sound, Tick, Present
    <3>2. call[c].at = "expired" => Expired(call[c].key)'
      <4> SUFFICES ASSUME call[c].at = "expired" PROVE Expired(call[c].key)'
        OBVIOUS
      <4>1. call[c].key \in Present /\ Expired(call[c].key)
        BY <3>1 DEF FrameSound, Delicate
      <4>2. entry[call[c].key].expire \in Int
        BY <4>1, Facts, TimeAssumption DEF Entries, Seconds
      <4> QED BY <1>5, <4>1, <4>2 DEF Expired, Tick
    <3> QED BY <3>1, <3>2 DEF FrameSound, Tick, Expires
  <2> QED BY <2>1, <2>2 DEF Sound, Tick, Present, EntrySound, Expires, FreedOK
<1> QED BY <1>4, <1>6 DEF IInv

LEMMA FindStep ==
  ASSUME IInv, NEW c \in Callers, NEW k \in Keys,
         NEW op \in {"get", "pop", "setdefault"}, NEW v \in Values \cup {NULL},
         op = "setdefault" => v \in Values, Find(c, op, k, v)
  PROVE  IInv'
<1> DEFINE f == Frame(op, "lookup", k, v, <<>>)
           g == At(f, "expired")
<1>1. /\ TypeOK /\ call[c] = Idle /\ call[c].at # "store" /\ Running
      /\ call = [call EXCEPT ![c] = Idle]
  BY Facts DEF Find, CanCall
<1>2. <<>> \in Seq(Keys \X Values)
  OBVIOUS
<1>3. f \in Frames
  BY <1>1, <1>2, FrameType
<1>4. /\ g \in Frames /\ g.at = "expired" /\ g.key = k /\ g.op = op /\ g.val = v
      /\ g.expire = 0
  BY <1>3 DEF At, Frame, Frames, Delicate
<1>5. FrameOK(g)
  BY <1>4 DEF FrameOK
<1>6. CASE k \notin Present
  <2>1. Missed(c, f) /\ UNCHANGED <<entry, default_ttl, now, breach, fault>>
    BY <1>6 DEF Find
  <2>2. PICK h : Plain(h) /\ call' = [call EXCEPT ![c] = h]
    BY <1>1, <1>3, <1>5, <2>1, MissedStep
  <2> QED BY <1>1, <2>1, <2>2, Facts, QuietStep
<1>7. CASE k \in Present /\ Expired(k) /\ Goes(c, g) /\ UNCHANGED <<breach, fault>>
  <2>1. call' = [call EXCEPT ![c] = g] /\ UNCHANGED <<entry, default_ttl, now, breach, fault>>
    BY <1>7 DEF Find, Goes
  <2>2. /\ g.at # "store" /\ g.at # "insert" /\ g.at # "pair"
        /\ entry'[g.key] # NULL /\ entry'[g.key].expire < NOW
    BY <1>4, <1>7, <2>1 DEF Present, Expired
  <2> HIDE DEF g
  <2>3. Touches(c, g, {})
    BY <1>1, <1>5, <2>1, <2>2, Facts DEF Touches, Running
  <2>4. TouchesSoundly(c, g, {})
    BY <1>1, <2>1, <2>2 DEF TouchesSoundly, Running
  <2> QED BY <1>4, <2>3, <2>4, Step
<1>8. CASE /\ k \in Present /\ Reads({k})
           /\ \/ op = "pop" /\ Goes(c, At(f, "pop"))
              \/ UNCHANGED call
  <2>1. UNCHANGED <<entry, default_ttl, now>>
    BY <1>8 DEF Find
  <2>2. /\ {k} \in SUBSET Keys /\ breach \subseteq breach'
        /\ breach' \subseteq {"overlap", "pop", "huge", "raised"}
        /\ fault' \in {"none", "abort", "freed_value", "double_free", "freed_entry", "freed_key"}
        /\ Kept' => fault' = "none"
    BY <1>1, <1>8, ReadsStep
  <2>3. CASE UNCHANGED call
    BY <1>1, <2>1, <2>2, <2>3, ReadOnlyStep
  <2>4. CASE op = "pop" /\ Goes(c, At(f, "pop"))
    <3> DEFINE h == At(f, "pop")
    <3>1. h \in Frames /\ h.at = "pop" /\ h.key = k /\ h.op = "pop"
      BY <1>3, <2>4 DEF At, Frame, Frames, Delicate
    <3>2. FrameOK(h)
      BY <3>1 DEF FrameOK
    <3>3. call' = [call EXCEPT ![c] = h] /\ entry'[k] # NULL
      BY <1>8, <2>1, <2>4 DEF Goes, Present
    <3> HIDE DEF h
    <3>4. Touches(c, h, {})
      BY <1>1, <2>1, <2>2, <3>2, <3>3, Facts DEF Touches
    <3>5. Kept' => TouchesSoundly(c, h, {})
      BY <2>2, <3>1, <3>3 DEF TouchesSoundly
    <3> QED BY <3>1, <3>4, <3>5, Step
  <2> QED BY <1>8, <2>3, <2>4
<1> QED BY <1>6, <1>7, <1>8 DEF Find

LEMMA DropStep ==
  ASSUME IInv, Running, NEW c \in Callers, call[c].at # "store",
         NEW ks \in SUBSET Keys, Drop(c, ks), NEW g, Plain(g),
         call' = [call EXCEPT ![c] = g], UNCHANGED <<default_ttl, now>>
  PROVE  IInv'
<1>1. /\ breach \subseteq breach'
      /\ breach' \subseteq {"overlap", "pop", "huge", "raised"}
      /\ fault' \in {"none", "abort", "freed_value", "double_free", "freed_entry", "freed_key"}
      /\ Kept' => /\ fault' = "none" /\ Sound
                  /\ \A d \in Callers \ {c} : call[d].at \in Delicate => call[d].key \notin ks
  BY ReleasesStep DEF Drop
<1>2. /\ entry' \in [Keys -> {NULL} \cup Entries] /\ default_ttl' \in Ttls
      /\ \A k \in Keys \ ks : entry'[k] = entry[k]
      /\ \A k \in ks : entry'[k] = NULL
  BY Facts DEF Drop
<1>3. Touches(c, g, ks)
  BY <1>1, <1>2, PlainFacts DEF Touches
<1>4. Kept' => TouchesSoundly(c, g, ks)
  BY <1>1, <1>2, PlainFacts DEF TouchesSoundly
<1> QED BY <1>3, <1>4, PlainFacts, Step

LEMMA ExpireStep == ASSUME IInv, NEW c \in Callers, Expire(c) PROVE IInv'
<1> DEFINE f == call[c]
<1>1. /\ TypeOK /\ Running /\ f \in Frames /\ FrameOK(f) /\ f.at = "expired"
      /\ f.key \in Keys /\ UNCHANGED <<default_ttl, now>>
  BY Facts DEF Expire, Inside, FrameOK
<1>2. CASE f.key \in Present /\ Drop(c, {f.key}) /\ Missed(c, f)
  <2>1. At(f, "expired") = f
    BY <1>1 DEF At, Frames
  <2>2. PICK g : Plain(g) /\ call' = [call EXCEPT ![c] = g]
    BY <1>1, <1>2, <2>1, MissedStep
  <2> HIDE DEF f
  <2>3. {f.key} \in SUBSET Keys /\ call[c].at # "store"
    BY <1>1 DEF f
  <2> QED BY <1>1, <1>2, <2>2, <2>3, DropStep
<1>3. CASE /\ fault' = "abort" /\ UNCHANGED <<entry, call>>
           /\ breach' = IF f.key \in Present THEN breach \cup {"raised"} ELSE breach
  <2>1. ~Kept'
    <3> SUFFICES ASSUME Kept' PROVE FALSE
      OBVIOUS
    <3>1. Kept /\ f.key \notin Present
      BY <1>3 DEF Kept
    <3> QED BY <1>1, <3>1 DEF IInv, Sound, FrameSound, Delicate
  <2>2. call' = [call EXCEPT ![c] = f]
    BY <1>1, <1>3 DEF TypeOK
  <2>3. Touches(c, f, {})
    BY <1>1, <1>3, <2>2, Facts DEF Touches
  <2> QED BY <1>1, <2>1, <2>3, Step
<1> QED BY <1>2, <1>3 DEF Expire

LEMMA PopEndStep == ASSUME IInv, NEW c \in Callers, PopEnd(c) PROVE IInv'
<1> DEFINE k == call[c].key
<1>1. /\ entry' = [entry EXCEPT ![k] = NULL] /\ fault' = "freed_entry" /\ call[c].at = "pop"
      /\ breach' = breach \cup {"pop"} /\ UNCHANGED <<default_ttl, now>>
      /\ call' = [call EXCEPT ![c] = Idle] /\ k \in Keys
  BY Facts DEF PopEnd, Inside, Returns, Goes, FrameOK
<1>2. entry' \in [Keys -> {NULL} \cup Entries] /\ \A j \in Keys \ {k} : entry'[j] = entry[j]
  BY <1>1, Facts
<1>3. Plain(Idle)
  BY Facts, IdlePlain
<1>4. Touches(c, Idle, {k})
  BY <1>1, <1>2, <1>3, Facts, PlainFacts DEF Touches
<1>5. ~Kept'
  BY <1>1 DEF Kept
<1> QED BY <1>1, <1>3, <1>4, <1>5, PlainFacts, Step

LEMMA UpdateStep ==
  ASSUME IInv, NEW c \in Callers, NEW u \in Updates, Update(c, u[1], u[2]) PROVE IInv'
<1> DEFINE E == Keys \X Values
           todo == u[1] \o SubSeq(u[2], Len(u[1]) + 1, Len(u[2]))
<1>1. u[1] \in Seq(E) /\ u[2] \in Seq(E)
  BY UpdatesAssumption
<1>2. todo \in Seq(E)
  <2>1. Len(u[1]) + 1 \in Nat \ {0}
    BY <1>1
  <2>2. SubSeq(u[2], Len(u[1]) + 1, Len(u[2])) \in Seq(E)
    BY <1>1, <2>1, SubSeqType
  <2> QED BY <1>1, <2>2
<1>3. /\ TypeOK /\ Running /\ call[c] = Idle /\ call[c].at # "store"
      /\ call = [call EXCEPT ![c] = Idle]
      /\ UNCHANGED <<entry, default_ttl, now, breach, fault>>
      /\ default_ttl \in Ttls /\ breach \subseteq {"overlap", "pop", "huge", "raised"}
  BY Facts DEF Update, CanCall
<1>4. \/ UNCHANGED call
      \/ todo # <<>> /\ call' = [call EXCEPT ![c] = Updating(todo)]
  BY DEF Update, Goes
<1> HIDE DEF todo
<1>5. \E g : Plain(g) /\ call' = [call EXCEPT ![c] = g]
  BY <1>2, <1>3, <1>4, IdlePlain, UpdatingPlain
<1> QED BY <1>3, <1>5, QuietStep

\* The expiry of an entry that is made now.
LEMMA ExpiryFits ==
  ASSUME TypeOK, NEW ttl \in Ttls
  PROVE  /\ Wrap(NOW + ttl) \in Seconds
         /\ Huge(ttl) = {} => Wrap(NOW + ttl) = Expires(now, ttl)
<1>1. NOW \in 0..IntMax /\ ttl \in 1..IntMax /\ IntMax \in Nat
  BY NowRange, TimeAssumption
<1>2. NOW + ttl \in 0..(IntMax + IntMax)
  BY <1>1
<1> QED BY <1>1, <1>2, WrapType DEF Huge, Expires, NOW

LEMMA StoreStep ==
  ASSUME IInv, Running, NEW c \in Callers, NEW f \in Frames, f.key \in Keys, f.val \in Values,
         call[c].at = "store" => call[c].key = f.key, Store(c, f),
         UNCHANGED <<default_ttl, now, fault>>
  PROVE  IInv'
<1> DEFINE e == Entry(f.val, Wrap(NOW + default_ttl), default_ttl, now, now)
<1>1. /\ TypeOK /\ now \in Nat /\ default_ttl \in Ttls
      /\ breach \subseteq {"overlap", "pop", "huge", "raised"}
      /\ entry \in [Keys -> {NULL} \cup Entries]
      /\ breach' = breach \cup Changes(c, {f.key}) \cup Huge(default_ttl)
      /\ entry' = [entry EXCEPT ![f.key] = e]
  BY Facts DEF Store
<1>2. PICK g : Plain(g) /\ call' = [call EXCEPT ![c] = g]
  <2>1. f.todo \in Seq(Keys \X Values)
    BY DEF Frames
  <2> QED BY <1>1, <2>1, PutDoneStep DEF Store
<1>3. Wrap(NOW + default_ttl) \in Seconds
      /\ (Huge(default_ttl) = {} => Wrap(NOW + default_ttl) = Expires(now, default_ttl))
  BY <1>1, ExpiryFits
<1>4. e \in Entries /\ ~e.freed
  BY <1>1, <1>3 DEF Entry, Entries
<1>5. /\ entry' \in [Keys -> {NULL} \cup Entries] /\ entry'[f.key] = e
      /\ \A k \in Keys \ {f.key} : entry'[k] = entry[k]
  BY <1>1, <1>4
<1>6. Huge(default_ttl) \subseteq {"huge"} /\ Changes(c, {f.key}) \subseteq {"overlap"}
  BY DEF Huge, Changes
<1>7. Touches(c, g, {f.key})
  BY <1>1, <1>2, <1>5, <1>6, PlainFacts DEF Touches, Running
<1>8. ASSUME Kept' PROVE TouchesSoundly(c, g, {f.key})
  <2>1. Changes(c, {f.key}) \subseteq breach' /\ Huge(default_ttl) = {}
    BY <1>1, <1>8 DEF Kept
  <2>2. \A d \in Callers \ {c} : call[d].at \in Delicate => call[d].key \notin {f.key}
    BY <1>8, <2>1, Alone
  <2>3. EntrySound(e)
    BY <1>1, <1>3, <2>1 DEF EntrySound, Entry
  <2> HIDE DEF e
  <2> QED BY <1>2, <1>4, <1>5, <2>2, <2>3, PlainFacts DEF TouchesSoundly, Running
<1> QED BY <1>2, <1>7, <1>8, PlainFacts, Step

LEMMA SetItemStep == ASSUME IInv, NEW c \in Callers, SetItem(c) PROVE IInv'
<1> DEFINE f == call[c]
<1>1. /\ TypeOK /\ UNCHANGED <<default_ttl, now>> /\ f.key \in Keys /\ f.val \in Values
      /\ f \in Frames /\ FrameOK(f) /\ f.at = "lookup" /\ Running /\ call[c].at # "store"
      /\ f.op \in Puts /\ default_ttl \in Ttls
      /\ breach \subseteq {"overlap", "pop", "huge", "raised"}
      /\ entry \in [Keys -> {NULL} \cup Entries]
  BY Facts DEF SetItem, Inside, FrameOK
<1>0. \/ Store(c, f) /\ UNCHANGED fault
      \/ /\ f.key \in Present /\ Releases(c, {f.key}) /\ Goes(c, At(f, "store"))
         /\ entry' = [entry EXCEPT ![f.key].freed = TRUE]
      \/ /\ Goes(c, [f EXCEPT !.at = "alloc", !.ttl = default_ttl])
         /\ UNCHANGED <<entry, breach, fault>>
  BY DEF SetItem
<1> HIDE DEF f
<1>2. CASE Store(c, f) /\ UNCHANGED fault
  BY <1>1, <1>2, StoreStep
<1>3. CASE /\ f.key \in Present /\ Releases(c, {f.key}) /\ Goes(c, At(f, "store"))
           /\ entry' = [entry EXCEPT ![f.key].freed = TRUE]
  <2> DEFINE g == At(f, "store")
  <2>1. /\ g \in Frames /\ g.at = "store" /\ g.key = f.key /\ g.val = f.val /\ g.op = f.op
    BY <1>1 DEF At, Frames, Delicate
  <2>2. FrameOK(g)
    BY <1>1, <2>1 DEF FrameOK
  <2>3. entry[f.key] \in Entries
    BY <1>1, <1>3 DEF Present
  <2>4. /\ entry' \in [Keys -> {NULL} \cup Entries]
        /\ entry'[f.key] = [entry[f.key] EXCEPT !.freed = TRUE]
        /\ \A k \in Keys \ {f.key} : entry'[k] = entry[k]
    BY <1>1, <1>3, <2>3 DEF Entries
  <2>5. /\ entry'[f.key].expire = entry[f.key].expire /\ entry'[f.key].ttl = entry[f.key].ttl
        /\ entry'[f.key].made = entry[f.key].made /\ entry'[f.key].put = entry[f.key].put
        /\ entry'[f.key] \in Entries
    BY <2>3, <2>4 DEF Entries
  <2>6. /\ breach \subseteq breach'
        /\ breach' \subseteq {"overlap", "pop", "huge", "raised"}
        /\ fault' \in {"none", "abort", "freed_value", "double_free", "freed_entry", "freed_key"}
        /\ Kept' => /\ fault' = "none" /\ Sound
                    /\ \A d \in Callers \ {c} : call[d].at \in Delicate => call[d].key \notin {f.key}
    BY <1>1, <1>3, ReleasesStep
  <2>7. call' = [call EXCEPT ![c] = g]
    BY <1>3 DEF Goes
  <2> HIDE DEF g
  <2>8. Touches(c, g, {f.key})
    BY <1>1, <2>2, <2>4, <2>6, <2>7 DEF Touches
  <2>9. ASSUME Kept' PROVE TouchesSoundly(c, g, {f.key})
    <3>1. EntrySound(entry'[f.key])
      BY <1>3, <2>5, <2>6, <2>9 DEF Sound, EntrySound
    <3>2. entry'[f.key] # NULL
      BY <1>1, <2>5, NowRange, NullEntry
    <3> QED BY <2>1, <2>6, <2>9, <3>1, <3>2 DEF TouchesSoundly
  <2> QED BY <1>1, <2>1, <2>8, <2>9, Step
<1>4. CASE /\ Goes(c, [f EXCEPT !.at = "alloc", !.ttl = default_ttl])
           /\ UNCHANGED <<entry, breach, fault>>
  <2> DEFINE g == [f EXCEPT !.at = "alloc", !.ttl = default_ttl]
  <2>1. /\ g \in Frames /\ g.at = "alloc" /\ g.key = f.key /\ g.val = f.val /\ g.op = f.op
        /\ g.ttl = default_ttl
    BY <1>1 DEF Frames, Delicate
  <2>2. Plain(g)
    BY <1>1, <2>1 DEF Plain, FrameOK, Delicate
  <2> HIDE DEF g
  <2> QED BY <1>1, <1>4, <2>2, QuietStep DEF Goes, g
<1> QED BY <1>0, <1>2, <1>3, <1>4

LEMMA PutBeginStep ==
  ASSUME IInv, NEW c \in Callers, NEW k \in Keys, NEW v \in Values, PutBegin(c, k, v) PROVE IInv'
<1> DEFINE g == Frame("put", "lookup", k, v, <<>>)
<1>1. /\ TypeOK /\ Running /\ call[c].at # "store" /\ call' = [call EXCEPT ![c] = g]
      /\ UNCHANGED <<entry, default_ttl, now, breach, fault>>
      /\ default_ttl \in Ttls /\ breach \subseteq {"overlap", "pop", "huge", "raised"}
  BY Facts DEF PutBegin, CanCall, Goes
<1>2. <<>> \in Seq(Keys \X Values)
  OBVIOUS
<1>3. g \in Frames
  BY <1>1, <1>2, FrameType
<1>4. Plain(g)
  BY <1>3 DEF Plain, FrameOK, Frame, Delicate, Puts
<1> HIDE DEF g
<1> QED BY <1>1, <1>4, QuietStep

LEMMA ReplaceEndStep == ASSUME IInv, NEW c \in Callers, ReplaceEnd(c) PROVE IInv'
<1>1. /\ Running /\ call[c] \in Frames /\ call[c].key \in Keys /\ call[c].val \in Values
  BY Facts DEF ReplaceEnd, Inside, FrameOK
<1> QED BY <1>1, StoreStep DEF ReplaceEnd

LEMMA MakeStep == ASSUME IInv, NEW c \in Callers, Make(c) PROVE IInv'
<1> DEFINE f == call[c]
           g == [f EXCEPT !.at = "insert", !.expire = Wrap(NOW + f.ttl), !.made = now]
<1>1. /\ TypeOK /\ Running /\ f \in Frames /\ FrameOK(f) /\ f.at = "alloc" /\ now \in Nat
      /\ f.ttl \in Ttls /\ UNCHANGED <<entry, default_ttl, now, fault>>
      /\ entry \in [Keys -> {NULL} \cup Entries]
      /\ breach' = breach \cup Huge(f.ttl) /\ call' = [call EXCEPT ![c] = g]
      /\ default_ttl \in Ttls /\ breach \subseteq {"overlap", "pop", "huge", "raised"}
  BY Facts DEF Make, Inside, FrameOK, Goes
<1>2. Wrap(NOW + f.ttl) \in Seconds /\ (Huge(f.ttl) = {} => Wrap(NOW + f.ttl) = Expires(now, f.ttl))
  BY <1>1, ExpiryFits
<1>3. /\ g \in Frames /\ g.at = "insert" /\ g.key = f.key /\ g.val = f.val /\ g.op = f.op
      /\ g.ttl = f.ttl /\ g.made = now /\ g.expire = Wrap(NOW + f.ttl)
  <2>1. now \in 0..now
    BY <1>1
  <2> QED BY <1>1, <1>2, <2>1 DEF Frames
<1>4. FrameOK(g)
  BY <1>1, <1>3 DEF FrameOK
<1>5. Huge(f.ttl) \subseteq {"huge"}
  BY DEF Huge
<1> HIDE DEF g
<1>6. Touches(c, g, {})
  BY <1>1, <1>4, <1>5 DEF Touches, Running
<1>7. ASSUME Kept' PROVE TouchesSoundly(c, g, {})
  <2>1. Huge(f.ttl) = {}
    BY <1>1, <1>7 DEF Kept
  <2> QED BY <1>1, <1>2, <1>3, <2>1 DEF TouchesSoundly, Running, Delicate
<1> QED BY <1>3, <1>6, <1>7, Step

LEMMA InsertStep == ASSUME IInv, NEW c \in Callers, Insert(c) PROVE IInv'
<1> DEFINE f == call[c]
           e == Entry(f.val, f.expire, f.ttl, f.made, now)
           ks == {f.key} \cap Present
<1>1. /\ TypeOK /\ Running /\ f \in Frames /\ FrameOK(f) /\ f.at = "insert" /\ now \in Nat
      /\ f.ttl \in Ttls /\ f.key \in Keys /\ f.val \in Values
      /\ entry \in [Keys -> {NULL} \cup Entries] /\ default_ttl \in Ttls
      /\ UNCHANGED <<default_ttl, now>>
      /\ entry' = [entry EXCEPT ![f.key] = e] /\ Releases(c, ks) /\ PutDone(c, f)
  BY Facts DEF Insert, Inside, FrameOK
<1>2. PICK g : Plain(g) /\ call' = [call EXCEPT ![c] = g]
  <2>1. f.todo \in Seq(Keys \X Values)
    BY <1>1 DEF Frames
  <2> QED BY <1>1, <2>1, PutDoneStep
<1>3. /\ f.expire \in Seconds /\ f.made \in 0..now
  BY <1>1 DEF Frames
<1>4. e \in Entries /\ ~e.freed /\ e.made = f.made /\ e.put = now /\ e.expire = f.expire
      /\ e.ttl = f.ttl
  BY <1>1, <1>3 DEF Entry, Entries
<1>5. /\ entry' \in [Keys -> {NULL} \cup Entries] /\ entry'[f.key] = e
      /\ \A k \in Keys \ {f.key} : entry'[k] = entry[k]
  BY <1>1, <1>4
<1>6. /\ breach \subseteq breach'
      /\ breach' \subseteq {"overlap", "pop", "huge", "raised"}
      /\ fault' \in {"none", "abort", "freed_value", "double_free", "freed_entry", "freed_key"}
      /\ Kept' => /\ fault' = "none" /\ Sound
                  /\ \A d \in Callers \ {c} : call[d].at \in Delicate => call[d].key \notin ks
  <2>1. ks \in SUBSET Keys
    BY <1>1
  <2> HIDE DEF ks
  <2> QED BY <1>1, <2>1, ReleasesStep
<1>7. Touches(c, g, {f.key})
  BY <1>1, <1>2, <1>5, <1>6, PlainFacts DEF Touches
<1>8. ASSUME Kept' PROVE TouchesSoundly(c, g, {f.key})
  <2>1. EntrySound(e)
    BY <1>1, <1>3, <1>4, <1>6, <1>8 DEF EntrySound, Sound, FrameSound
  <2>2. \A d \in Callers \ {c} : call[d].at \in Delicate => call[d].key \notin {f.key}
    BY <1>6, <1>8 DEF Sound, FrameSound
  <2> HIDE DEF e
  <2> QED BY <1>2, <1>4, <1>5, <1>6, <1>8, <2>1, <2>2, PlainFacts DEF TouchesSoundly
<1> QED BY <1>1, <1>2, <1>7, <1>8, PlainFacts, Step

LEMMA FailsStep == ASSUME IInv, NEW c \in Callers, Fails(c) PROVE IInv'
<1>1. /\ TypeOK /\ Running /\ call[c].at # "store" /\ call' = [call EXCEPT ![c] = Idle]
      /\ UNCHANGED <<entry, default_ttl, now, breach, fault>>
      /\ default_ttl \in Ttls /\ breach \subseteq {"overlap", "pop", "huge", "raised"}
  BY Facts DEF Fails, Inside, Returns, Goes
<1> QED BY <1>1, IdlePlain, QuietStep

LEMMA SetDefaultTtlStep ==
  ASSUME IInv, NEW c \in Callers, NEW n \in Ttls, SetDefaultTtl(c, n) PROVE IInv'
<1>1. /\ TypeOK /\ Running /\ call[c].at # "store" /\ call' = [call EXCEPT ![c] = Idle]
      /\ default_ttl' \in Ttls /\ UNCHANGED <<entry, now, breach, fault>>
      /\ breach \subseteq {"overlap", "pop", "huge", "raised"}
  BY Facts DEF SetDefaultTtl, CanCall
<1> QED BY <1>1, IdlePlain, QuietStep

LEMMA DeleteStep ==
  ASSUME IInv, NEW c \in Callers, NEW k \in Keys, Delete(c, k) PROVE IInv'
<1>1. /\ TypeOK /\ Running /\ call[c].at # "store" /\ call' = [call EXCEPT ![c] = Idle]
      /\ UNCHANGED <<default_ttl, now>> /\ default_ttl \in Ttls
      /\ breach \subseteq {"overlap", "pop", "huge", "raised"}
  BY Facts DEF Delete, CanCall
<1>2. CASE k \in Present
  <2>1. Drop(c, {k})
    BY <1>2 DEF Delete
  <2> QED BY <1>1, <2>1, IdlePlain, DropStep
<1>3. CASE k \notin Present
  <2>1. UNCHANGED <<entry, breach, fault>>
    BY <1>3 DEF Delete
  <2> QED BY <1>1, <2>1, IdlePlain, QuietStep
<1> QED BY <1>2, <1>3

LEMMA ItemsStep == ASSUME IInv, NEW c \in Callers, Items(c) PROVE IInv'
<1>1. /\ Running /\ call[c] = Idle /\ Reads(Present) /\ UNCHANGED <<entry, default_ttl, now, call>>
      /\ Present \in SUBSET Keys
  BY DEF Items, CanCall, Present
<1>2. /\ breach \subseteq breach'
      /\ breach' \subseteq {"overlap", "pop", "huge", "raised"}
      /\ fault' \in {"none", "abort", "freed_value", "double_free", "freed_entry", "freed_key"}
      /\ Kept' => fault' = "none"
  BY <1>1, ReadsStep
<1> QED BY <1>1, <1>2, ReadOnlyStep

LEMMA ClearStep == ASSUME IInv, NEW c \in Callers, Clear(c) PROVE IInv'
<1>1. /\ TypeOK /\ Running /\ call[c].at # "store" /\ call' = [call EXCEPT ![c] = Idle]
      /\ UNCHANGED <<default_ttl, now>> /\ Drop(c, Present) /\ Present \in SUBSET Keys
  BY Facts DEF Clear, CanCall, Present
<1> QED BY <1>1, IdlePlain, DropStep

LEMMA PopItemBeginStep == ASSUME IInv, NEW c \in Callers, PopItemBegin(c) PROVE IInv'
<1>1. /\ TypeOK /\ Running /\ call[c] = Idle /\ call[c].at # "store"
      /\ call = [call EXCEPT ![c] = Idle] /\ entry \in [Keys -> {NULL} \cup Entries]
      /\ UNCHANGED <<entry, default_ttl, now, breach, fault>> /\ default_ttl \in Ttls
      /\ breach \subseteq {"overlap", "pop", "huge", "raised"}
  BY Facts DEF PopItemBegin, CanCall
<1>2. CASE UNCHANGED call
  BY <1>1, <1>2, IdlePlain, QuietStep
<1>3. ASSUME NEW k \in Present, Goes(c, Frame("popitem", "first", k, NULL, <<>>)) PROVE IInv'
  <2> DEFINE g == Frame("popitem", "first", k, NULL, <<>>)
  <2>1. <<>> \in Seq(Keys \X Values) /\ k \in Keys /\ "first" \in Delicate
    BY DEF Present, Delicate
  <2>2. g \in Frames
    BY <1>1, <2>1, FrameType
  <2>3. FrameOK(g) /\ g.at = "first" /\ g.key = k
    BY <2>1 DEF Frame, FrameOK
  <2>4. call' = [call EXCEPT ![c] = g]
    BY <1>3 DEF Goes
  <2> HIDE DEF g
  <2>5. Touches(c, g, {})
    BY <1>1, <2>3, <2>4 DEF Touches, Running
  <2>6. TouchesSoundly(c, g, {})
    BY <1>1, <2>3 DEF TouchesSoundly, Running, Present
  <2> QED BY <2>2, <2>5, <2>6, Step
<1> QED BY <1>2, <1>3 DEF PopItemBegin

LEMMA PopItemFoundStep == ASSUME IInv, NEW c \in Callers, PopItemFound(c) PROVE IInv'
<1> DEFINE k == call[c].key
<1>1. /\ TypeOK /\ Running /\ call[c].at = "first" /\ k \in Keys /\ call \in [Callers -> Frames]
      /\ call[c] \in Frames /\ FrameOK(call[c])
      /\ entry \in [Keys -> {NULL} \cup Entries]
      /\ UNCHANGED <<entry, default_ttl, now>> /\ default_ttl \in Ttls
      /\ breach \subseteq {"overlap", "pop", "huge", "raised"}
  BY Facts DEF PopItemFound, Inside, FrameOK, TypeOK
<1>2. CASE k \in Present
  <2> DEFINE g == Frame("popitem", "pair", k, entry[k].value, <<>>)
  <2>1. /\ <<>> \in Seq(Keys \X Values) /\ "pair" \in Delicate
        /\ entry[k].value \in Values /\ Reads({k}) /\ call' = [call EXCEPT ![c] = g]
    BY <1>1, <1>2 DEF Delicate, Present, Entries, PopItemFound, Goes
  <2>2. g \in Frames
    BY <1>1, <2>1, FrameType
  <2>3. FrameOK(g) /\ g.at = "pair" /\ g.key = k /\ g.val = entry[k].value
    BY <1>1 DEF Frame, FrameOK
  <2>4. /\ {k} \in SUBSET Keys /\ breach \subseteq breach'
        /\ breach' \subseteq {"overlap", "pop", "huge", "raised"}
        /\ fault' \in {"none", "abort", "freed_value", "double_free", "freed_entry", "freed_key"}
        /\ Kept' => fault' = "none"
    BY <1>1, <2>1, ReadsStep
  <2> HIDE DEF g
  <2>5. Touches(c, g, {})
    BY <1>1, <2>1, <2>3, <2>4 DEF Touches
  <2>6. Kept' => TouchesSoundly(c, g, {})
    BY <1>1, <1>2, <2>3, <2>4 DEF TouchesSoundly, Present
  <2> QED BY <2>2, <2>5, <2>6, Step
<1>3. CASE k \notin Present
  <2>1. fault' = "freed_key" /\ UNCHANGED <<call, breach>>
    BY <1>3 DEF PopItemFound
  <2>2. ~Kept'
    BY <1>1, <1>3, <2>1 DEF Kept, IInv, Sound, FrameSound, Delicate
  <2>3. Touches(c, call[c], {})
    BY <1>1, <2>1 DEF Touches
  <2> QED BY <1>1, <2>2, <2>3, Step
<1> QED BY <1>2, <1>3

LEMMA PopItemEndStep == ASSUME IInv, NEW c \in Callers, PopItemEnd(c) PROVE IInv'
<1> DEFINE f == call[c]
<1>1. /\ TypeOK /\ Running /\ f.at = "pair" /\ f.key \in Keys /\ call[c].at # "store"
      /\ call' = [call EXCEPT ![c] = Idle] /\ UNCHANGED <<default_ttl, now>> /\ default_ttl \in Ttls
      /\ breach \subseteq {"overlap", "pop", "huge", "raised"}
  BY Facts DEF PopItemEnd, Inside, FrameOK, Returns, Goes
<1>2. CASE Drop(c, {f.key})
  <2> HIDE DEF f
  <2>1. {f.key} \in SUBSET Keys
    BY <1>1
  <2> QED BY <1>1, <1>2, <2>1, IdlePlain, DropStep
<1>3. CASE /\ breach' = IF f.key \in Present THEN breach \cup {"raised"} ELSE breach
           /\ UNCHANGED <<entry, fault>>
  BY <1>1, <1>3, IdlePlain, QuietStep
<1> QED BY <1>2, <1>3 DEF PopItemEnd

-----------------------------------------------------------------------------
(* The theorems *)

LEMMA InitInv == Init => IInv
<1> SUFFICES ASSUME Init PROVE IInv
  OBVIOUS
<1>1. now = 0 /\ now \in 0..MaxNow /\ breach = {} /\ fault = "none" /\ default_ttl \in Ttls
  BY TimeAssumption DEF Init
<1>2. entry \in [Keys -> {NULL} \cup Entries] /\ Present = {}
  BY DEF Init, Present
<1>3. /\ Idle \in Frames /\ Idle.at = "idle"
  <2>1. <<>> \in Seq(Keys \X Values)
    OBVIOUS
  <2> QED BY <1>1, <2>1, TimeAssumption DEF Idle, Frame, Frames, Seconds, Delicate
<1>4. TypeOK
  BY <1>1, <1>2, <1>3 DEF Init, TypeOK
<1>5. Typed
  BY <1>3, <1>4, IdleType DEF Init, Typed
<1>6. Sound
  BY <1>1, <1>2, <1>3 DEF Init, Sound, FrameSound, FreedOK, Delicate
<1> QED BY <1>5, <1>6 DEF IInv

LEMMA NextInv == IInv /\ [Next]_vars => IInv'
<1> SUFFICES ASSUME IInv, [Next]_vars PROVE IInv'
  OBVIOUS
<1>1. CASE Tick
  BY <1>1, TickStep
<1>2. ASSUME NEW c \in Callers, Enter(c) PROVE IInv'
  <2>1. ASSUME NEW k \in Keys, NEW op \in {"get", "pop"}, Find(c, op, k, NULL) PROVE IInv'
    BY <2>1, FindStep
  <2>2. ASSUME NEW k \in Keys, NEW v \in Values, Find(c, "setdefault", k, v) PROVE IInv'
    BY <2>2, FindStep
  <2>3. ASSUME NEW k \in Keys, Delete(c, k) PROVE IInv'
    BY <2>3, DeleteStep
  <2>4. ASSUME NEW k \in Keys, NEW v \in Values, PutBegin(c, k, v) PROVE IInv'
    BY <2>4, PutBeginStep
  <2>5. ASSUME NEW u \in Updates, Update(c, u[1], u[2]) PROVE IInv'
    BY <2>5, UpdateStep
  <2>6. ASSUME NEW n \in Ttls, SetDefaultTtl(c, n) PROVE IInv'
    BY <2>6, SetDefaultTtlStep
  <2> QED BY <1>2, <2>1, <2>2, <2>3, <2>4, <2>5, <2>6, ItemsStep, ClearStep, PopItemBeginStep
         DEF Enter
<1>3. ASSUME NEW c \in Callers, GoOn(c) PROVE IInv'
  BY <1>3, ExpireStep, PopEndStep, SetItemStep, ReplaceEndStep, MakeStep, InsertStep, FailsStep,
     PopItemFoundStep, PopItemEndStep DEF GoOn
<1>4. CASE UNCHANGED vars
  BY <1>4 DEF vars, IInv, Typed, TypeOK, Kept, Sound, Present, EntrySound, Expires, FrameSound,
              Expired, NOW, FreedOK, Frames, Entries, Seconds, Delicate
<1> QED BY <1>1, <1>2, <1>3, <1>4 DEF Next

\* Every reachable state satisfies the invariant.
THEOREM Inductive == Spec => []IInv
  BY InitInv, NextInv, PTL DEF Spec

\* Every variable keeps its type: no expiry leaves int64_t, and nothing is made
\* or put in the future.
THEOREM TypeCorrect == Spec => []TypeOK
<1>1. IInv => TypeOK
  BY DEF IInv, Typed
<1> QED BY <1>1, Inductive, PTL

\* As long as the clients keep to the contract, no call aborts the process,
\* reads a value that is being destroyed or releases one twice.
THEOREM MemorySafe == Spec => []NoFault
<1>1. IInv => NoFault
  BY DEF IInv, NoFault, Sound
<1> QED BY <1>1, Inductive, PTL

-----------------------------------------------------------------------------
(* What the expiry promises *)

LEMMA InTime ==
  ASSUME IInv, Kept, NEW k \in Present
  PROVE  /\ Expired(k) => now > entry[k].made + entry[k].ttl * Second
         /\ ~Expired(k) => now < entry[k].put + (entry[k].ttl + 1) * Second
<1> DEFINE e == entry[k]
<1>1. e \in Entries /\ now \in Nat /\ EntrySound(e)
  BY NowRange DEF IInv, Typed, TypeOK, Sound, Present
<1>2. /\ e.made \in Nat /\ e.put \in Nat /\ e.ttl \in Nat /\ Second \in Nat \ {0}
      /\ e.expire = e.made \div Second + e.ttl /\ e.made <= e.put
  <2> HIDE DEF e
  <2>1. e.made \in 0..now /\ e.put \in 0..now /\ e.ttl \in Ttls
    BY <1>1 DEF Entries
  <2>2. e.expire = e.made \div Second + e.ttl /\ e.made <= e.put
    BY <1>1 DEF EntrySound, Expires
  <2>3. Second \in Nat \ {0} /\ Ttls \subseteq Nat
    BY TimeAssumption
  <2>4. now \in Nat /\ \A n \in 0..now : n \in Nat
    BY <1>1
  <2>5. e.made \in Nat /\ e.put \in Nat
    BY <2>1, <2>4
  <2>6. e.ttl \in Nat
    BY <2>1, <2>3
  <2> QED BY <2>2, <2>3, <2>5, <2>6
<1>3. /\ e.made \div Second + e.ttl < now \div Second => now > e.made + e.ttl * Second
      /\ e.made \div Second + e.ttl >= now \div Second => now < e.made + (e.ttl + 1) * Second
  BY <1>1, <1>2, ExpiredArith
<1>4. (e.ttl + 1) * Second \in Nat /\ e.made \div Second \in Nat /\ now \div Second \in Nat
  BY <1>1, <1>2, DivBounds, Product
<1>5. Expired(k) <=> e.made \div Second + e.ttl < now \div Second
  BY <1>2 DEF Expired, NOW
<1> HIDE DEF e
<1>6. /\ Expired(k) => now > e.made + e.ttl * Second
      /\ ~Expired(k) => now < e.put + (e.ttl + 1) * Second
  <2> DEFINE x == e.made \div Second
             y == now \div Second
             z == (e.ttl + 1) * Second
  <2>1. x \in Nat /\ y \in Nat /\ z \in Nat
    BY <1>4
  <2>2. /\ x + e.ttl < y => now > e.made + e.ttl * Second
        /\ x + e.ttl >= y => now < e.made + z
        /\ Expired(k) <=> x + e.ttl < y
    BY <1>3, <1>5
  <2> HIDE DEF x, y, z
  <2>3. ~Expired(k) => now < e.put + z
    BY <1>1, <1>2, <2>1, <2>2
  <2> QED BY <2>2, <2>3 DEF z
<1> QED BY <1>6 DEF e

\* An entry that is put now is fresh.
LEMMA PutInTime ==
  ASSUME TypeOK, NEW ttl \in Ttls
  PROVE  now < now + (ttl + 1) * Second
<1>1. now \in Nat /\ ttl \in Nat /\ Second \in Nat \ {0}
  BY NowRange, TimeAssumption
<1>2. Second * (ttl + 1) = Second * ttl + Second * 1 /\ Second * ttl \in Nat
      /\ (ttl + 1) * Second = Second * (ttl + 1)
  BY <1>1, Product
<1>3. Second * 1 = Second
  BY <1>1
<1> QED BY <1>1, <1>2, <1>3


-----------------------------------------------------------------------------
(* The refinement: every step is a step of ExpiringDict *)

Shown(e) == [value |-> e.value, ttl |-> e.ttl, made |-> e.made, put |-> e.put]

LEMMA SeenFacts ==
  /\ DOMAIN Seen = Present
  /\ \A k \in Present : Seen[k] = Shown(entry[k])
  BY DEF Seen, Shown

LEMMA SeenSame ==
  ASSUME \A k \in Keys : /\ entry'[k] = NULL <=> entry[k] = NULL
                         /\ entry[k] # NULL => Shown(entry'[k]) = Shown(entry[k])
  PROVE  Seen' = Seen
<1>1. Seen = [k \in Present |-> Shown(entry[k])] /\ Seen' = [k \in Present' |-> Shown(entry'[k])]
  BY DEF Seen, Shown
<1>2. Present' = Present
  BY DEF Present
<1>3. \A k \in Present : Shown(entry'[k]) = Shown(entry[k])
  BY DEF Present
<1> QED BY <1>1, <1>2, <1>3

LEMMA SeenWithout ==
  ASSUME NEW ks \in SUBSET Keys,
         entry' = [k \in Keys |-> IF k \in ks THEN NULL ELSE entry[k]]
  PROVE  Seen' = [j \in Present \ ks |-> Seen[j]] /\ Present' = Present \ ks
<1>1. Seen = [k \in Present |-> Shown(entry[k])] /\ Seen' = [k \in Present' |-> Shown(entry'[k])]
  BY DEF Seen, Shown
<1>2. Present' = Present \ ks
  BY DEF Present
<1>3. \A k \in Present \ ks : entry'[k] = entry[k]
  BY DEF Present
<1> QED BY <1>1, <1>2, <1>3

LEMMA SeenPut ==
  ASSUME NEW k \in Keys, NEW e, e # NULL, entry \in [Keys -> {NULL} \cup Entries],
         entry' = [entry EXCEPT ![k] = e]
  PROVE  /\ Seen' = [j \in Present \cup {k} |-> IF j = k THEN Shown(e) ELSE Seen[j]]
         /\ Present' = Present \cup {k}
<1>1. Seen = [j \in Present |-> Shown(entry[j])] /\ Seen' = [j \in Present' |-> Shown(entry'[j])]
  BY DEF Seen, Shown
<1>2. Present' = Present \cup {k}
  BY DEF Present
<1>3. entry'[k] = e /\ \A j \in Present \ {k} : entry'[j] = entry[j]
  BY DEF Present
<1> QED BY <1>1, <1>2, <1>3

LEMMA Unchanged == UNCHANGED entry => Seen' = Seen
  BY DEF Seen, Present

-----------------------------------------------------------------------------
(* What is asked for *)

\* A state in which the contract is kept.
Good == IInv /\ Kept

LEMMA GoodIs == Good => TypeOK /\ Sound /\ call = [c \in Callers |-> call[c]]
  BY DEF Good, IInv, Typed, TypeOK

LEMMA CallsAre == \A d \in Callers : Calls[d] = Called(call[d])
  BY DEF Calls

LEMMA CalledIs ==
  ASSUME NEW f
  PROVE  /\ Called(f).op = f.op
         /\ f.op \in Puts => Called(f) = Dict!Call(f.op, f.key, f.val, f.todo)
         /\ f.op \in {"get", "pop"} => Called(f) = Dict!Call(f.op, f.key, NULL, <<>>)
         /\ f.op = "popitem" => Called(f) = Dict!Bare("popitem")
  BY DEF Called, Dict!Call, Dict!Bare, Puts

\* A frame that goes on with what it was asked for.
LEMMA SameCalled ==
  ASSUME NEW f, NEW g, g.op = f.op, f.op # "popitem" => g.key = f.key,
         f.op \in Puts => g.val = f.val /\ g.todo = f.todo
  PROVE  Called(g) = Called(f)
  BY DEF Called

LEMMA IdleCalled == Idle.op = "idle" /\ Called(Idle) = Dict!Bare("idle")
  BY DEF Called, Idle, Frame, Puts, Dict!Bare, Dict!Call

LEMMA UpdatingCalled == \A todo : Called(Updating(todo)) = Dict!Updating(todo)
  BY DEF Called, Updating, Frame, Dict!Updating, Dict!Call, Puts

LEMMA SameCalls == UNCHANGED call => Calls' = Calls
  BY DEF Calls

LEMMA GoesCalls ==
  ASSUME Good, NEW c \in Callers, NEW g, Goes(c, g)
  PROVE  /\ Dict!Asks(c, Called(g)) /\ Calls'[c] = Called(g)
         /\ Called(g) = Called(call[c]) => Calls' = Calls
<1>1. \A d \in Callers : call'[d] = IF d = c THEN g ELSE call[d]
  BY GoodIs DEF Goes
<1>2. Calls' = [d \in Callers |-> IF d = c THEN Called(g) ELSE Called(call[d])]
  BY <1>1 DEF Calls
<1>3. [Calls EXCEPT ![c] = Called(g)] = [d \in Callers |-> IF d = c THEN Called(g) ELSE Called(call[d])]
  BY DEF Calls
<1>4. Called(g) = Called(call[c]) =>
        [d \in Callers |-> IF d = c THEN Called(g) ELSE Called(call[d])] = Calls
  BY DEF Calls
<1> QED BY <1>2, <1>3, <1>4 DEF Dict!Asks

LEMMA ReturnsCalls == ASSUME Good, NEW c \in Callers, Returns(c) PROVE Dict!Done(c)
  BY GoesCalls, IdleCalled DEF Dict!Done, Returns

\* A caller inside no method has asked for nothing; a step of it that leaves
\* it there asks for nothing.
LEMMA FreeIs == ASSUME NEW c \in Callers, CanCall(c) PROVE Dict!Free(c)
  BY CallsAre, CalledIs, IdleCalled DEF CanCall, Dict!Free

LEMMA IdleStays ==
  ASSUME Good, NEW c \in Callers, CanCall(c), Returns(c) PROVE Calls' = Calls
  BY GoesCalls DEF CanCall, Returns

\* With a dict or keywords, but not both, update() puts all it was given.
LEMMA TodoIs ==
  ASSUME OneDict, NEW u \in Updates
  PROVE  u[1] \o SubSeq(u[2], Len(u[1]) + 1, Len(u[2])) = u[1] \o u[2]
<1>1. u[1] \in Seq(Keys \X Values) /\ u[2] \in Seq(Keys \X Values)
  BY UpdatesAssumption
<1>2. CASE u[1] = <<>>
  <2>1. Len(u[1]) + 1 = 1
    BY <1>2
  <2>2. SubSeq(u[2], 1, Len(u[2])) = u[2]
    BY <1>1, SubSeqFull
  <2> QED BY <2>1, <2>2
<1>3. CASE u[2] = <<>>
  <2> DEFINE m == Len(u[1]) + 1
             n == Len(u[2])
  <2>1. m \in Int /\ n \in Int /\ n < m
    <3>1. Len(u[1]) \in Nat /\ Len(u[2]) = 0
      BY <1>1, <1>3
    <3> QED BY <3>1
  <2> HIDE DEF m, n
  <2>2. SubSeq(u[2], m, n) = <<>>
    BY <2>1, SubSeqEmpty
  <2> QED BY <1>3, <2>2 DEF m, n
<1> QED BY <1>2, <1>3 DEF OneDict

-----------------------------------------------------------------------------
(* Steps that change no entry *)

LEMMA Answers ==
  /\ \A op, out : Answer(op, out) = Dict!Answer(op, out)
  /\ Pending = Dict!Pending
  BY DEF Answer, Dict!Answer, Pending, Dict!Pending

LEMMA QuietSim ==
  ASSUME Seen' = Seen, now' = now, Calls' = Calls, result' = Pending
  PROVE  Dict!Acts
  BY Answers DEF Dict!Quiet, Dict!Held, Dict!Acts

\* A call goes on with what it was asked for.
LEMMA GoesSim ==
  ASSUME Good, NEW c \in Callers, NEW g, Goes(c, g), Called(g) = Called(call[c]),
         Seen' = Seen, now' = now, result' = Pending
  PROVE  Dict!Acts
  BY GoesCalls, QuietSim

LEMMA TickSim == ASSUME Tick PROVE Dict!Acts
  BY Unchanged, SameCalls, Answers DEF Tick, Dict!Tick, Dict!Acts

LEMMA Timely ==
  ASSUME Good, NEW k \in Present
  PROVE  /\ Seen[k].value = entry[k].value /\ k \in Keys
         /\ Expired(k) => Dict!MayVanish(Seen[k])
         /\ ~Expired(k) => Dict!MayBeFound(Seen[k])
<1>1. /\ Seen[k].value = entry[k].value /\ Seen[k].put = entry[k].put
      /\ Seen[k].made = entry[k].made /\ Seen[k].ttl = entry[k].ttl
  BY SeenFacts DEF Shown
<1>2. /\ Expired(k) => now > entry[k].made + entry[k].ttl * Second
      /\ ~Expired(k) => now < entry[k].put + (entry[k].ttl + 1) * Second
  BY InTime DEF Good
<1> QED BY <1>1, <1>2 DEF Dict!MayVanish, Dict!MayBeFound, Present

LEMMA AskedIs ==
  /\ \A k \in Keys, v \in Values : Dict!Call("put", k, v, <<>>) \in Dict!Asked
  /\ \A k \in Keys, v \in Values :
       k \notin Present \/ Dict!MayVanish(Seen[k]) => Dict!Call("setdefault", k, v, <<>>) \in Dict!Asked
  /\ \A k \in Present : Dict!MayVanish(Seen[k]) => Dict!Call("get", k, NULL, <<>>) \in Dict!Asked
  /\ \A k \in Present : Dict!Call("pop", k, NULL, <<>>) \in Dict!Asked
  /\ Dict!Bare("popitem") \in Dict!Asked
<1>0. Dict!Present = Present
  BY SeenFacts DEF Dict!Present
<1>1. \A k \in Keys, v \in Values : Dict!Call("put", k, v, <<>>) \in Dict!Asked
  BY DEF Dict!Call, Dict!Asked
<1>2. \A k \in Keys, v \in Values :
        k \notin Present \/ Dict!MayVanish(Seen[k]) => Dict!Call("setdefault", k, v, <<>>) \in Dict!Asked
  BY <1>0 DEF Dict!Call, Dict!Asked, Dict!Gone
<1>3. \A k \in Present : Dict!MayVanish(Seen[k]) => Dict!Call("get", k, NULL, <<>>) \in Dict!Asked
  BY <1>0 DEF Dict!Call, Dict!Asked
<1>4. \A k \in Present : Dict!Call("pop", k, NULL, <<>>) \in Dict!Asked
  BY <1>0 DEF Dict!Call, Dict!Asked
<1>5. Dict!Bare("popitem") \in Dict!Asked
  BY DEF Dict!Asked
<1> QED BY <1>1, <1>2, <1>3, <1>4, <1>5

\* A call is asked for.
LEMMA AskSim ==
  ASSUME Good, NEW c \in Callers, CanCall(c), NEW g, Goes(c, g), Called(g) \in Dict!Asked,
         UNCHANGED <<entry, now>>, result' = Pending
  PROVE  Dict!Acts
<1>1. /\ Dict!Free(c) /\ Dict!Asks(c, Calls'[c]) /\ Calls'[c] \in Dict!Asked
      /\ UNCHANGED Dict!Held /\ result' = Dict!Pending
  BY FreeIs, GoesCalls, Unchanged, Answers DEF Dict!Held
<1>2. Dict!Ask(c)
  BY <1>1 DEF Dict!Ask
<1> QED BY <1>2 DEF Dict!Step, Dict!Acts

\* A call that only looks.
LEMMA LooksSim ==
  ASSUME Good, NEW c \in Callers, CanCall(c), NEW k \in Keys, Calls' = Calls,
         UNCHANGED <<entry, now>>,
         \/ /\ k \in Present /\ ~Expired(k)
            /\ result' \in {Answer(op, <<k, entry[k].value>>) : op \in {"get", "setdefault"}}
         \/ /\ k \notin Present
            /\ result' \in {Answer(op, <<k, NULL>>) : op \in {"get", "pop", "delete"}}
  PROVE  Dict!Acts
<1>1. Dict!Free(c) /\ UNCHANGED <<Dict!Held, Calls>>
  BY FreeIs, Unchanged DEF Dict!Held
<1>2. Dict!Present = Present /\ (k \in Present => Seen[k].value = entry[k].value)
      /\ (k \in Present /\ ~Expired(k) => Dict!MayBeFound(Seen[k]))
  BY SeenFacts, Timely DEF Dict!Present
<1>3. Dict!Look(c, k)
  BY <1>1, <1>2 DEF Dict!Look, Dict!Answer, Answer
<1> QED BY <1>3 DEF Dict!Step, Dict!Acts

LEMMA FrameCalled ==
  ASSUME NEW op, NEW at, NEW k, NEW v, NEW g,
         NEW from, g = Frame(op, at, k, v, <<>>) \/ g = At(Frame(op, from, k, v, <<>>), at)
  PROVE  /\ op \in Puts => Called(g) = Dict!Call(op, k, v, <<>>)
         /\ op \in {"get", "pop"} => Called(g) = Dict!Call(op, k, NULL, <<>>)
         /\ op = "popitem" => Called(g) = Dict!Bare("popitem")
<1>1. g.op = op /\ g.key = k /\ g.val = v /\ g.todo = <<>>
  <2>1. CASE g = Frame(op, at, k, v, <<>>)
    BY <2>1 DEF Frame
  <2>2. CASE g = At(Frame(op, from, k, v, <<>>), at)
    BY <2>2 DEF Frame, At
  <2> QED BY <2>1, <2>2
<1> QED BY <1>1, CalledIs

LEMMA FindSim ==
  ASSUME Good, Good', NEW c \in Callers, NEW k \in Keys, NEW op \in {"get", "pop", "setdefault"},
         NEW v, op = "setdefault" => v \in Values, Find(c, op, k, v)
  PROVE  Dict!Acts
<1> DEFINE f == Frame(op, "lookup", k, v, <<>>)
<1>1. CanCall(c) /\ UNCHANGED <<entry, now>>
  BY DEF Find
<1>2. CASE k \notin Present /\ Missed(c, f)
  <2>1. CASE op = "setdefault"
    <3>1. Goes(c, At(f, "lookup")) /\ result' = Pending
      BY <1>2, <2>1 DEF Missed, Frame
    <3>2. Called(At(f, "lookup")) = Dict!Call("setdefault", k, v, <<>>)
      BY <2>1, FrameCalled DEF Puts
    <3>3. Called(At(f, "lookup")) \in Dict!Asked
      BY <1>2, <2>1, <3>2, AskedIs
    <3> HIDE DEF f
    <3> QED BY <1>1, <3>1, <3>3, AskSim
  <2>2. CASE op # "setdefault"
    <3>1. Returns(c) /\ result' = Answer(op, <<k, NULL>>)
      BY <1>2, <2>2 DEF Missed, Frame
    <3>2. Calls' = Calls
      BY <1>1, <3>1, IdleStays
    <3> QED BY <1>1, <1>2, <2>2, <3>1, <3>2, LooksSim
  <2> QED BY <2>1, <2>2
<1>3. CASE k \in Present /\ Expired(k) /\ Goes(c, At(f, "expired")) /\ result' = Pending
  <2>1. Dict!MayVanish(Seen[k])
    BY <1>3, Timely
  <2>2. Called(At(f, "expired")) \in Dict!Asked
    <3>1. CASE op = "setdefault"
      <4>1. Called(At(f, "expired")) = Dict!Call("setdefault", k, v, <<>>) /\ v \in Values
        BY <3>1, FrameCalled DEF Puts
      <4> HIDE DEF f
      <4> QED BY <2>1, <4>1, AskedIs
    <3>2. CASE op = "get"
      BY <1>3, <2>1, <3>2, FrameCalled, AskedIs
    <3>3. CASE op = "pop"
      BY <1>3, <3>3, FrameCalled, AskedIs
    <3> QED BY <3>1, <3>2, <3>3
  <2> HIDE DEF f
  <2> QED BY <1>1, <1>3, <2>2, AskSim
<1>4. CASE op = "pop" /\ k \in Present /\ Goes(c, At(f, "pop")) /\ result' = Pending
  <2>1. Called(At(f, "pop")) \in Dict!Asked
    BY <1>4, FrameCalled, AskedIs
  <2> HIDE DEF f
  <2> QED BY <1>1, <1>4, <2>1, AskSim
<1>5. CASE /\ op # "pop" /\ k \in Present /\ ~Expired(k) /\ UNCHANGED call
           /\ result' = Answer(op, <<k, entry[k].value>>)
  BY <1>1, <1>5, SameCalls, LooksSim
<1> QED BY <1>2, <1>3, <1>4, <1>5 DEF Find

\* The key goes, and nothing else.
LEMMA UnsetIs ==
  ASSUME NEW c, NEW k \in Keys, Drop(c, {k}) PROVE Dict!Unset(k)
<1>1. Seen' = [j \in Present \ {k} |-> Seen[j]]
  BY SeenWithout DEF Drop
<1> QED BY <1>1, SeenFacts DEF Dict!Unset, Dict!Present

LEMMA ExpireSim == ASSUME Good, Good', NEW c \in Callers, Expire(c) PROVE Dict!Acts
<1> DEFINE f == call[c]
           k == f.key
           q == Calls[c]
<1>1. FrameOK(f) /\ f \in Frames /\ f.at = "expired" /\ now' = now
  BY Facts DEF Expire, Inside, Good
<1>2. k \in Keys /\ k \in Present /\ Expired(k) /\ f.op \in {"get", "pop", "setdefault"}
  BY <1>1, GoodIs DEF FrameOK, Sound, FrameSound, Delicate
<1>3. Drop(c, {k}) /\ Missed(c, f)
  BY <1>2 DEF Expire, Good, Kept
<1>4. Dict!Unset(k) /\ Dict!MayVanish(Seen[k]) /\ Dict!Present = Present
  BY <1>2, <1>3, UnsetIs, Timely, SeenFacts DEF Dict!Present
<1>5. q.op = f.op /\ q.key = k
  BY <1>2, CallsAre, CalledIs DEF Dict!Call, Puts
<1>6. CASE f.op = "setdefault"
  <2>1. Goes(c, At(f, "lookup")) /\ result' = Pending
    BY <1>3, <1>6 DEF Missed
  <2>2. Called(At(f, "lookup")) = Called(f)
    BY <1>1, SameCalled DEF At, Frames
  <2>3. Calls' = Calls
    BY <2>1, <2>2, GoesCalls
  <2> HIDE DEF f, k, q
  <2>4. Dict!Vanish(c)
    BY <1>1, <1>2, <1>4, <1>5, <1>6, <2>1, <2>3, Answers DEF Dict!Vanish, q
  <2> QED BY <2>4 DEF Dict!Step, Dict!Acts
<1>7. CASE f.op # "setdefault"
  <2>1. Returns(c) /\ result' = Answer(f.op, <<k, NULL>>)
    BY <1>3, <1>7 DEF Missed
  <2>2. Dict!Done(c)
    BY <2>1, ReturnsCalls
  <2> HIDE DEF f, k, q
  <2>3. Dict!Vanish(c)
    BY <1>1, <1>2, <1>4, <1>5, <1>7, <2>1, <2>2, Answers DEF Dict!Vanish, q
  <2> QED BY <2>3 DEF Dict!Step, Dict!Acts
<1> QED BY <1>6, <1>7

\* update() of nothing answers; else it begins, and was asked for all it is
\* going to put.  One that was given both a dict and keywords may not have been.
LEMMA UpdateSim ==
  ASSUME Good, NEW c \in Callers, NEW u \in Updates, Update(c, u[1], u[2])
  PROVE  /\ UNCHANGED <<entry, now>> /\ result'.op \in {"asked", "update"}
         /\ OneDict => Dict!Acts
<1>1. UNCHANGED <<entry, now>> /\ result'.op \in {"asked", "update"} /\ CanCall(c)
  <2>1. result' = Answer("update", u[1] \o u[2]) \/ result' = Answer("asked", u[1] \o u[2])
    BY Zenon DEF Update
  <2>2. \A op, out : Answer(op, out).op = op
    BY DEF Answer
  <2>3. result'.op \in {"asked", "update"}
    BY <2>1, <2>2
  <2>4. UNCHANGED <<entry, now>> /\ CanCall(c)
    BY Zenon DEF Update
  <2> QED BY <2>3, <2>4
<1>2. ASSUME OneDict PROVE Dict!Acts
  <2> DEFINE todo == u[1] \o u[2]
  <2>1. todo = u[1] \o SubSeq(u[2], Len(u[1]) + 1, Len(u[2]))
    BY <1>2, TodoIs
  <2>2. \/ todo = <<>> /\ result' = Answer("update", todo) /\ call' = call
        \/ Goes(c, Updating(todo)) /\ result' = Answer("asked", todo)
    BY <2>1 DEF Update
  <2>3. Dict!Free(c) /\ UNCHANGED Dict!Held
    BY <1>1, FreeIs, Unchanged DEF Dict!Held
  <2> HIDE DEF todo
  <2>4. CASE todo = <<>> /\ result' = Answer("update", todo) /\ call' = call
    <3>1. Dict!UpdateNothing(c)
      BY <2>3, <2>4, SameCalls, Answers DEF Dict!UpdateNothing, Dict!Held
    <3> QED BY <3>1 DEF Dict!Step, Dict!Acts
  <2>5. CASE Goes(c, Updating(todo)) /\ result' = Answer("asked", todo)
    <3>1. result'.op = "asked" /\ result'.out = todo
      BY <2>5 DEF Answer
    <3>2. Dict!Asks(c, Dict!Updating(result'.out))
      BY <2>5, <3>1, GoesCalls, UpdatingCalled
    <3>3. Dict!AskUpdate(c)
      BY <2>3, <3>1, <3>2 DEF Dict!AskUpdate
    <3> QED BY <3>3 DEF Dict!Step, Dict!Acts
  <2> QED BY <2>2, <2>4, <2>5
<1> QED BY <1>1, <1>2

-----------------------------------------------------------------------------
(* Entries that are put *)

LEMMA PutDoneIs ==
  ASSUME Good, NEW c \in Callers, call[c].op \in Puts, PutDone(c, call[c])
  PROVE  LET q == Calls[c] IN
         IF q.todo = <<>> THEN Dict!Done(c) /\ result' = Dict!PutAnswer(q)
                          ELSE Dict!Asks(c, Dict!Updating(q.todo)) /\ result' = Dict!Pending
<1> DEFINE f == call[c]
           q == Calls[c]
<1>1. q.op = f.op /\ q.key = f.key /\ q.val = f.val /\ q.todo = f.todo
  BY CallsAre, CalledIs DEF Dict!Call
<1>2. CASE f.todo # <<>>
  <2>1. Goes(c, Updating(f.todo)) /\ result' = Pending
    BY <1>2 DEF PutDone
  <2>2. Dict!Asks(c, Dict!Updating(f.todo))
    BY <2>1, GoesCalls, UpdatingCalled
  <2> HIDE DEF f, q
  <2>3. q.todo # <<>> /\ Dict!Asks(c, Dict!Updating(q.todo)) /\ result' = Dict!Pending
    BY <1>1, <1>2, <2>1, <2>2, Answers
  <2> QED BY <2>3 DEF q
<1>3. CASE f.todo = <<>>
  <2>1. Returns(c) /\ result' = Answer(f.op, IF f.op = "setdefault" THEN <<f.key, f.val>> ELSE <<>>)
    BY <1>3 DEF PutDone
  <2>2. Dict!Done(c)
    BY <2>1, ReturnsCalls
  <2> HIDE DEF f, q
  <2>3. q.todo = <<>> /\ result' = Dict!PutAnswer(q)
    BY <1>1, <1>3, <2>1, Answers DEF Dict!PutAnswer
  <2> QED BY <2>2, <2>3 DEF q
<1> QED BY <1>2, <1>3

\* An entry is put now, whoever made it.
LEMMA PutSim ==
  ASSUME Good, NEW c \in Callers, call[c].op \in Puts, call[c].key \in Keys,
         NEW e \in Entries, e.value = call[c].val, e.put = now,
         entry' = [entry EXCEPT ![call[c].key] = e], now' = now, PutDone(c, call[c])
  PROVE  Dict!Acts
<1> DEFINE f == call[c]
           k == f.key
           q == Calls[c]
<1>1. now \in Nat /\ entry \in [Keys -> {NULL} \cup Entries] /\ e # NULL
  BY Facts, NullEntry DEF Good
<1>2. q.op = f.op /\ q.key = k /\ q.val = f.val
  BY CallsAre, CalledIs DEF Dict!Call
<1>3. IF q.todo = <<>> THEN Dict!Done(c) /\ result' = Dict!PutAnswer(q)
                       ELSE Dict!Asks(c, Dict!Updating(q.todo)) /\ result' = Dict!Pending
  BY PutDoneIs
<1> HIDE DEF f, k, q
<1>4. /\ Seen' = [j \in Present \cup {k} |-> IF j = k THEN Shown(e) ELSE Seen[j]]
      /\ Present' = Present \cup {k}
  BY <1>1, SeenPut DEF k, f
<1>5. Shown(e) \in [value : {f.val}, ttl : Ttls, made : 0..now, put : {now}]
  BY DEF Shown, Entries, f
<1>6. k \in DOMAIN Seen' /\ Seen'[k] = Shown(e)
  BY <1>4
<1>7. Dict!PutEntry(k, f.val, Seen'[k])
  BY <1>4, <1>5, <1>6, SeenFacts DEF Dict!PutEntry, Dict!Present
<1>8. q.op \in Dict!Puts /\ q.key \in DOMAIN Seen' /\ Dict!PutEntry(q.key, q.val, Seen'[q.key])
  BY <1>2, <1>6, <1>7 DEF Puts, Dict!Puts, f
<1>9. Dict!Put(c)
  BY <1>3, <1>8 DEF Dict!Put, Dict!Present, q
<1> QED BY <1>9 DEF Dict!Step, Dict!Acts

LEMMA StoreSim ==
  ASSUME Good, NEW c \in Callers, call[c].op \in Puts, call[c].key \in Keys,
         call[c].val \in Values, Store(c, call[c]), now' = now
  PROVE  Dict!Acts
<1> DEFINE f == call[c]
           e == Entry(f.val, Wrap(NOW + default_ttl), default_ttl, now, now)
<1>1. TypeOK /\ default_ttl \in Ttls /\ now \in Nat
  BY Facts DEF Good
<1>2. Wrap(NOW + default_ttl) \in Seconds
  BY <1>1, ExpiryFits
<1>3. e \in Entries /\ e.value = f.val /\ e.put = now
  BY <1>1, <1>2 DEF Entry, Entries
<1>4. entry' = [entry EXCEPT ![f.key] = e] /\ PutDone(c, f)
  BY DEF Store
<1> HIDE DEF e
<1> QED BY <1>3, <1>4, PutSim

LEMMA PutBeginSim ==
  ASSUME Good, NEW c \in Callers, NEW k \in Keys, NEW v \in Values, PutBegin(c, k, v)
  PROVE  Dict!Acts
<1> DEFINE g == Frame("put", "lookup", k, v, <<>>)
<1>1. Called(g) = Dict!Call("put", k, v, <<>>)
  BY FrameCalled DEF Puts
<1>2. CanCall(c) /\ Goes(c, g) /\ UNCHANGED <<entry, now>> /\ result' = Pending
  BY DEF PutBegin
<1> HIDE DEF g
<1> QED BY <1>1, <1>2, AskedIs, AskSim

LEMMA SetItemSim == ASSUME Good, NEW c \in Callers, SetItem(c) PROVE Dict!Acts
<1> DEFINE f == call[c]
<1>1. /\ f.key \in Keys /\ f.val \in Values /\ f.op \in Puts /\ now' = now /\ f \in Frames
      /\ entry \in [Keys -> {NULL} \cup Entries] /\ now \in Nat /\ TypeOK
  BY Facts DEF FrameOK, SetItem, Inside, Good
<1>2. CASE Store(c, f)
  BY <1>1, <1>2, StoreSim
<1>3. CASE /\ f.key \in Present /\ entry' = [entry EXCEPT ![f.key].freed = TRUE]
           /\ result' = Pending /\ Goes(c, At(f, "store"))
  <2> HIDE DEF f
  <2>1. entry[f.key] \in Entries
    BY <1>1, <1>3 DEF Present
  <2>2. /\ entry'[f.key] \in Entries /\ Shown(entry'[f.key]) = Shown(entry[f.key])
        /\ \A k \in Keys \ {f.key} : entry'[k] = entry[k]
    BY <1>1, <1>3, <2>1 DEF Entries, Shown
  <2>3. Seen' = Seen
    BY <1>1, <2>1, <2>2, NullEntry, SeenSame
  <2>4. Called(At(f, "store")) = Called(f)
    BY <1>1, SameCalled DEF At, Frames
  <2> QED BY <1>1, <1>3, <2>3, <2>4, GoesSim DEF f
<1>4. CASE /\ UNCHANGED entry /\ result' = Pending
           /\ Goes(c, [f EXCEPT !.at = "alloc", !.ttl = default_ttl])
  <2> DEFINE g == [f EXCEPT !.at = "alloc", !.ttl = default_ttl]
  <2>1. Called(g) = Called(f)
    BY <1>1, SameCalled DEF Frames
  <2> HIDE DEF g
  <2> QED BY <1>1, <1>4, <2>1, Unchanged, GoesSim DEF g
<1> QED BY <1>2, <1>3, <1>4 DEF SetItem

LEMMA ReplaceEndSim == ASSUME Good, NEW c \in Callers, ReplaceEnd(c) PROVE Dict!Acts
<1>1. /\ call[c].key \in Keys /\ call[c].val \in Values /\ call[c].op \in Puts
  BY Facts DEF ReplaceEnd, Inside, FrameOK, Good
<1> QED BY <1>1, StoreSim DEF ReplaceEnd

LEMMA MakeSim == ASSUME Good, NEW c \in Callers, Make(c) PROVE Dict!Acts
<1> DEFINE f == call[c]
           g == [f EXCEPT !.at = "insert", !.expire = Wrap(NOW + f.ttl), !.made = now]
<1>1. f \in Frames /\ Goes(c, g) /\ UNCHANGED <<entry, now>> /\ result' = Pending
  BY Facts DEF Make, Good
<1>2. Called(g) = Called(f)
  BY <1>1, SameCalled DEF Frames
<1> HIDE DEF g
<1> QED BY <1>1, <1>2, Unchanged, GoesSim

LEMMA InsertSim == ASSUME Good, NEW c \in Callers, Insert(c) PROVE Dict!Acts
<1> DEFINE f == call[c]
           e == Entry(f.val, f.expire, f.ttl, f.made, now)
<1>1. /\ f \in Frames /\ f.key \in Keys /\ f.val \in Values /\ f.op \in Puts
      /\ f.ttl \in Ttls /\ now \in Nat /\ now' = now
      /\ entry' = [entry EXCEPT ![f.key] = e] /\ PutDone(c, f)
  BY Facts DEF Insert, Inside, FrameOK, Good
<1>2. e \in Entries /\ e.value = f.val /\ e.put = now
  BY <1>1 DEF Entry, Entries, Frames
<1> HIDE DEF e
<1> QED BY <1>1, <1>2, PutSim

-----------------------------------------------------------------------------
(* The other methods *)

\* A call that raises leaves the dictionary alone.
LEMMA FailsSim == ASSUME Good, NEW c \in Callers, Fails(c) PROVE Dict!Acts
<1>1. /\ Returns(c) /\ UNCHANGED <<entry, now>> /\ result' = Answer("error", <<>>)
      /\ call[c].op # "idle"
  BY Facts DEF Fails, Inside, FrameOK, Puts, Good
<1>2. Dict!Done(c) /\ UNCHANGED Dict!Held /\ ~Dict!Free(c)
  BY <1>1, ReturnsCalls, Unchanged, CallsAre, CalledIs DEF Dict!Held, Dict!Free
<1>3. Dict!Fails(c)
  BY <1>1, <1>2, Answers DEF Dict!Fails
<1> QED BY <1>3 DEF Dict!Step, Dict!Acts

LEMMA SetDefaultTtlSim ==
  ASSUME NEW c \in Callers, NEW n, SetDefaultTtl(c, n) PROVE Dict!Acts
<1>1. Dict!SetTtl(c)
  BY FreeIs, SameCalls, Unchanged, Answers DEF SetDefaultTtl, Dict!SetTtl, Dict!Held
<1> QED BY <1>1 DEF Dict!Step, Dict!Acts

LEMMA DeleteSim == ASSUME Good, NEW c \in Callers, NEW k \in Keys, Delete(c, k) PROVE Dict!Acts
<1>1. CanCall(c) /\ UNCHANGED <<now, call>> /\ Calls' = Calls
  BY SameCalls DEF Delete
<1>2. CASE k \in Present
  <2>1. Drop(c, {k}) /\ result' = Answer("delete", <<k>>)
    BY <1>2 DEF Delete
  <2>2. Dict!Delete(c, k)
    BY <1>1, <1>2, <2>1, UnsetIs, FreeIs, SeenFacts, Answers DEF Dict!Delete, Dict!Present
  <2> QED BY <2>2 DEF Dict!Step, Dict!Acts
<1>3. CASE k \notin Present
  <2>1. UNCHANGED entry /\ result' = Answer("delete", <<k, NULL>>)
    BY <1>3 DEF Delete
  <2> QED BY <1>1, <1>3, <2>1, LooksSim
<1> QED BY <1>2, <1>3

LEMMA ItemsSim == ASSUME NEW c \in Callers, Items(c) PROVE Dict!Acts
<1>1. {<<k, entry[k].value>> : k \in Present} = {<<k, Seen[k].value>> : k \in DOMAIN Seen}
  BY SeenFacts DEF Shown
<1>2. Dict!Items(c)
  BY <1>1, Unchanged, FreeIs, SameCalls DEF Items, Dict!Items, Dict!Present, Answer, Dict!Held
<1> QED BY <1>2 DEF Dict!Step, Dict!Acts

LEMMA ClearSim == ASSUME NEW c \in Callers, Clear(c) PROVE Dict!Acts
<1>1. Present \in SUBSET Keys
  BY DEF Present
<1>2. Seen' = [j \in Present \ Present |-> Seen[j]]
  BY <1>1, SeenWithout DEF Clear, Drop
<1>3. Seen' = [j \in {} |-> 0]
  BY <1>2
<1>4. Dict!Clear(c)
  BY <1>3, FreeIs, SameCalls, Answers DEF Clear, Dict!Clear
<1> QED BY <1>4 DEF Dict!Step, Dict!Acts

LEMMA PopItemBeginSim == ASSUME Good, NEW c \in Callers, PopItemBegin(c) PROVE Dict!Acts
<1>1. UNCHANGED <<entry, now>> /\ CanCall(c)
  BY DEF PopItemBegin
<1>2. CASE Present = {}
  <2>1. result' = Answer("popitem", <<>>) /\ UNCHANGED call
    BY <1>2 DEF PopItemBegin
  <2>2. Dict!FoundEmpty(c)
    BY <1>1, <1>2, <2>1, SeenFacts, FreeIs, SameCalls, Unchanged, Answers
       DEF Dict!FoundEmpty, Dict!Present, Dict!Held
  <2> QED BY <2>2 DEF Dict!Step, Dict!Acts
<1>3. CASE Present # {}
  <2>1. PICK k \in Present : Goes(c, Frame("popitem", "first", k, NULL, <<>>))
    BY <1>3 DEF PopItemBegin
  <2> DEFINE g == Frame("popitem", "first", k, NULL, <<>>)
  <2>2. Called(g) \in Dict!Asked /\ Goes(c, g) /\ result' = Pending
    BY <1>3, <2>1, FrameCalled, AskedIs DEF PopItemBegin
  <2> HIDE DEF g
  <2> QED BY <1>1, <2>2, AskSim
<1> QED BY <1>2, <1>3

LEMMA PopItemFoundSim == ASSUME Good, Good', NEW c \in Callers, PopItemFound(c) PROVE Dict!Acts
<1> DEFINE k == call[c].key
           g == Frame("popitem", "pair", k, entry[k].value, <<>>)
<1>1. /\ call[c].at = "first" /\ call[c].op = "popitem" /\ k \in Present
      /\ UNCHANGED <<entry, now>> /\ result' = Pending
  BY Facts, GoodIs DEF PopItemFound, Inside, FrameOK, Good, Sound, FrameSound, Delicate
<1>2. Goes(c, g)
  BY <1>1 DEF PopItemFound
<1>3. Called(g) = Called(call[c])
  <2>1. g.op = "popitem"
    BY DEF Frame
  <2> HIDE DEF g
  <2>2. Called(g) = Dict!Bare("popitem")
    BY <2>1, CalledIs
  <2> QED BY <1>1, <2>2, CalledIs
<1> HIDE DEF g
<1> QED BY <1>1, <1>2, <1>3, Unchanged, GoesSim

LEMMA PopItemEndSim == ASSUME Good, Good', NEW c \in Callers, PopItemEnd(c) PROVE Dict!Acts
<1> DEFINE f == call[c]
           k == f.key
<1>1. FrameOK(f) /\ f.at = "pair" /\ f.op = "popitem" /\ now' = now /\ Returns(c)
      /\ result' = Answer("popitem", <<k, f.val>>)
  BY Facts DEF PopItemEnd, Inside, Good, FrameOK
<1>2. k \in Keys /\ k \in Present /\ f.val = entry[k].value
  BY <1>1, GoodIs DEF FrameOK, Sound, FrameSound, Delicate
<1>3. Drop(c, {k})
  <2>1. breach' # breach \cup {"raised"}
    BY DEF Good, Kept
  <2> QED BY <1>2, <2>1 DEF PopItemEnd
<1>4. Dict!Unset(k) /\ Seen[k].value = f.val /\ Dict!Present = Present /\ Dict!Done(c)
      /\ Calls[c].op = "popitem"
  BY <1>1, <1>2, <1>3, UnsetIs, SeenFacts, ReturnsCalls, CallsAre, CalledIs DEF Shown, Dict!Present
<1> HIDE DEF f, k
<1>5. Dict!PopItem(c, k)
  BY <1>1, <1>2, <1>4, Answers DEF Dict!PopItem
<1> QED BY <1>2, <1>5 DEF Dict!Step, Dict!Acts

-----------------------------------------------------------------------------
(* Every step *)

\* pop() of an entry that is there breaks the contract when it ends.
LEMMA PopEndBreaks == ASSUME NEW c \in Callers, PopEnd(c) PROVE ~Kept'
  BY DEF PopEnd, Kept

\* A contract that has been broken stays broken.
LEMMA BreachStays == Next /\ Kept' => Kept
<1> SUFFICES ASSUME Next, Kept' PROVE breach \subseteq breach'
  BY DEF Kept
<1>1. ASSUME NEW c \in Callers, Enter(c) PROVE breach \subseteq breach'
  BY Zenon, <1>1 DEF Enter, Find, Reads, PutBegin, Releases, Update, SetDefaultTtl,
                     Delete, Drop, Items, Clear, PopItemBegin
<1>2. ASSUME NEW c \in Callers, GoOn(c) PROVE breach \subseteq breach'
  BY <1>2 DEF GoOn, Expire, Drop, Releases, PopEnd, SetItem, Store, ReplaceEnd, Make, Insert, Fails,
              PopItemFound, Reads, PopItemEnd
<1> QED BY <1>1, <1>2 DEF Next, Tick

\* Every step within the contract is an act of the dictionary, but that an
\* update() given both a dict and keywords may put less than it was asked for.
LEMMA ActsSim ==
  ASSUME Good, Good', Next
  PROVE  \/ Dict!Acts
         \/ ~OneDict /\ UNCHANGED <<entry, now>> /\ result'.op \in {"asked", "update"}
<1> DEFINE Goal == \/ Dict!Acts
                   \/ ~OneDict /\ UNCHANGED <<entry, now>> /\ result'.op \in {"asked", "update"}
<1>1. ASSUME NEW c \in Callers, Enter(c) PROVE Goal
  <2>1. ASSUME NEW k \in Keys, NEW op \in {"get", "pop"}, Find(c, op, k, NULL) PROVE Goal
    BY <2>1, FindSim
  <2>2. ASSUME NEW k \in Keys, NEW v \in Values, Find(c, "setdefault", k, v) PROVE Goal
    BY <2>2, FindSim
  <2>3. ASSUME NEW k \in Keys, Delete(c, k) PROVE Goal
    BY <2>3, DeleteSim
  <2>4. ASSUME NEW k \in Keys, NEW v \in Values, PutBegin(c, k, v) PROVE Goal
    BY <2>4, PutBeginSim
  <2>5. ASSUME NEW u \in Updates, Update(c, u[1], u[2]) PROVE Goal
    BY <2>5, UpdateSim
  <2>6. ASSUME NEW n \in Ttls, SetDefaultTtl(c, n) PROVE Goal
    BY <2>6, SetDefaultTtlSim
  <2>7. Items(c) \/ Clear(c) \/ PopItemBegin(c) => Goal
    BY ItemsSim, ClearSim, PopItemBeginSim
  <2> HIDE DEF Goal
  <2> QED BY <1>1, <2>1, <2>2, <2>3, <2>4, <2>5, <2>6, <2>7 DEF Enter
<1>2. ASSUME NEW c \in Callers, GoOn(c) PROVE Goal
  <2>1. ~PopEnd(c)
    BY PopEndBreaks DEF Good
  <2>2. Dict!Acts
    BY <1>2, <2>1, ExpireSim, SetItemSim, ReplaceEndSim, MakeSim, InsertSim, FailsSim,
       PopItemFoundSim, PopItemEndSim DEF GoOn
  <2> QED BY <2>2
<1> QED BY <1>1, <1>2, TickSim DEF Next

LEMMA StepSim == IInv /\ IInv' /\ [Next]_vars => [Dict!Next]_(Dict!vars)
<1>1. UNCHANGED vars => UNCHANGED Dict!vars
  <2> SUFFICES ASSUME UNCHANGED vars PROVE UNCHANGED Dict!vars
    OBVIOUS
  <2>1. UNCHANGED <<Seen, Calls>> /\ UNCHANGED <<now, result, breach>> /\ OneDict' = OneDict
    BY Unchanged, SameCalls DEF vars, OneDict
  <2> QED BY <2>1 DEF Dict!vars
<1>2. ~Kept' \/ ~OneDict => Dict!Next
  BY DEF Dict!Next, Kept, OneDict
<1>3. IInv /\ IInv' /\ Next /\ Kept' /\ OneDict => Dict!Next
  <2> SUFFICES ASSUME IInv, IInv', Next, Kept', OneDict PROVE Dict!Next
    OBVIOUS
  <2>1. Good /\ Good'
    BY BreachStays DEF Good
  <2>2. Dict!Acts
    BY <2>1, ActsSim
  <2> QED BY <2>1, <2>2 DEF Dict!Next, Good, Kept, OneDict
<1> QED BY <1>1, <1>2, <1>3

\* The cache implements the dictionary whose entries expire: every step that
\* any overlapping calls take, within the contract, is a step of the call that
\* takes it: an answer about the key it was asked about, of a value that may
\* still be found; a put of that key and value; or an entry that may vanish and
\* does.  Every update() is asked with a dict or with keywords, not both: given
\* both, it drops keywords, and the dictionary promises nothing.
THEOREM Refines == Spec => IsExpiring
<1>1. Init => Dict!Init
  <2> SUFFICES ASSUME Init PROVE Dict!Init
    OBVIOUS
  <2>1. Present = {}
    BY DEF Init, Present
  <2>2. Seen = [k \in {} |-> 0]
    BY <2>1 DEF Seen
  <2>3. Calls = [c \in Callers |-> Dict!Bare("idle")]
    BY IdleCalled DEF Init, Calls
  <2>4. (breach # {} \/ ~OneDict) \in BOOLEAN
    OBVIOUS
  <2> QED BY <2>2, <2>3, <2>4, Answers DEF Init, Dict!Init
<1> QED BY <1>1, StepSim, Inductive, PTL DEF Spec, IsExpiring

-----------------------------------------------------------------------------
(* Fresh and NotLost follow from the acts of the dictionary, which the      *)
(* methods keep to even if update() drops keywords.                         *)

LEMMA FirstOfPair == \A a, b, c, d : <<a, b>> = <<c, d>> => a = c /\ b = d
  OBVIOUS

\* A look that answers a call that finds: NULL is no value.
LEMMA LookFound ==
  ASSUME NEW c, NEW j \in Keys, Dict!Look(c, j), IInv', NEW k \in Present',
         result'.out = <<k, entry'[k].value>>
  PROVE  j \in DOMAIN Seen /\ result'.out = <<j, Seen[j].value>> /\ Dict!MayBeFound(Seen[j])
<1>1. entry'[k].value \in Values
  BY DEF IInv, Typed, TypeOK, Present, Entries
<1>2. CASE result'.out = <<j, NULL>>
  BY <1>1, <1>2, NullAssumption, FirstOfPair
<1>3. CASE result'.out # <<j, NULL>>
  BY <1>3 DEF Dict!Look, Dict!Answer, Dict!Present
<1> QED BY <1>2, <1>3

\* A put that answers setdefault().
LEMMA PutNow ==
  ASSUME NEW c, Dict!Put(c), result'.op = "setdefault" \/ result'.op = "get"
  PROVE  LET q == Calls[c] IN
         result'.out = <<q.key, q.val>> /\ q.key \in DOMAIN Seen' /\ Seen'[q.key].put = now
<1> DEFINE q == Calls[c]
<1>1. q.key \in DOMAIN Seen' /\ Seen'[q.key].put = now
  BY DEF Dict!Put, Dict!PutEntry, Dict!Present
<1>2. result' = Dict!PutAnswer(q) /\ q.op \in {"put", "setdefault", "update"}
  BY DEF Dict!Put, Dict!Pending, Dict!Answer, Dict!Puts
<1> HIDE DEF q
<1>3. result'.op = q.op /\ result'.out = IF q.op = "setdefault" THEN <<q.key, q.val>> ELSE <<>>
  BY <1>2 DEF Dict!PutAnswer, Dict!Answer
<1> QED BY <1>1, <1>2, <1>3 DEF q

\* Which steps answer an entry to a call that looks at the expiry.
LEMMA FreshStep ==
  ASSUME IInv, IInv', Next, Kept', NEW k \in Present', result'.op \in Finders,
         result'.out = <<k, entry'[k].value>>
  PROVE  now < entry'[k].put + (entry'[k].ttl + 1) * Second
<1>0. Good /\ Good'
  BY BreachStays DEF Good
<1>1. /\ result'.op \in {"get", "setdefault"} /\ k \in Keys /\ Seen'[k] = Shown(entry'[k])
      /\ DOMAIN Seen' = Present' /\ entry'[k].ttl \in Ttls /\ TypeOK
  <2>1. Seen'[k] = Shown(entry'[k]) /\ DOMAIN Seen' = Present'
    BY DEF Seen, Shown
  <2>2. TypeOK /\ k \in Keys /\ entry'[k].ttl \in Ttls
    BY DEF IInv, Typed, TypeOK, Present, Entries
  <2> QED BY <2>1, <2>2 DEF Finders
<1>2. PICK c \in Callers : (\E j \in Keys : Dict!Look(c, j)) \/ Dict!Vanish(c) \/ Dict!Put(c)
  <2>1. Dict!Acts
    BY <1>0, <1>1, ActsSim
  <2>2. result'.op \notin {"pending", "asked", "update", "set_default_ttl", "error", "popitem",
                          "items", "clear", "delete"}
    BY <1>1
  <2>3. ~Dict!Tick /\ ~Dict!Quiet
    BY <2>2 DEF Dict!Tick, Dict!Quiet, Dict!Answer, Dict!Pending
  <2>4. \A c \in Callers :
          /\ ~Dict!Ask(c) /\ ~Dict!AskUpdate(c) /\ ~Dict!UpdateNothing(c) /\ ~Dict!SetTtl(c)
          /\ ~Dict!Fails(c) /\ ~Dict!FoundEmpty(c) /\ ~Dict!Items(c) /\ ~Dict!Clear(c)
    BY <2>2 DEF Dict!Ask, Dict!AskUpdate, Dict!UpdateNothing, Dict!SetTtl, Dict!Fails,
                Dict!FoundEmpty, Dict!Items, Dict!Clear, Dict!Answer, Dict!Pending
  <2>5. \A c \in Callers, j \in Keys : ~Dict!Delete(c, j) /\ ~Dict!PopItem(c, j)
    BY <2>2 DEF Dict!Delete, Dict!PopItem, Dict!Answer
  <2> QED BY <2>1, <2>3, <2>4, <2>5 DEF Dict!Acts, Dict!Step
<1>3. ASSUME NEW j \in Keys, Dict!Look(c, j)
      PROVE  now < entry'[k].put + (entry'[k].ttl + 1) * Second
  <2>1. j \in DOMAIN Seen /\ result'.out = <<j, Seen[j].value>> /\ Dict!MayBeFound(Seen[j])
    BY <1>1, <1>3, LookFound
  <2>2. j = k /\ Seen' = Seen
    BY <1>3, <2>1, FirstOfPair DEF Dict!Look, Dict!Held
  <2> QED BY <1>1, <2>1, <2>2 DEF Dict!MayBeFound, Shown
<1>4. CASE Dict!Vanish(c)
  <2>1. result'.out = <<Calls[c].key, NULL>> /\ result'.op # "setdefault"
    BY <1>1, <1>4 DEF Dict!Vanish, Dict!Answer, Dict!Pending
  <2>2. Calls[c].key = k /\ entry'[k].value = NULL
    BY <2>1, FirstOfPair
  <2>3. entry'[k].value \in Values
    BY <1>1 DEF IInv, Typed, TypeOK, Present, Entries
  <2> QED BY <2>2, <2>3, NullAssumption
<1>5. CASE Dict!Put(c)
  <2> DEFINE q == Calls[c]
  <2>1. /\ result'.out = <<q.key, q.val>> /\ q.key \in DOMAIN Seen'
        /\ Seen'[q.key].put = now
    BY <1>1, <1>5, PutNow
  <2>2. q.key = k
    BY <2>1, FirstOfPair
  <2>3. entry'[k].put = now
    BY <1>1, <2>1, <2>2 DEF Shown
  <2> QED BY <1>1, <2>3, PutInTime
<1> QED BY <1>2, <1>3, <1>4, <1>5

\* Which steps remove an entry.
LEMMA NotLostStep ==
  ASSUME IInv, IInv', Next, Kept', NEW k \in Present \ Present'
  PROVE  \/ result'.op \in {"delete", "popitem", "clear"}
         \/ now > entry[k].made + entry[k].ttl * Second
<1>1. /\ Good /\ Good' /\ DOMAIN Seen = Present /\ DOMAIN Seen' = Present' /\ Seen' # Seen
      /\ Seen[k] = Shown(entry[k])
  <2>1. DOMAIN Seen = Present /\ DOMAIN Seen' = Present' /\ Seen[k] = Shown(entry[k])
    BY DEF Seen, Shown
  <2> QED BY <2>1, BreachStays DEF Good
<1>2. PICK c \in Callers : \/ Dict!Put(c) \/ Dict!Vanish(c) \/ Dict!Clear(c)
                           \/ \E j \in Keys : Dict!Delete(c, j) \/ Dict!PopItem(c, j)
  <2>1. Dict!Acts
    BY <1>1, Unchanged, ActsSim
  <2>2. ~Dict!Tick /\ ~Dict!Quiet
    BY <1>1 DEF Dict!Tick, Dict!Quiet, Dict!Held
  <2>3. \A d \in Callers :
          /\ ~Dict!Ask(d) /\ ~Dict!AskUpdate(d) /\ ~Dict!UpdateNothing(d) /\ ~Dict!SetTtl(d)
          /\ ~Dict!Fails(d) /\ ~Dict!FoundEmpty(d) /\ ~Dict!Items(d)
    BY <1>1 DEF Dict!Ask, Dict!AskUpdate, Dict!UpdateNothing, Dict!SetTtl, Dict!Fails,
                Dict!FoundEmpty, Dict!Items, Dict!Held
  <2>4. \A d \in Callers, j \in Keys : ~Dict!Look(d, j)
    BY <1>1 DEF Dict!Look, Dict!Held
  <2> QED BY <2>1, <2>2, <2>3, <2>4 DEF Dict!Acts, Dict!Step
<1>3. CASE Dict!Clear(c)
  BY <1>3 DEF Dict!Clear, Dict!Answer
<1>4. ASSUME NEW j \in Keys, Dict!Delete(c, j) \/ Dict!PopItem(c, j)
      PROVE  result'.op \in {"delete", "popitem"}
  BY <1>4 DEF Dict!Delete, Dict!PopItem, Dict!Answer
<1>5. CASE Dict!Vanish(c)
  <2>1. Calls[c].key = k /\ Dict!MayVanish(Seen[k])
    BY <1>1, <1>5 DEF Dict!Vanish, Dict!Unset, Dict!Present
  <2> QED BY <1>1, <2>1 DEF Dict!MayVanish, Shown
<1>6. CASE Dict!Put(c)
  BY <1>1, <1>6 DEF Dict!Put, Dict!PutEntry, Dict!Present
<1> QED BY <1>2, <1>3, <1>4, <1>5, <1>6

\* No entry is answered ttl + 1 seconds after it was put, whatever the phase of
\* the clock in which its expiry was computed.
THEOREM AnsweredInTime == Spec => Fresh
<1> DEFINE A == Kept' => \A k \in Present' :
                  result'.op \in Finders /\ result'.out = <<k, entry'[k].value>>
                    => now < entry'[k].put + (entry'[k].ttl + 1) * Second
<1>1. IInv /\ IInv' /\ [Next]_vars => [A]_vars
  BY FreshStep
<1> HIDE DEF A
<1>2. Spec => [][A]_vars
  BY <1>1, Inductive, PTL DEF Spec
<1> QED BY <1>2 DEF Fresh, A

\* No entry vanishes on its own within the ttl seconds after it was made,
\* whatever other calls do for its key between the lookup and the delete.
THEOREM KeptInTime == Spec => NotLost
<1> DEFINE A == Kept' => \A k \in Present \ Present' :
                  \/ result'.op \in {"delete", "popitem", "clear"}
                  \/ now > entry[k].made + entry[k].ttl * Second
<1>1. IInv /\ IInv' /\ [Next]_vars => [A]_vars
  BY NotLostStep
<1> HIDE DEF A
<1>2. Spec => [][A]_vars
  BY <1>1, Inductive, PTL DEF Spec
<1> QED BY <1>2 DEF NotLost, A
=============================================================================
