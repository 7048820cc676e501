-------------------------- MODULE BulkReadbackProofs --------------------------
(***************************************************************************)
(* Proofs about BulkReadback, for files, windows and queues of any size,   *)
(* any number of sessions and faults of every kind: what the host saves,   *)
(* and that the device never mixes up its leases.                          *)
(***************************************************************************)
EXTENDS BulkReadback, FiniteSetTheorems, FunctionTheorems, SequenceTheorems, WellFoundedInduction, TLAPS

(***************************************************************************)
(* Sequences and least elements.                                           *)
(***************************************************************************)
(* The least element of a set of naturals is one of its elements.          *)
LEMMA MinIsLeast ==
    ASSUME NEW T \in SUBSET Nat, T # {}
    PROVE  Min(T) \in T /\ \A y \in T : Min(T) <= y
<1>1. PICK x \in T : \A y \in T : ~ (<<y, x>> \in OpToRel(<, Nat))
  BY NatLessThanWellFounded, WFMin
<1>2. \A y \in T : ~ (y < x)
  BY <1>1 DEF OpToRel
<1>3. \A y \in T : x <= y
  BY <1>2
<1> QED BY <1>3 DEF Min

LEMMA ConcatType ==
    ASSUME NEW S, NEW s \in Seq(S), NEW t \in Seq(S)
    PROVE  /\ s \o t \in Seq(S) /\ Len(s \o t) = Len(s) + Len(t)
           /\ \A i \in 1 .. Len(s) + Len(t) :
                 (s \o t)[i] = IF i <= Len(s) THEN s[i] ELSE t[i - Len(s)]
BY ConcatProperties

LEMMA RemoveAtProperties ==
    ASSUME NEW S, NEW s \in Seq(S), NEW i \in 1 .. Len(s)
    PROVE  /\ RemoveAt(s, i) \in Seq(S) /\ Len(RemoveAt(s, i)) = Len(s) - 1
           /\ \A j \in 1 .. Len(s) - 1 : RemoveAt(s, i)[j] = IF j < i THEN s[j] ELSE s[j + 1]
<1> DEFINE a == SubSeq(s, 1, i - 1)
           b == SubSeq(s, i + 1, Len(s))
<1>1. a \in Seq(S) /\ Len(a) = i - 1 /\ \A j \in 1 .. i - 1 : a[j] = s[j]
  BY SubSeqProperties
<1>2. b \in Seq(S) /\ Len(b) = Len(s) - i /\ \A j \in 1 .. Len(s) - i : b[j] = s[i + j]
  BY SubSeqProperties
<1>3. RemoveAt(s, i) = a \o b
  BY DEF RemoveAt
<1> HIDE DEF a, b
<1>4. /\ a \o b \in Seq(S) /\ Len(a \o b) = Len(a) + Len(b)
      /\ \A j \in 1 .. Len(a) + Len(b) :
            (a \o b)[j] = IF j <= Len(a) THEN a[j] ELSE b[j - Len(a)]
  BY <1>1, <1>2, ConcatType
<1>5. ASSUME NEW j \in 1 .. Len(s) - 1
      PROVE  (a \o b)[j] = IF j < i THEN s[j] ELSE s[j + 1]
  <2>1. CASE j < i
    BY <1>1, <1>2, <1>4, <2>1
  <2>2. CASE ~ (j < i)
    <3>1. j - (i - 1) \in 1 .. Len(s) - i /\ ~ (j <= i - 1)
      BY <2>2
    <3>2. (a \o b)[j] = b[j - (i - 1)]
      BY <1>1, <1>2, <1>4, <3>1
    <3>3. b[j - (i - 1)] = s[i + (j - (i - 1))] /\ i + (j - (i - 1)) = j + 1
      BY <1>2, <3>1
    <3> QED BY <2>2, <3>2, <3>3
  <2> QED BY <2>1, <2>2
<1> QED BY <1>1, <1>2, <1>3, <1>4, <1>5

(***************************************************************************)
(* Types.                                                                  *)
(***************************************************************************)
Read == [seq : Nat, slot : SlotIds, off : Nat, gen : Nat]

DeviceRecord ==
    [mode : {"idle", "readback"}, opening : Nat, named : BOOLEAN, active : BOOLEAN,
     tombstone : BOOLEAN, gen : Nat, slots : [SlotIds -> {"free", "owned", "awaiting"}],
     queue : Seq(Read), produced : Nat, durable : Nat, summed : Seq(Nat), sent : Seq(Read),
     outstanding : Seq(Read), pending : SUBSET Nat, next : Nat, home : SUBSET SlotIds,
     armed : BOOLEAN]

FrameType ==
    [op : {"open", "credit", "status", "finish", "abort", "data", "read"}, seq : Nat,
     ok : BOOLEAN, off : Nat, data : Nat, crc : Seq(Nat)]
MessageType ==
    [op : {"open", "credit", "status", "finish", "abort", "read"}, seq : Nat, off : Nat,
     credits : Nat]
MailType == [by : {"bulk", "single"}, seq : Nat, off : Nat, lease : Nat]
AnswerType == [by : {"bulk", "single"}, seq : Nat, ok : BOOLEAN, lease : Nat]

Places == Waiting \cup {"idle", "done", "failed", "gone"}
HostRecord ==
    [pc : Places, session : Nat, seq : Nat, out : Seq(Nat), owed : Nat, saved : {<<>>, File}]

Content == [SlotIds -> Nat]

(***************************************************************************)
(* The device d, whose leases hold b.                                      *)
(***************************************************************************)
(* A runtime that is not opened yet, or never will be, has done nothing.   *)
Fresh(d) ==
    d.mode = "idle" \/ d.opening # 0 =>
        /\ d.opening = 0 <=> d.mode = "idle"
        /\ d.pending \subseteq {1} /\ d.next = 2
        /\ d.mode = "idle" => d.pending = {}
        /\ ~d.named /\ ~d.active /\ ~d.tombstone /\ d.gen = 0
        /\ d.queue = <<>> /\ d.sent = <<>> /\ d.outstanding = <<>>
        /\ d.produced = 0 /\ d.durable = 0
        /\ d.home = SlotIds /\ \A s \in SlotIds : d.slots[s] = "free"

(* A lease that is not at home is with one read that the device waits for, *)
(* of this generation of the stream or an earlier one.                     *)
Leases(d) ==
    /\ IsFiniteSet(d.pending) /\ Cardinality(d.pending) <= Slots
    /\ 1 \in d.pending => d.opening # 0
    /\ d.next >= 2 /\ \A s \in d.pending : s < d.next
    /\ \A s \in d.pending \ {1} : \E k \in DOMAIN d.outstanding : d.outstanding[k].seq = s
    /\ \A s \in SlotIds \ d.home : \E k \in DOMAIN d.outstanding : d.outstanding[k].slot = s
    /\ \A k \in DOMAIN d.outstanding :
          LET r == d.outstanding[k] IN
          /\ r.seq \in d.pending \ {1} /\ r.slot \notin d.home /\ r.gen <= d.gen
          /\ \A j \in DOMAIN d.outstanding : j # k =>
                d.outstanding[j].seq # r.seq /\ d.outstanding[j].slot # r.slot

(* The window: the chunks from durable to produced, in order, each in a    *)
(* slot of its own; those in a slot that awaits its credit are with the    *)
(* host, in order and from the first on as far as there is no gap.         *)
Ordered(d) ==
    /\ d.active => d.produced = d.durable + Len(d.queue)
    /\ ~d.active => d.queue = <<>> /\ d.sent = <<>>
    /\ d.produced <= Chunks /\ Len(d.queue) <= Window
    /\ \A k \in DOMAIN d.queue :
          /\ d.queue[k].off = d.durable + k - 1
          /\ d.slots[d.queue[k].slot] # "free"
          /\ \A j \in DOMAIN d.queue : j # k => d.queue[j].slot # d.queue[k].slot

Awaits(d, k) == d.slots[d.queue[k].slot] = "awaiting"

SentInOrder(d, b) ==
    /\ \A k \in DOMAIN d.sent :
          LET r == d.sent[k] IN
          /\ \E j \in DOMAIN d.queue : d.queue[j] = r
          /\ d.slots[r.slot] = "awaiting" /\ r.slot \in d.home /\ b[r.slot] = r.off + 1
          /\ \A j \in DOMAIN d.sent : j < k => d.sent[j].off < r.off
    /\ \A k \in DOMAIN d.queue : Awaits(d, k) => \E j \in DOMAIN d.sent : d.sent[j] = d.queue[k]
    /\ \A k \in DOMAIN d.queue :
          (\A j \in 1 .. k : Awaits(d, j)) => k <= Len(d.sent) /\ d.sent[k] = d.queue[k]

(* The reads of this generation are of the window and after what was sent. *)
ReadsInOrder(d) ==
    \A k \in DOMAIN d.outstanding :
        LET r == d.outstanding[k] IN
        r.gen = d.gen =>
            /\ \E j \in DOMAIN d.queue : d.queue[j] = r
            /\ d.slots[r.slot] = "owned"
            /\ \A j \in DOMAIN d.sent : d.sent[j].off < r.off
            /\ \A j \in DOMAIN d.outstanding :
                  j < k /\ d.outstanding[j].gen = d.gen => d.outstanding[j].off < r.off

Summed(d) == Len(d.summed) = d.durable /\ \A k \in 1 .. d.durable : d.summed[k] = k

DeviceInv(d, b) ==
    /\ d \in DeviceRecord
    /\ Fresh(d) /\ Leases(d) /\ Ordered(d) /\ SentInOrder(d, b) /\ ReadsInOrder(d) /\ Summed(d)

(***************************************************************************)
(* What is with the owner: at most one message for each read, and an       *)
(* answer without an error finds in its lease what was asked for.          *)
(***************************************************************************)
Asked(d, m) ==
    IF m.by = "bulk"
    THEN /\ m.seq \in d.pending
         /\ IF m.seq = 1 THEN m.lease = None
            ELSE \E k \in DOMAIN d.outstanding :
                    d.outstanding[k].seq = m.seq /\ d.outstanding[k].slot = m.lease
    ELSE m.lease \notin SlotIds

Filled(d, b, a) ==
    a.by = "bulk" /\ a.seq # 1 /\ a.ok =>
        \A k \in DOMAIN d.outstanding :
            d.outstanding[k].seq = a.seq => b[a.lease] = d.outstanding[k].off + 1

Same(m, n) == m.by = "bulk" /\ n.by = "bulk" /\ m.seq = n.seq

Flight(d, b, ms, as) ==
    /\ ms \in Seq(MailType) /\ as \in Seq(AnswerType)
    /\ \A k \in DOMAIN ms :
          /\ Asked(d, ms[k])
          /\ \A i \in DOMAIN d.outstanding :
                ms[k].by = "bulk" /\ ms[k].seq = d.outstanding[i].seq => ms[k].off = d.outstanding[i].off
          /\ \A j \in DOMAIN ms : j # k => ~Same(ms[j], ms[k])
          /\ \A j \in DOMAIN as : ~Same(as[j], ms[k])
    /\ \A k \in DOMAIN as :
          /\ Asked(d, as[k]) /\ Filled(d, b, as[k])
          /\ \A j \in DOMAIN as : j # k => ~Same(as[j], as[k])

(***************************************************************************)
(* The host and the line.                                                  *)
(***************************************************************************)
Honest(frames) ==
    /\ frames \in Seq(FrameType)
    /\ \A k \in DOMAIN frames : frames[k].op = "data" => frames[k].data = frames[k].off + 1

Written(h) ==
    /\ Len(h.out) <= Chunks /\ \A k \in 1 .. Len(h.out) : h.out[k] = k
    /\ h.pc = "polling" => Len(h.out) < Chunks
    /\ h.pc = "finishing" => Len(h.out) = Chunks

(* The messages of the host h: it acknowledges what it has written.        *)
Sensible(h, messages) ==
    /\ messages \in Seq(MessageType)
    /\ \A k \in DOMAIN messages :
          /\ messages[k].op = "open" => messages[k].seq # 0
          /\ messages[k].op = "credit" => messages[k].off <= Len(h.out)
          /\ h.pc = "opening" => messages[k].op = "open"

HostSide == host \in HostRecord /\ Written(host) /\ Sensible(host, toDevice)

(* The host of a stream has written what is acknowledged.  One that has    *)
(* not seen the answer to its open yet has acknowledged nothing of it.     *)
Opened(frames) == \E k \in DOMAIN frames : frames[k].op = "open" /\ frames[k].ok

Behind ==
    /\ device.active /\ host.pc \in Waiting \ {"opening", "reading"} => device.durable <= Len(host.out)
    /\ host.pc = "opening" /\ (Opened(toHost) \/ Opened(tx)) => device.durable = 0

Single ==
    /\ single \in [step : {"none", "size", "read"}, seq : Nat, cached : BOOLEAN]
    /\ turn = "exchange" => Len(tx) = 1 /\ tx[1].op = "read"

BulkInv ==
    /\ DeviceInv(device, bytes) /\ bytes \in Content
    /\ Flight(device, bytes, mail, answers)
    /\ HostSide /\ Honest(toHost) /\ Honest(tx)
    /\ Behind /\ Single

(***************************************************************************)
(* The slots.                                                              *)
(***************************************************************************)
LEMMA MinOfFour ==
    ASSUME NEW a \in Nat, NEW b \in Nat, NEW c \in Nat, NEW e \in Nat
    PROVE  LET m == Min({a, b, c, e}) IN m \in Nat /\ m <= a /\ m <= b /\ m <= c /\ m <= e
<1>1. {a, b, c, e} \in SUBSET Nat /\ {a, b, c, e} # {}
  OBVIOUS
<1>2. Min({a, b, c, e}) \in {a, b, c, e} /\ \A y \in {a, b, c, e} : Min({a, b, c, e}) <= y
  BY <1>1, MinIsLeast
<1> QED BY <1>2

(* A set of slots is numbered by how many of its elements are not larger.  *)
LEMMA RankIsOnto ==
    ASSUME NEW free \in SUBSET SlotIds
    PROVE  /\ Cardinality(free) \in Nat
           /\ \A k \in 1 .. Cardinality(free) :
                 \E s \in free : Cardinality({t \in free : t <= s}) = k
<1> DEFINE upTo(s) == {t \in free : t <= s}
           n == Cardinality(free)
           rank == [s \in free |-> Cardinality(upTo(s))]
<1>1. IsFiniteSet(free) /\ n \in Nat /\ \A x \in free : x \in Nat
  <2>1. Slots \in Nat
    BY ConstantsAssumption
  <2>2. IsFiniteSet(SlotIds) /\ \A x \in SlotIds : x \in Nat
    BY <2>1, FS_Interval DEF SlotIds
  <2>3. IsFiniteSet(free)
    BY <2>2, FS_Subset
  <2> QED BY <2>2, <2>3, FS_CardinalityType
<1>2. IsFiniteSet(1 .. n) /\ Cardinality(1 .. n) = n
  BY <1>1, FS_Interval
<1>3. ASSUME NEW s \in free
      PROVE  /\ IsFiniteSet(upTo(s)) /\ Cardinality(upTo(s)) \in 1 .. n
             /\ \A t \in free : s < t => Cardinality(upTo(s)) < Cardinality(upTo(t))
  <2>1. \A x \in free : IsFiniteSet(upTo(x)) /\ Cardinality(upTo(x)) \in Nat /\ Cardinality(upTo(x)) <= n
    BY <1>1, FS_Subset, FS_CardinalityType
  <2>2. s \in upTo(s)
    BY <1>1
  <2>3. Cardinality(upTo(s)) # 0
    BY <2>1, <2>2, FS_EmptySet
  <2>4. ASSUME NEW t \in free, s < t
        PROVE  Cardinality(upTo(s)) < Cardinality(upTo(t))
    <3>0. s \in Nat /\ t \in Nat /\ \A x \in free : x <= s => x <= t
      BY <1>1, <2>4
    <3>1. t <= t /\ ~(t <= s)
      BY <2>4, <3>0
    <3>2. upTo(s) \subseteq upTo(t) /\ t \in upTo(t) /\ t \notin upTo(s)
      BY <3>0, <3>1
    <3>3. upTo(s) \in SUBSET upTo(t)
      BY <3>2
    <3>4. Cardinality(upTo(s)) <= Cardinality(upTo(t)) /\ Cardinality(upTo(t)) # Cardinality(upTo(s))
      BY <2>1, <3>2, <3>3, FS_Subset
    <3> QED BY <2>1, <3>4
  <2> QED BY <1>1, <2>1, <2>3, <2>4
<1>4. rank \in Injection(free, 1 .. n)
  <2>1. rank \in [free -> 1 .. n]
    BY <1>3
  <2>2. ASSUME NEW s \in free, NEW t \in free, rank[s] = rank[t]
        PROVE  s = t
    <3>1. ~(s < t) /\ ~(t < s)
      BY <1>1, <1>3, <2>2
    <3> QED BY <1>1, <3>1
  <2> QED BY <2>1, <2>2, Fun_IsInj
<1>5. rank \in Surjection(free, 1 .. n)
  BY <1>1, <1>2, <1>4, FS_Injection
<1>6. \A k \in 1 .. n : \E s \in free : rank[s] = k
  BY <1>5 DEF Surjection
<1> QED BY <1>1, <1>6

LEMMA FreeSlotsAre ==
    ASSUME NEW d \in DeviceRecord
    PROVE  /\ Len(FreeSlots(d)) \in Nat
           /\ \A k \in 1 .. Len(FreeSlots(d)) :
                 /\ FreeSlots(d)[k] \in SlotIds /\ d.slots[FreeSlots(d)[k]] = "free"
                 /\ \A j \in 1 .. Len(FreeSlots(d)) : j # k => FreeSlots(d)[j] # FreeSlots(d)[k]
<1> DEFINE free == {s \in SlotIds : d.slots[s] = "free"}
           upTo(s) == Cardinality({t \in free : t <= s})
           n == Cardinality(free)
<1>1. free \in SUBSET SlotIds
  OBVIOUS
<1>2. n \in Nat /\ \A k \in 1 .. n : \E s \in free : upTo(s) = k
  BY <1>1, RankIsOnto
<1>3. FreeSlots(d) = [k \in 1 .. n |-> CHOOSE s \in free : upTo(s) = k]
  BY DEF FreeSlots
<1> HIDE DEF upTo, free, n
<1>4. \A k \in 1 .. n : (CHOOSE s \in free : upTo(s) = k) \in free /\ upTo(CHOOSE s \in free : upTo(s) = k) = k
  BY <1>2
<1>5. \A k \in 1 .. n : FreeSlots(d)[k] \in free /\ upTo(FreeSlots(d)[k]) = k
  BY <1>3, <1>4
<1>6. Len(FreeSlots(d)) = n
  BY <1>2, <1>3
<1> QED BY <1>2, <1>5, <1>6 DEF free

(***************************************************************************)
(* The window is refilled.                                                 *)
(***************************************************************************)
LEMMA ReadableIs ==
    ASSUME NEW d, NEW b, DeviceInv(d, b)
    PROVE  /\ Readable(d) \in Nat
           /\ Readable(d) > 0 =>
                 /\ d.active /\ d.named
                 /\ \A k \in DOMAIN d.outstanding : d.outstanding[k].gen = d.gen
                 /\ Readable(d) + Cardinality(d.pending) <= Slots
                 /\ Readable(d) + Len(d.queue) <= Window
                 /\ Readable(d) + d.produced <= Chunks
                 /\ Readable(d) <= Len(FreeSlots(d))
<1>1. d \in DeviceRecord /\ d.produced \in Nat /\ d.queue \in Seq(Read) /\ IsFiniteSet(d.pending)
      /\ Cardinality(d.pending) <= Slots /\ d.produced <= Chunks /\ Len(d.queue) <= Window
  BY DEF DeviceInv, DeviceRecord, Leases, Ordered
<1>2. Slots \in Nat /\ Window \in Nat /\ Chunks \in Nat
  BY ConstantsAssumption
<1>3. Cardinality(d.pending) \in Nat /\ Len(d.queue) \in Nat /\ Len(FreeSlots(d)) \in Nat
  BY <1>1, FS_CardinalityType, FreeSlotsAre
<1>4. CASE ~d.active \/ ~d.named \/ \E k \in DOMAIN d.outstanding : d.outstanding[k].gen # d.gen
  BY <1>4 DEF Readable
<1>5. CASE ~(~d.active \/ ~d.named \/ \E k \in DOMAIN d.outstanding : d.outstanding[k].gen # d.gen)
  <2> DEFINE w == Slots - Cardinality(d.pending)
             x == Window - Len(d.queue)
             y == Chunks - d.produced
             z == Len(FreeSlots(d))
  <2>1. w \in Nat /\ x \in Nat /\ y \in Nat /\ z \in Nat
    BY <1>1, <1>2, <1>3
  <2>2. Readable(d) = Min({w, x, y, z})
    BY <1>5 DEF Readable
  <2>3. PICK m : m = Min({w, x, y, z})
    OBVIOUS
  <2>4. m \in Nat /\ m <= w /\ m <= x /\ m <= y /\ m <= z
    <3> HIDE DEF w, x, y, z
    <3> QED BY <2>1, <2>3, MinOfFour
  <2> QED BY <1>1, <1>2, <1>3, <1>5, <2>2, <2>3, <2>4, SMTT(30)
<1> QED BY <1>4, <1>5

LEMMA Lengths ==
    ASSUME NEW S, NEW s \in Seq(S)
    PROVE  Len(s) \in Nat /\ DOMAIN s = 1 .. Len(s) /\ \A k \in 1 .. Len(s) : s[k] \in S
OBVIOUS

(* A set of n consecutive numbers or fewer fits where there is room for n. *)
LEMMA RoomFor ==
    ASSUME NEW S, IsFiniteSet(S), NEW n \in Nat, NEW first \in Nat, NEW room \in Nat,
           n > 0 => n + Cardinality(S) <= room, Cardinality(S) <= room,
           NEW T, \A x \in T : x \in first .. first + n - 1
    PROVE  IsFiniteSet(S \cup T) /\ Cardinality(S \cup T) <= room
<1>1. CASE n = 0
  <2>1. T = {}
    BY <1>1
  <2> QED BY <2>1
<1>2. CASE n > 0
  <2>1. IsFiniteSet(first .. first + n - 1) /\ Cardinality(first .. first + n - 1) = n
    BY <1>2, FS_Interval
  <2>2. IsFiniteSet(T) /\ Cardinality(T) <= n
    BY <2>1, FS_Subset
  <2>3. Cardinality(S) \in Nat /\ Cardinality(T) \in Nat /\ Cardinality(S \cap T) \in Nat
        /\ IsFiniteSet(S \cup T) /\ Cardinality(S \cup T) \in Nat
    BY <2>2, FS_CardinalityType, FS_Intersection, FS_Union
  <2>4. Cardinality(S \cup T) = Cardinality(S) + Cardinality(T) - Cardinality(S \cap T)
    BY <2>2, FS_Union
  <2> QED BY <1>2, <2>2, <2>3, <2>4
<1> QED BY <1>1, <1>2

(* The i-th read submitted for the device d, in the slot s.                *)
NewRead(d, s, i, r) ==
    /\ r.seq = d.next + i - 1 /\ r.slot = s
    /\ r.off = d.produced + i - 1 /\ r.gen = d.gen

(* t is s and n reads submitted after it.                                  *)
Grown(d, s, t, n, free) ==
    /\ t \in Seq(Read) /\ Len(t) = Len(s) + n
    /\ \A k \in 1 .. Len(s) : t[k] = s[k]
    /\ \A k \in 1 .. Len(t) : k > Len(s) => k - Len(s) \in 1 .. n /\ NewRead(d, free[k - Len(s)], k - Len(s), t[k])

(* e is the device d with n reads submitted, in the slots of free.         *)
Refilled(d, e, n, free) ==
    /\ e \in DeviceRecord /\ n \in Nat
    /\ n > 0 =>
          /\ d.active /\ \A k \in DOMAIN d.outstanding : d.outstanding[k].gen = d.gen
          /\ n + Cardinality(d.pending) <= Slots /\ n + Len(d.queue) <= Window
          /\ n + d.produced <= Chunks
    /\ \A k \in 1 .. n :
          /\ free[k] \in SlotIds /\ d.slots[free[k]] = "free" /\ free[k] \in d.home
          /\ e.slots[free[k]] = "owned" /\ free[k] \notin e.home
          /\ d.next + k - 1 \in e.pending
          /\ \A j \in 1 .. n : j # k => free[j] # free[k]
    /\ \A s \in SlotIds : (\A k \in 1 .. n : s # free[k]) => e.slots[s] = d.slots[s] /\ (s \in d.home => s \in e.home)
    /\ \A s \in e.pending : s \in d.pending \/ \E k \in 1 .. n : s = d.next + k - 1
    /\ d.pending \subseteq e.pending /\ e.home \subseteq d.home
    /\ Grown(d, d.queue, e.queue, n, free) /\ Grown(d, d.outstanding, e.outstanding, n, free)
    /\ \A k \in 1 .. Len(e.outstanding) : k > Len(d.outstanding) =>
          \E j \in 1 .. Len(e.queue) : j > Len(d.queue) /\ e.queue[j] = e.outstanding[k]
    /\ e.produced = d.produced + n /\ e.next = d.next + n
    /\ e.mode = d.mode /\ e.opening = d.opening /\ e.named = d.named /\ e.active = d.active
    /\ e.tombstone = d.tombstone /\ e.gen = d.gen /\ e.durable = d.durable
    /\ e.summed = d.summed /\ e.sent = d.sent

LEMMA ConcatGrows ==
    ASSUME NEW d, NEW n \in Nat, NEW free, NEW s \in Seq(Read), NEW reads \in Seq(Read), Len(reads) = n,
           \A k \in 1 .. n : NewRead(d, free[k], k, reads[k])
    PROVE  Grown(d, s, s \o reads, n, free)
<1>1. PICK t : t = s \o reads
  OBVIOUS
<1>2. /\ t \in Seq(Read) /\ Len(t) = Len(s) + n
      /\ \A k \in 1 .. Len(s) + n : t[k] = IF k <= Len(s) THEN s[k] ELSE reads[k - Len(s)]
  BY <1>1, ConcatType
<1>3. Len(s) \in Nat
  OBVIOUS
<1>4. ASSUME NEW k \in 1 .. Len(s) PROVE t[k] = s[k]
  <2>1. k \in 1 .. Len(s) + n /\ k <= Len(s)
    BY <1>3
  <2> QED BY <1>2, <2>1
<1>5. ASSUME NEW k \in 1 .. Len(t), k > Len(s)
      PROVE  k - Len(s) \in 1 .. n /\ NewRead(d, free[k - Len(s)], k - Len(s), t[k])
  <2>1. k - Len(s) \in 1 .. n /\ t[k] = reads[k - Len(s)]
    BY <1>2, <1>3, <1>5
  <2> QED BY <2>1
<1>6. Grown(d, s, t, n, free)
  BY <1>2, <1>4, <1>5 DEF Grown
<1> QED BY <1>1, <1>6

(* What Fill makes of the device.                                          *)
LEMMA FillIs ==
    ASSUME NEW d, NEW b, NEW frames, DeviceInv(d, b)
    PROVE  LET r == Fill(d, frames) IN
           /\ r.frames = frames
           /\ \E n, free :
                /\ Refilled(d, r.device, n, free)
                /\ r.requests \in Seq(MailType) /\ Len(r.requests) = n
                /\ \A k \in 1 .. n :
                      r.requests[k] = Request("bulk", d.next + k - 1, d.produced + k - 1, free[k])
<1>1. d \in DeviceRecord /\ Leases(d) /\ ReadsInOrder(d)
  BY DEF DeviceInv
<1>2. /\ d.produced \in Nat /\ d.next \in Nat /\ d.gen \in Nat
      /\ d.queue \in Seq(Read) /\ d.outstanding \in Seq(Read)
      /\ d.slots \in [SlotIds -> {"free", "owned", "awaiting"}]
      /\ d.pending \in SUBSET Nat /\ d.home \in SUBSET SlotIds
  BY <1>1 DEF DeviceRecord
<1>3. PICK n \in Nat :
        /\ n = Readable(d)
        /\ n > 0 =>
              /\ d.active /\ \A k \in DOMAIN d.outstanding : d.outstanding[k].gen = d.gen
              /\ n + Cardinality(d.pending) <= Slots /\ n + Len(d.queue) <= Window
              /\ n + d.produced <= Chunks /\ n <= Len(FreeSlots(d))
  BY ReadableIs
<1>4. PICK free : free = FreeSlots(d)
  OBVIOUS
<1>5. ASSUME NEW k \in 1 .. n
      PROVE  /\ free[k] \in SlotIds /\ d.slots[free[k]] = "free" /\ free[k] \in d.home
             /\ \A j \in 1 .. n : j # k => free[j] # free[k]
  <2>1. /\ free[k] \in SlotIds /\ d.slots[free[k]] = "free"
        /\ \A j \in 1 .. n : j # k => free[j] # free[k]
    BY <1>1, <1>3, <1>4, FreeSlotsAre
  <2>2. n > 0
    OBVIOUS
  <2> QED BY <1>1, <1>3, <2>1, <2>2 DEF Leases, ReadsInOrder
<1>6. PICK reads : reads = [k \in 1 .. n |-> [seq |-> d.next + k - 1, slot |-> free[k],
                                              off |-> d.produced + k - 1, gen |-> d.gen]]
  OBVIOUS
<1>7. /\ reads \in Seq(Read) /\ Len(reads) = n
      /\ \A k \in 1 .. n : /\ reads[k].seq = d.next + k - 1 /\ reads[k].slot = free[k]
                           /\ reads[k].off = d.produced + k - 1 /\ reads[k].gen = d.gen
  <2>1. \A k \in 1 .. n : [seq |-> d.next + k - 1, slot |-> free[k],
                           off |-> d.produced + k - 1, gen |-> d.gen] \in Read
    BY <1>2, <1>5 DEF Read
  <2> QED BY <1>6, <2>1
<1>8. PICK q : q = d.queue \o reads
  OBVIOUS
<1>9. PICK o : o = d.outstanding \o reads
  OBVIOUS
<1>10. q \in Seq(Read) /\ o \in Seq(Read) /\ Grown(d, d.queue, q, n, free) /\ Grown(d, d.outstanding, o, n, free)
  <2>1. \A k \in 1 .. n : NewRead(d, free[k], k, reads[k])
    BY <1>7 DEF NewRead
  <2>2. Grown(d, d.queue, d.queue \o reads, n, free) /\ Grown(d, d.outstanding, d.outstanding \o reads, n, free)
    BY <1>2, <1>3, <1>7, <2>1, ConcatGrows
  <2> QED BY <1>8, <1>9, <2>2 DEF Grown
<1>11. ASSUME NEW k \in 1 .. Len(o), k > Len(d.outstanding)
       PROVE  \E j \in 1 .. Len(q) : j > Len(d.queue) /\ q[j] = o[k]
  <2>1. Len(d.queue) \in Nat /\ Len(d.outstanding) \in Nat /\ Len(reads) \in Nat
    BY <1>2, <1>7
  <2>2. Len(q) = Len(d.queue) + Len(reads) /\ Len(o) = Len(d.outstanding) + Len(reads)
    BY <1>7, <1>10 DEF Grown
  <2>3. PICK j : j = Len(d.queue) + (k - Len(d.outstanding))
    OBVIOUS
  <2>4. /\ k \in 1 .. Len(d.outstanding) + Len(reads) /\ ~(k <= Len(d.outstanding))
        /\ j \in 1 .. Len(d.queue) + Len(reads) /\ j > Len(d.queue) /\ ~(j <= Len(d.queue))
        /\ j - Len(d.queue) = k - Len(d.outstanding)
    <3>1. k \in 1 .. Len(d.outstanding) + Len(reads)
      BY <2>2
    <3>2. k - Len(d.outstanding) \in 1 .. Len(reads) /\ ~(k <= Len(d.outstanding))
      BY <1>11, <2>1, <3>1
    <3>3. PICK i \in 1 .. Len(reads) : i = k - Len(d.outstanding)
      BY <3>2
    <3>4. PICK lq \in Nat : lq = Len(d.queue)
      BY <2>1
    <3>5. j = lq + i
      BY <2>3, <3>3, <3>4
    <3>6. j \in 1 .. lq + Len(reads) /\ j > lq /\ ~(j <= lq) /\ j - lq = i
      BY <2>1, <3>5
    <3> QED BY <3>1, <3>2, <3>3, <3>4, <3>6
  <2>5. o[k] = reads[k - Len(d.outstanding)]
    <3>1. \A i \in 1 .. Len(d.outstanding) + Len(reads) :
             (d.outstanding \o reads)[i] = IF i <= Len(d.outstanding) THEN d.outstanding[i]
                                           ELSE reads[i - Len(d.outstanding)]
      BY <1>2, <1>7, ConcatType
    <3> QED BY <1>9, <2>4, <3>1
  <2>6. q[j] = reads[k - Len(d.outstanding)]
    <3>1. \A i \in 1 .. Len(d.queue) + Len(reads) :
             (d.queue \o reads)[i] = IF i <= Len(d.queue) THEN d.queue[i] ELSE reads[i - Len(d.queue)]
      BY <1>2, <1>7, ConcatType
    <3> QED BY <1>8, <2>4, <3>1
  <2> QED BY <2>2, <2>4, <2>5, <2>6
<1>12. PICK taken : taken = {free[k] : k \in 1 .. n}
  OBVIOUS
<1>13. PICK new : new = {reads[k].seq : k \in 1 .. n}
  OBVIOUS
<1>14. PICK slots : slots = [s \in SlotIds |-> IF s \in taken THEN "owned" ELSE d.slots[s]]
  OBVIOUS
<1>15. PICK e : e = [d EXCEPT !.slots = slots, !.queue = q, !.outstanding = o, !.produced = @ + n,
                             !.next = @ + n, !.pending = @ \cup new, !.home = @ \ taken]
  OBVIOUS
<1>16. PICK asks : asks = [k \in 1 .. n |-> Request("bulk", reads[k].seq, reads[k].off, reads[k].slot)]
  OBVIOUS
<1>17. Fill(d, frames) = Result(e, frames, asks)
  BY <1>3, <1>4, <1>6, <1>8, <1>9, <1>12, <1>13, <1>14, <1>15, <1>16 DEF Fill
<1>18. slots \in [SlotIds -> {"free", "owned", "awaiting"}] /\ d.pending \cup new \in SUBSET Nat
       /\ d.home \ taken \in SUBSET SlotIds /\ d.produced + n \in Nat /\ d.next + n \in Nat
  <2>1. \A s \in SlotIds : (IF s \in taken THEN "owned" ELSE d.slots[s]) \in {"free", "owned", "awaiting"}
    BY <1>2
  <2>2. slots \in [SlotIds -> {"free", "owned", "awaiting"}]
    BY <1>14, <2>1
  <2>3. ASSUME NEW x \in new PROVE x \in Nat
    <3>1. PICK k \in 1 .. n : x = reads[k].seq
      BY <1>13
    <3> QED BY <1>2, <1>3, <1>7, <3>1
  <2>4. d.produced + n \in Nat /\ d.next + n \in Nat
    BY <1>2, <1>3
  <2> QED BY <1>2, <2>2, <2>3, <2>4
<1>19. /\ e \in DeviceRecord
       /\ e.slots = slots /\ e.queue = q /\ e.outstanding = o /\ e.produced = d.produced + n
       /\ e.next = d.next + n /\ e.pending = d.pending \cup new /\ e.home = d.home \ taken
       /\ e.mode = d.mode /\ e.opening = d.opening /\ e.named = d.named /\ e.active = d.active
       /\ e.tombstone = d.tombstone /\ e.gen = d.gen /\ e.durable = d.durable
       /\ e.summed = d.summed /\ e.sent = d.sent
  BY <1>1, <1>10, <1>15, <1>18 DEF DeviceRecord
<1>20. Refilled(d, e, n, free)
  <2>1. ASSUME NEW k \in 1 .. n
        PROVE  /\ e.slots[free[k]] = "owned" /\ free[k] \notin e.home
               /\ d.next + k - 1 \in e.pending
    <3>1. free[k] \in taken /\ d.next + k - 1 \in new /\ free[k] \in SlotIds
      BY <1>5, <1>7, <1>12, <1>13
    <3> QED BY <1>14, <1>19, <3>1
  <2>2. ASSUME NEW s \in SlotIds, \A k \in 1 .. n : s # free[k]
        PROVE  e.slots[s] = d.slots[s] /\ (s \in d.home => s \in e.home)
    <3>1. s \notin taken
      BY <1>12, <2>2
    <3> QED BY <1>14, <1>19, <3>1
  <2>3. \A s \in e.pending : s \in d.pending \/ \E k \in 1 .. n : s = d.next + k - 1
    BY <1>7, <1>13, <1>19
  <2>4. d.pending \subseteq e.pending /\ e.home \subseteq d.home
    BY <1>19
  <2> QED BY <1>3, <1>5, <1>10, <1>11, <1>19, <2>1, <2>2, <2>3, <2>4 DEF Refilled
<1>21. asks \in Seq(MailType) /\ Len(asks) = n
       /\ \A k \in 1 .. n : asks[k] = Request("bulk", d.next + k - 1, d.produced + k - 1, free[k])
  <2>1. \A s \in SlotIds : s \in Nat
    BY ConstantsAssumption DEF SlotIds
  <2>2. ASSUME NEW k \in 1 .. n
        PROVE  /\ Request("bulk", reads[k].seq, reads[k].off, reads[k].slot) \in MailType
               /\ Request("bulk", reads[k].seq, reads[k].off, reads[k].slot)
                     = Request("bulk", d.next + k - 1, d.produced + k - 1, free[k])
    BY <1>2, <1>3, <1>5, <1>7, <2>1, SMTT(30) DEF Request, MailType
  <2> QED BY <1>3, <1>16, <2>2
<1> QED BY <1>17, <1>20, <1>21 DEF Result

(* What the steps below use of a device that was refilled.                 *)
LEMMA RefilledTypes ==
    ASSUME NEW d \in DeviceRecord, NEW e, NEW n, NEW free, Refilled(d, e, n, free)
    PROVE  /\ d.produced \in Nat /\ d.durable \in Nat /\ d.next \in Nat /\ d.gen \in Nat /\ n \in Nat
           /\ Len(d.queue) \in Nat /\ Len(d.outstanding) \in Nat
           /\ DOMAIN d.queue = 1 .. Len(d.queue) /\ DOMAIN d.outstanding = 1 .. Len(d.outstanding)
           /\ DOMAIN e.queue = 1 .. Len(d.queue) + n /\ DOMAIN e.outstanding = 1 .. Len(d.outstanding) + n
           /\ Len(e.queue) = Len(d.queue) + n /\ Len(e.outstanding) = Len(d.outstanding) + n
           /\ \A k \in 1 .. Len(d.queue) : e.queue[k] = d.queue[k] /\ d.queue[k] \in Read
           /\ \A k \in 1 .. Len(d.outstanding) : e.outstanding[k] = d.outstanding[k] /\ d.outstanding[k] \in Read
           /\ \A k \in 1 .. Len(d.queue) + n :
                 k > Len(d.queue) => k - Len(d.queue) \in 1 .. n /\ NewRead(d, free[k - Len(d.queue)], k - Len(d.queue), e.queue[k])
           /\ \A k \in 1 .. Len(d.outstanding) + n :
                 k > Len(d.outstanding) =>
                    k - Len(d.outstanding) \in 1 .. n
                    /\ NewRead(d, free[k - Len(d.outstanding)], k - Len(d.outstanding), e.outstanding[k])
<1>1. /\ d.produced \in Nat /\ d.durable \in Nat /\ d.next \in Nat /\ d.gen \in Nat
      /\ d.queue \in Seq(Read) /\ d.outstanding \in Seq(Read)
  BY DEF DeviceRecord
<1>2. n \in Nat /\ Grown(d, d.queue, e.queue, n, free) /\ Grown(d, d.outstanding, e.outstanding, n, free)
  BY DEF Refilled
<1>3. e.queue \in Seq(Read) /\ e.outstanding \in Seq(Read) /\ Len(e.queue) = Len(d.queue) + n
      /\ Len(e.outstanding) = Len(d.outstanding) + n
  BY <1>2 DEF Grown
<1>4. DOMAIN e.queue = 1 .. Len(d.queue) + n /\ DOMAIN e.outstanding = 1 .. Len(d.outstanding) + n
  BY <1>3
<1>5. /\ \A k \in 1 .. Len(d.queue) : e.queue[k] = d.queue[k] /\ d.queue[k] \in Read
      /\ \A k \in 1 .. Len(d.outstanding) : e.outstanding[k] = d.outstanding[k] /\ d.outstanding[k] \in Read
  <2> HIDE DEF Read
  <2> QED BY <1>1, <1>2 DEF Grown
<1>6. /\ \A k \in 1 .. Len(d.queue) + n :
            k > Len(d.queue) => k - Len(d.queue) \in 1 .. n /\ NewRead(d, free[k - Len(d.queue)], k - Len(d.queue), e.queue[k])
      /\ \A k \in 1 .. Len(d.outstanding) + n :
            k > Len(d.outstanding) =>
               k - Len(d.outstanding) \in 1 .. n
               /\ NewRead(d, free[k - Len(d.outstanding)], k - Len(d.outstanding), e.outstanding[k])
  BY <1>2, <1>3 DEF Grown
<1> QED BY <1>1, <1>2, <1>3, <1>4, <1>5, <1>6

LEMMA RefilledFresh ==
    ASSUME NEW d \in DeviceRecord, Fresh(d), NEW e, NEW n, NEW free, Refilled(d, e, n, free)
    PROVE  Fresh(e)
<1> SUFFICES ASSUME d.mode = "idle" \/ d.opening # 0 PROVE Fresh(e)
  BY DEF Fresh, Refilled
<1>1. n = 0
  BY DEF Fresh, Refilled
<1>2. e.queue = <<>> /\ e.outstanding = <<>>
  <2>1. d.queue = <<>> /\ d.outstanding = <<>>
    BY DEF Fresh
  <2>2. e.queue \in Seq(Read) /\ e.outstanding \in Seq(Read)
        /\ Len(e.queue) = Len(d.queue) + n /\ Len(e.outstanding) = Len(d.outstanding) + n
    BY DEF Refilled, Grown
  <2>3. Len(e.queue) = 0 /\ Len(e.outstanding) = 0
    BY <1>1, <2>1, <2>2
  <2> QED BY <2>2, <2>3
<1>3. e.home = SlotIds /\ e.pending = d.pending
  <2>1. 1 .. n = {}
    BY <1>1
  <2>2. \A s \in SlotIds : s \in d.home => s \in e.home
    BY <2>1 DEF Refilled
  <2>3. d.home = SlotIds
    BY DEF Fresh
  <2>4. e.home \subseteq SlotIds
    BY <2>3 DEF Refilled
  <2>5. e.home = SlotIds
    BY <2>2, <2>3, <2>4
  <2>6. \A s \in e.pending : s \in d.pending
    BY <2>1 DEF Refilled
  <2> QED BY <2>5, <2>6 DEF Refilled
<1>4. \A s \in SlotIds : e.slots[s] = "free"
  BY <1>1 DEF Fresh, Refilled
<1>5. d.next = 2 /\ d.produced = 0
  BY DEF Fresh
<1>6. e.next = 2 /\ e.produced = 0
  BY <1>1, <1>5 DEF Refilled
<1> QED BY <1>2, <1>3, <1>4, <1>6 DEF Fresh, Refilled

LEMMA RefilledLeases ==
    ASSUME NEW d \in DeviceRecord, Leases(d), NEW e, NEW n, NEW free, Refilled(d, e, n, free)
    PROVE  Leases(e)
<1> DEFINE lo == Len(d.outstanding)
           o == e.outstanding
<1>1. /\ d.next \in Nat /\ n \in Nat /\ lo \in Nat /\ d.gen \in Nat
      /\ DOMAIN d.outstanding = 1 .. lo /\ DOMAIN o = 1 .. lo + n
      /\ \A k \in 1 .. lo : o[k] = d.outstanding[k] /\ d.outstanding[k] \in Read
      /\ \A k \in 1 .. lo + n : k > lo => k - lo \in 1 .. n /\ NewRead(d, free[k - lo], k - lo, o[k])
  BY RefilledTypes
<1>2. /\ \A k \in 1 .. n :
            /\ free[k] \in SlotIds /\ free[k] \in d.home /\ free[k] \notin e.home
            /\ d.next + k - 1 \in e.pending
            /\ \A j \in 1 .. n : j # k => free[j] # free[k]
      /\ \A s \in SlotIds : (\A k \in 1 .. n : s # free[k]) => (s \in d.home => s \in e.home)
      /\ \A s \in e.pending : s \in d.pending \/ \E k \in 1 .. n : s = d.next + k - 1
      /\ d.pending \subseteq e.pending /\ e.home \subseteq d.home
      /\ e.next = d.next + n /\ e.gen = d.gen /\ e.opening = d.opening
  BY DEF Refilled
<1>3. /\ d.pending \in SUBSET Nat
      /\ IsFiniteSet(d.pending) /\ Cardinality(d.pending) <= Slots
      /\ 1 \in d.pending => d.opening # 0
      /\ d.next >= 2 /\ \A s \in d.pending : s < d.next
      /\ \A s \in d.pending \ {1} : \E k \in 1 .. lo : d.outstanding[k].seq = s
      /\ \A s \in SlotIds \ d.home : \E k \in 1 .. lo : d.outstanding[k].slot = s
      /\ \A k \in 1 .. lo :
            /\ d.outstanding[k].seq \in d.pending \ {1} /\ d.outstanding[k].slot \notin d.home
            /\ d.outstanding[k].gen <= d.gen
            /\ \A j \in 1 .. lo : j # k =>
                  d.outstanding[j].seq # d.outstanding[k].seq /\ d.outstanding[j].slot # d.outstanding[k].slot
  BY <1>1 DEF Leases, DeviceRecord
<1> HIDE DEF lo, o
<1>4. IsFiniteSet(e.pending) /\ Cardinality(e.pending) <= Slots
  <2>1. PICK T : T = {s \in e.pending : \E k \in 1 .. n : s = d.next + k - 1}
    OBVIOUS
  <2>2. \A x \in T : x \in d.next .. d.next + n - 1
    BY <1>1, <2>1
  <2>3. e.pending = d.pending \cup T
    BY <1>2, <2>1
  <2>4. n > 0 => n + Cardinality(d.pending) <= Slots
    BY DEF Refilled
  <2>5. Slots \in Nat
    BY ConstantsAssumption
  <2>6. n \in Nat /\ d.next \in Nat /\ IsFiniteSet(d.pending) /\ Cardinality(d.pending) <= Slots
    BY <1>1, <1>3
  <2>7. IsFiniteSet(d.pending \cup T) /\ Cardinality(d.pending \cup T) <= Slots
    BY <2>2, <2>4, <2>5, <2>6, RoomFor
  <2> QED BY <2>3, <2>7
<1>5. 1 \in e.pending => e.opening # 0
  BY <1>1, <1>2, <1>3
<1>6. e.next >= 2 /\ \A s \in e.pending : s < e.next
  <2>1. ASSUME NEW s \in e.pending PROVE s < d.next + n
    <3>1. CASE s \in d.pending
      <4>1. s \in Nat /\ s < d.next
        BY <1>3, <3>1
      <4> QED BY <1>1, <4>1
    <3>2. CASE \E k \in 1 .. n : s = d.next + k - 1
      BY <1>1, <3>2
    <3> QED BY <1>2, <3>1, <3>2
  <2> QED BY <1>1, <1>2, <1>3, <2>1
<1>7. ASSUME NEW i \in 1 .. n
      PROVE  \E k \in 1 .. lo + n : o[k].seq = d.next + i - 1 /\ o[k].slot = free[i]
  <2>1. lo + i \in 1 .. lo + n /\ lo + i > lo /\ (lo + i) - lo = i
    BY <1>1
  <2>2. NewRead(d, free[i], i, o[lo + i])
    BY <1>1, <2>1
  <2> QED BY <2>1, <2>2 DEF NewRead
<1>8. ASSUME NEW i \in 1 .. lo
      PROVE  \E k \in 1 .. lo + n : o[k] = d.outstanding[i]
  <2>1. i \in 1 .. lo + n
    BY <1>1
  <2> QED BY <1>1, <2>1
<1>9. \A s \in e.pending \ {1} : \E k \in 1 .. lo + n : o[k].seq = s
  BY <1>2, <1>3, <1>7, <1>8
<1>10. \A s \in SlotIds \ e.home : \E k \in 1 .. lo + n : o[k].slot = s
  <2> TAKE s \in SlotIds \ e.home
  <2>1. CASE \E i \in 1 .. n : s = free[i]
    BY <1>7, <2>1
  <2>2. CASE \A i \in 1 .. n : s # free[i]
    <3>1. PICK i \in 1 .. lo : d.outstanding[i].slot = s
      BY <1>2, <1>3, <2>2
    <3> QED BY <1>8, <3>1
  <2> QED BY <2>1, <2>2
<1>11. ASSUME NEW k \in 1 .. lo + n
       PROVE  /\ k <= lo => /\ o[k] = d.outstanding[k] /\ k \in 1 .. lo
                            /\ o[k].seq \in Nat /\ o[k].seq < d.next /\ o[k].slot \notin d.home
              /\ k > lo => /\ k - lo \in 1 .. n /\ o[k].seq = d.next + (k - lo) - 1 /\ o[k].slot = free[k - lo]
                           /\ o[k].gen = d.gen
  <2>1. CASE k <= lo
    <3>1. k \in 1 .. lo
      BY <1>1, <2>1
    <3> QED BY <1>1, <1>3, <3>1, <2>1
  <2>2. CASE k > lo
    BY <1>1, <2>2 DEF NewRead
  <2> QED BY <1>1, <2>1, <2>2
<1>12. ASSUME NEW k \in 1 .. lo + n
       PROVE  o[k].seq \in e.pending \ {1} /\ o[k].slot \notin e.home /\ o[k].gen <= e.gen
  <2>1. CASE k <= lo
    BY <1>2, <1>3, <1>11, <2>1
  <2>2. CASE k > lo
    <3>1. k - lo \in 1 .. n /\ o[k].seq = d.next + (k - lo) - 1 /\ o[k].slot = free[k - lo] /\ o[k].gen = d.gen
      BY <1>11, <2>2
    <3>2. o[k].seq # 1
      BY <1>1, <1>3, <3>1
    <3>3. d.next + (k - lo) - 1 \in e.pending /\ free[k - lo] \notin e.home
      BY <1>2, <3>1
    <3>4. o[k].gen <= e.gen
      BY <1>1, <1>2, <3>1
    <3> QED BY <3>1, <3>2, <3>3, <3>4
  <2> QED BY <1>1, <2>1, <2>2
<1>13. ASSUME NEW k \in 1 .. lo + n, NEW j \in 1 .. lo + n, j # k
       PROVE  o[j].seq # o[k].seq /\ o[j].slot # o[k].slot
  <2>1. CASE k <= lo /\ j <= lo
    BY <1>3, <1>11, <1>13, <2>1
  <2>2. CASE k > lo /\ j > lo
    <3>1. k - lo \in 1 .. n /\ j - lo \in 1 .. n /\ k - lo # j - lo
      BY <1>1, <1>11, <1>13, <2>2
    <3>2. d.next + (k - lo) - 1 # d.next + (j - lo) - 1
      BY <1>1, <3>1
    <3> QED BY <1>2, <1>11, <2>2, <3>1, <3>2
  <2>3. CASE k <= lo /\ j > lo
    BY <1>1, <1>2, <1>11, <2>3
  <2>4. CASE k > lo /\ j <= lo
    BY <1>1, <1>2, <1>11, <2>4
  <2> QED BY <1>1, <2>1, <2>2, <2>3, <2>4
<1>14. DOMAIN e.outstanding = 1 .. lo + n /\ e.outstanding = o
  BY <1>1 DEF o
<1> QED BY <1>4, <1>5, <1>6, <1>9, <1>10, <1>12, <1>13, <1>14 DEF Leases

LEMMA RefilledOrdered ==
    ASSUME NEW d \in DeviceRecord, Ordered(d), NEW e, NEW n, NEW free, Refilled(d, e, n, free)
    PROVE  Ordered(e)
<1> DEFINE lq == Len(d.queue)
           q == e.queue
<1>1. /\ n \in Nat /\ lq \in Nat /\ d.produced \in Nat /\ d.durable \in Nat
      /\ DOMAIN d.queue = 1 .. lq /\ DOMAIN q = 1 .. lq + n /\ Len(q) = lq + n
      /\ \A k \in 1 .. lq : q[k] = d.queue[k] /\ d.queue[k] \in Read
      /\ \A k \in 1 .. lq + n : k > lq => k - lq \in 1 .. n /\ NewRead(d, free[k - lq], k - lq, q[k])
  BY RefilledTypes
<1>2. /\ n > 0 => d.active /\ n + lq <= Window /\ n + d.produced <= Chunks
      /\ \A k \in 1 .. n :
            /\ free[k] \in SlotIds /\ d.slots[free[k]] = "free" /\ e.slots[free[k]] = "owned"
            /\ \A j \in 1 .. n : j # k => free[j] # free[k]
      /\ \A s \in SlotIds : (\A k \in 1 .. n : s # free[k]) => e.slots[s] = d.slots[s]
      /\ e.produced = d.produced + n /\ e.durable = d.durable /\ e.active = d.active /\ e.sent = d.sent
  BY DEF Refilled
<1>3. /\ d.active => d.produced = d.durable + lq
      /\ ~d.active => d.queue = <<>> /\ d.sent = <<>>
      /\ d.produced <= Chunks /\ lq <= Window
      /\ \A k \in 1 .. lq :
            /\ d.queue[k].off = d.durable + k - 1
            /\ d.slots[d.queue[k].slot] # "free"
            /\ \A j \in 1 .. lq : j # k => d.queue[j].slot # d.queue[k].slot
  BY <1>1 DEF Ordered
<1> HIDE DEF lq, q
<1>4. ASSUME NEW k \in 1 .. lq + n
      PROVE  /\ k <= lq => /\ k \in 1 .. lq /\ q[k] = d.queue[k] /\ q[k].slot \in SlotIds
                           /\ \A i \in 1 .. n : q[k].slot # free[i]
             /\ k > lq => k - lq \in 1 .. n /\ q[k].slot = free[k - lq] /\ q[k].off = d.produced + (k - lq) - 1
  <2>1. CASE k <= lq
    <3>1. k \in 1 .. lq
      BY <1>1, <2>1
    <3>2. q[k] = d.queue[k] /\ q[k].slot \in SlotIds
      BY <1>1, <3>1 DEF Read
    <3>3. \A i \in 1 .. n : q[k].slot # free[i]
      BY <1>2, <1>3, <3>1, <3>2
    <3> QED BY <1>1, <2>1, <3>1, <3>2, <3>3
  <2>2. CASE k > lq
    BY <1>1, <2>2 DEF NewRead
  <2> QED BY <1>1, <2>1, <2>2
<1>5. ASSUME NEW k \in 1 .. lq + n
      PROVE  q[k].off = d.durable + k - 1 /\ e.slots[q[k].slot] # "free"
  <2>1. CASE k <= lq
    BY <1>2, <1>3, <1>4, <2>1
  <2>2. CASE k > lq
    <3>1. k - lq \in 1 .. n /\ q[k].slot = free[k - lq] /\ q[k].off = d.produced + (k - lq) - 1
      BY <1>4, <2>2
    <3>2. n > 0
      BY <1>1, <3>1
    <3>3. d.produced = d.durable + lq
      BY <1>2, <1>3, <3>2
    <3>4. e.slots[free[k - lq]] = "owned"
      BY <1>2, <3>1
    <3> QED BY <1>1, <3>1, <3>3, <3>4
  <2> QED BY <1>1, <2>1, <2>2
<1>6. ASSUME NEW k \in 1 .. lq + n, NEW j \in 1 .. lq + n, j # k
      PROVE  q[j].slot # q[k].slot
  <2>1. CASE k <= lq /\ j <= lq
    BY <1>3, <1>4, <1>6, <2>1
  <2>2. CASE k > lq /\ j > lq
    <3>1. k - lq \in 1 .. n /\ j - lq \in 1 .. n /\ k - lq # j - lq
      BY <1>1, <1>4, <1>6, <2>2
    <3> QED BY <1>2, <1>4, <2>2, <3>1
  <2>3. CASE k <= lq /\ j > lq
    BY <1>4, <2>3
  <2>4. CASE k > lq /\ j <= lq
    BY <1>4, <2>4
  <2> QED BY <1>1, <2>1, <2>2, <2>3, <2>4
<1>7. e.active => e.produced = e.durable + Len(q)
  BY <1>1, <1>2, <1>3
<1>8. ~e.active => q = <<>> /\ e.sent = <<>>
  <2> SUFFICES ASSUME ~e.active PROVE q = <<>> /\ e.sent = <<>>
    OBVIOUS
  <2>1. ~d.active /\ n = 0 /\ d.queue = <<>> /\ d.sent = <<>>
    BY <1>1, <1>2, <1>3
  <2>2. lq = 0
    BY <2>1 DEF lq
  <2>3. q \in Seq(Read) /\ Len(q) = 0
    BY <1>1, <2>1, <2>2 DEF Refilled, Grown, q
  <2> QED BY <1>2, <2>1, <2>3
<1>9. e.produced <= Chunks /\ Len(q) <= Window
  BY <1>1, <1>2, <1>3, ConstantsAssumption
<1>10. e.durable = d.durable /\ DOMAIN q = 1 .. lq + n
  BY <1>1, <1>2
<1>11. \A k \in DOMAIN q :
          /\ q[k].off = e.durable + k - 1
          /\ e.slots[q[k].slot] # "free"
          /\ \A j \in DOMAIN q : j # k => q[j].slot # q[k].slot
  BY <1>5, <1>6, <1>10
<1> QED BY <1>7, <1>8, <1>9, <1>11 DEF Ordered, q

LEMMA RefilledSent ==
    ASSUME NEW d \in DeviceRecord, NEW b, Ordered(d), SentInOrder(d, b), NEW e, NEW n, NEW free, Refilled(d, e, n, free)
    PROVE  SentInOrder(e, b)
<1> DEFINE lq == Len(d.queue)
           q == e.queue
           S == d.sent
<1>1. /\ n \in Nat /\ lq \in Nat
      /\ DOMAIN d.queue = 1 .. lq /\ DOMAIN q = 1 .. lq + n
      /\ \A k \in 1 .. lq : q[k] = d.queue[k] /\ d.queue[k] \in Read
      /\ \A k \in 1 .. lq + n : k > lq => k - lq \in 1 .. n /\ NewRead(d, free[k - lq], k - lq, q[k])
  BY RefilledTypes
<1>2. /\ \A k \in 1 .. n :
            free[k] \in SlotIds /\ d.slots[free[k]] = "free" /\ e.slots[free[k]] = "owned"
      /\ \A s \in SlotIds : (\A k \in 1 .. n : s # free[k]) =>
            e.slots[s] = d.slots[s] /\ (s \in d.home => s \in e.home)
      /\ e.sent = S
  BY DEF Refilled
<1>3. /\ \A k \in DOMAIN S :
            /\ \E j \in 1 .. lq : d.queue[j] = S[k]
            /\ d.slots[S[k].slot] = "awaiting" /\ S[k].slot \in d.home /\ b[S[k].slot] = S[k].off + 1
            /\ \A j \in DOMAIN S : j < k => S[j].off < S[k].off
      /\ \A k \in 1 .. lq : Awaits(d, k) => \E j \in DOMAIN S : S[j] = d.queue[k]
      /\ \A k \in 1 .. lq : (\A j \in 1 .. k : Awaits(d, j)) => k <= Len(S) /\ S[k] = d.queue[k]
  BY <1>1 DEF SentInOrder
<1>4. \A k \in 1 .. lq : d.slots[d.queue[k].slot] # "free"
  BY <1>1 DEF Ordered
<1> HIDE DEF lq, q, S
<1>5. ASSUME NEW k \in 1 .. lq + n, Awaits(e, k)
      PROVE  k \in 1 .. lq /\ Awaits(d, k) /\ q[k] = d.queue[k]
  <2>0. e.slots[q[k].slot] = "awaiting"
    BY <1>5 DEF Awaits, q
  <2>1. k <= lq
    <3> SUFFICES ASSUME k > lq PROVE FALSE
      BY <1>1
    <3>1. k - lq \in 1 .. n /\ q[k].slot = free[k - lq]
      BY <1>1 DEF NewRead
    <3> QED BY <1>2, <2>0, <3>1
  <2>2. k \in 1 .. lq
    BY <1>1, <2>1
  <2>3. q[k] = d.queue[k] /\ q[k].slot \in SlotIds
    BY <1>1, <2>2 DEF Read
  <2>4. d.slots[q[k].slot] = "awaiting"
    BY <1>2, <2>0, <2>3
  <2> QED BY <2>2, <2>3, <2>4 DEF Awaits
<1>6. ASSUME NEW k \in DOMAIN S
      PROVE  /\ \E j \in 1 .. lq + n : q[j] = S[k]
             /\ e.slots[S[k].slot] = "awaiting" /\ S[k].slot \in e.home
  <2>1. PICK j \in 1 .. lq : d.queue[j] = S[k]
    BY <1>3
  <2>2. j \in 1 .. lq + n /\ q[j] = S[k] /\ S[k].slot \in SlotIds
    BY <1>1, <2>1 DEF Read
  <2>3. \A i \in 1 .. n : S[k].slot # free[i]
    BY <1>2, <1>3
  <2> QED BY <1>2, <1>3, <2>2, <2>3
<1>7. \A k \in 1 .. lq + n : Awaits(e, k) => \E j \in DOMAIN S : S[j] = q[k]
  BY <1>3, <1>5
<1>8. ASSUME NEW k \in 1 .. lq + n, \A j \in 1 .. k : Awaits(e, j)
      PROVE  k <= Len(S) /\ S[k] = q[k]
  <2>1. \A j \in 1 .. k : j \in 1 .. lq + n
    BY <1>1
  <2>2. k \in 1 .. k
    BY <1>1
  <2>3. k \in 1 .. lq /\ q[k] = d.queue[k] /\ \A j \in 1 .. k : Awaits(d, j)
    BY <1>5, <1>8, <2>1, <2>2
  <2> QED BY <1>3, <2>3
<1>9. \A k \in DOMAIN S : b[S[k].slot] = S[k].off + 1 /\ \A j \in DOMAIN S : j < k => S[j].off < S[k].off
  BY <1>3
<1> QED BY <1>1, <1>2, <1>6, <1>7, <1>8, <1>9, SMTT(30) DEF SentInOrder, q

LEMMA RefilledReads ==
    ASSUME NEW d \in DeviceRecord, NEW b, Ordered(d), SentInOrder(d, b), ReadsInOrder(d),
           NEW e, NEW n, NEW free, Refilled(d, e, n, free)
    PROVE  ReadsInOrder(e)
<1> DEFINE lq == Len(d.queue)
           q == e.queue
           lo == Len(d.outstanding)
           o == e.outstanding
           S == d.sent
<1>1. /\ n \in Nat /\ lq \in Nat /\ lo \in Nat /\ d.produced \in Nat /\ d.durable \in Nat
      /\ DOMAIN d.queue = 1 .. lq /\ DOMAIN q = 1 .. lq + n /\ Len(q) = lq + n
      /\ DOMAIN d.outstanding = 1 .. lo /\ DOMAIN o = 1 .. lo + n /\ Len(o) = lo + n
      /\ \A k \in 1 .. lq : q[k] = d.queue[k] /\ d.queue[k] \in Read
      /\ \A k \in 1 .. lo : o[k] = d.outstanding[k] /\ d.outstanding[k] \in Read
      /\ \A k \in 1 .. lo + n : k > lo => k - lo \in 1 .. n /\ NewRead(d, free[k - lo], k - lo, o[k])
  BY RefilledTypes
<1>2. /\ n > 0 => d.active
      /\ \A k \in 1 .. n :
            free[k] \in SlotIds /\ d.slots[free[k]] = "free" /\ e.slots[free[k]] = "owned"
      /\ \A s \in SlotIds : (\A k \in 1 .. n : s # free[k]) => e.slots[s] = d.slots[s]
      /\ \A k \in 1 .. lo + n : k > lo => \E j \in 1 .. lq + n : q[j] = o[k]
      /\ e.sent = S /\ e.gen = d.gen
  BY <1>1 DEF Refilled
<1>3. /\ d.active => d.produced = d.durable + lq
      /\ \A k \in 1 .. lq : d.queue[k].off = d.durable + k - 1
  BY <1>1 DEF Ordered
<1>4. \A k \in DOMAIN S : \E j \in 1 .. lq : d.queue[j] = S[k]
  BY <1>1 DEF SentInOrder
<1>5. \A k \in 1 .. lo : d.outstanding[k].gen = d.gen =>
            /\ \E j \in 1 .. lq : d.queue[j] = d.outstanding[k]
            /\ d.slots[d.outstanding[k].slot] = "owned"
            /\ \A j \in DOMAIN S : S[j].off < d.outstanding[k].off
            /\ \A j \in 1 .. lo :
                  j < k /\ d.outstanding[j].gen = d.gen => d.outstanding[j].off < d.outstanding[k].off
  BY <1>1 DEF ReadsInOrder
<1> HIDE DEF lq, q, lo, o, S
<1>6. n > 0 => \A j \in 1 .. lq : d.queue[j].off < d.produced
  BY <1>1, <1>2, <1>3
<1>7. ASSUME NEW k \in 1 .. lo + n
      PROVE  /\ k <= lo => k \in 1 .. lo /\ o[k] = d.outstanding[k]
             /\ k > lo => /\ n > 0 /\ k - lo \in 1 .. n /\ o[k].slot = free[k - lo]
                          /\ o[k].off = d.produced + (k - lo) - 1
  <2>1. CASE k <= lo
    <3>1. k \in 1 .. lo
      BY <1>1, <2>1
    <3> QED BY <1>1, <2>1, <3>1
  <2>2. CASE k > lo
    <3>1. n > 0
      BY <1>1, <2>2
    <3> QED BY <1>1, <2>2, <3>1 DEF NewRead
  <2> QED BY <1>1, <2>1, <2>2
<1>8. ASSUME NEW k \in 1 .. lo, d.outstanding[k].gen = d.gen
      PROVE  /\ \E j \in 1 .. lq + n : q[j] = d.outstanding[k]
             /\ e.slots[d.outstanding[k].slot] = "owned"
  <2>1. PICK j \in 1 .. lq : d.queue[j] = d.outstanding[k]
    BY <1>5, <1>8
  <2>2. j \in 1 .. lq + n /\ q[j] = d.outstanding[k]
    BY <1>1, <2>1
  <2>3. d.outstanding[k].slot \in SlotIds /\ d.slots[d.outstanding[k].slot] = "owned"
    BY <1>1, <1>5, <1>8 DEF Read
  <2>4. \A i \in 1 .. n : d.outstanding[k].slot # free[i]
    BY <1>2, <2>3
  <2> QED BY <1>2, <2>2, <2>3, <2>4
<1>9. ASSUME NEW k \in 1 .. lo + n, o[k].gen = d.gen
      PROVE  /\ \E j \in 1 .. lq + n : q[j] = o[k]
             /\ e.slots[o[k].slot] = "owned"
             /\ \A j \in DOMAIN S : S[j].off < o[k].off
             /\ \A j \in 1 .. lo + n : j < k /\ o[j].gen = d.gen => o[j].off < o[k].off
  <2>1. CASE k <= lo
    <3>1. k \in 1 .. lo /\ o[k] = d.outstanding[k]
      BY <1>7, <2>1
    <3>2. \A j \in 1 .. lo + n : j < k => j \in 1 .. lo /\ o[j] = d.outstanding[j]
      BY <1>1, <1>7, <2>1
    <3>3. \A j \in 1 .. lo + n : j < k /\ o[j].gen = d.gen => o[j].off < o[k].off
      BY <1>5, <1>9, <3>1, <3>2
    <3> QED BY <1>5, <1>8, <1>9, <3>1, <3>3
  <2>2. CASE k > lo
    <3>1. n > 0 /\ k - lo \in 1 .. n /\ o[k].slot = free[k - lo] /\ o[k].off = d.produced + (k - lo) - 1
      BY <1>7, <2>2
    <3>2. d.produced <= o[k].off
      BY <1>1, <3>1
    <3>3. ASSUME NEW r, r.off \in Nat, r.off < d.produced PROVE r.off < o[k].off
      BY <1>1, <3>1, <3>3
    <3>4. \A j \in 1 .. lq : d.queue[j].off \in Nat /\ d.queue[j].off < d.produced
      BY <1>1, <1>6, <3>1 DEF Read
    <3>5. \A j \in DOMAIN S : S[j].off < o[k].off
      BY <1>4, <3>3, <3>4
    <3>6. ASSUME NEW j \in 1 .. lo + n, j < k, o[j].gen = d.gen PROVE o[j].off < o[k].off
      <4>1. CASE j <= lo
        <5>1. \E i \in 1 .. lq : d.queue[i] = o[j]
          BY <1>5, <1>7, <3>6, <4>1
        <5> QED BY <3>3, <3>4, <5>1
      <4>2. CASE j > lo
        <5>1. j - lo \in 1 .. n /\ o[j].off = d.produced + (j - lo) - 1
          BY <1>7, <4>2
        <5> QED BY <1>1, <3>1, <3>6, <5>1
      <4> QED BY <1>1, <4>1, <4>2
    <3>7. \E j \in 1 .. lq + n : q[j] = o[k]
      BY <1>2, <2>2
    <3> QED BY <1>2, <3>1, <3>5, <3>6, <3>7
  <2> QED BY <1>1, <2>1, <2>2
<1>10. e.gen = d.gen /\ e.sent = S /\ e.queue = q /\ e.outstanding = o
  BY <1>2 DEF q, o
<1>11. \A k \in DOMAIN o : o[k].gen = d.gen =>
            /\ \E j \in DOMAIN q : q[j] = o[k]
            /\ e.slots[o[k].slot] = "owned"
            /\ \A j \in DOMAIN S : S[j].off < o[k].off
            /\ \A j \in DOMAIN o : j < k /\ o[j].gen = d.gen => o[j].off < o[k].off
  BY <1>1, <1>9
<1> QED BY <1>10, <1>11 DEF ReadsInOrder

(* The requests go after what is with the owner.                           *)
LEMMA RefilledFlight ==
    ASSUME NEW d \in DeviceRecord, NEW b, NEW ms, NEW as, Leases(d), Flight(d, b, ms, as),
           NEW e, NEW n, NEW free, Refilled(d, e, n, free), Leases(e),
           NEW asks \in Seq(MailType), Len(asks) = n,
           \A k \in 1 .. n : asks[k] = Request("bulk", d.next + k - 1, d.produced + k - 1, free[k])
    PROVE  Flight(e, b, ms \o asks, as)
<1> DEFINE lo == Len(d.outstanding)
           o == e.outstanding
<1>1. /\ d.next \in Nat /\ n \in Nat /\ lo \in Nat
      /\ DOMAIN d.outstanding = 1 .. lo /\ DOMAIN o = 1 .. lo + n
      /\ \A k \in 1 .. lo : o[k] = d.outstanding[k]
      /\ \A k \in 1 .. lo + n : k > lo => k - lo \in 1 .. n /\ NewRead(d, free[k - lo], k - lo, o[k])
  BY RefilledTypes
<1>2. /\ \A k \in 1 .. n : d.next + k - 1 \in e.pending
      /\ d.pending \subseteq e.pending
  BY DEF Refilled
<1>3. /\ d.next >= 2 /\ \A s \in d.pending : s \in Nat /\ s < d.next
  BY DEF Leases, DeviceRecord
<1>4. \A j, k \in 1 .. lo + n : j # k => o[j].seq # o[k].seq
  BY <1>1 DEF Leases
<1>5. PICK lm \in Nat : lm = Len(ms) /\ DOMAIN ms = 1 .. lm
  BY DEF Flight
<1>6. PICK m : m = ms \o asks
  OBVIOUS
<1>7. /\ m \in Seq(MailType) /\ DOMAIN m = 1 .. lm + n
      /\ \A k \in 1 .. lm : m[k] = ms[k]
      /\ \A k \in 1 .. lm + n : k > lm => k - lm \in 1 .. n /\ m[k] = asks[k - lm]
  <2>1. ms \in Seq(MailType)
    BY DEF Flight
  <2>2. /\ m \in Seq(MailType) /\ Len(m) = lm + n
        /\ \A k \in 1 .. lm + n : m[k] = IF k <= lm THEN ms[k] ELSE asks[k - lm]
    BY <1>5, <1>6, <2>1, ConcatType
  <2>3. DOMAIN m = 1 .. lm + n
    BY <2>2
  <2>4. \A k \in 1 .. lm : k \in 1 .. lm + n /\ k <= lm
    BY <1>1
  <2>5. \A k \in 1 .. lm : m[k] = ms[k]
    BY <2>2, <2>4
  <2>6. \A k \in 1 .. lm + n : k > lm => k - lm \in 1 .. n /\ m[k] = asks[k - lm]
    BY <1>1, <2>2
  <2> QED BY <2>2, <2>3, <2>5, <2>6
<1>8. /\ as \in Seq(AnswerType)
      /\ \A k \in 1 .. lm :
            /\ Asked(d, ms[k])
            /\ \A i \in 1 .. lo :
                  ms[k].by = "bulk" /\ ms[k].seq = d.outstanding[i].seq => ms[k].off = d.outstanding[i].off
            /\ \A j \in 1 .. lm : j # k => ~Same(ms[j], ms[k])
            /\ \A j \in DOMAIN as : ~Same(as[j], ms[k])
      /\ \A k \in DOMAIN as :
            /\ Asked(d, as[k]) /\ Filled(d, b, as[k])
            /\ \A j \in DOMAIN as : j # k => ~Same(as[j], as[k])
  <2>1. ms \in Seq(MailType) /\ as \in Seq(AnswerType)
    BY DEF Flight
  <2>4. DOMAIN ms = 1 .. lm /\ DOMAIN d.outstanding = 1 .. lo
    BY <1>1, <1>5
  <2>2. \A k \in 1 .. lm :
          /\ Asked(d, ms[k])
          /\ \A i \in 1 .. lo :
                ms[k].by = "bulk" /\ ms[k].seq = d.outstanding[i].seq => ms[k].off = d.outstanding[i].off
          /\ \A j \in 1 .. lm : j # k => ~Same(ms[j], ms[k])
          /\ \A j \in DOMAIN as : ~Same(as[j], ms[k])
    BY <2>4 DEF Flight
  <2>3. \A k \in DOMAIN as :
            /\ Asked(d, as[k]) /\ Filled(d, b, as[k])
            /\ \A j \in DOMAIN as : j # k => ~Same(as[j], as[k])
    BY DEF Flight
  <2> QED BY <2>1, <2>2, <2>3
<1> HIDE DEF lo, o
<1>9. ASSUME NEW i \in 1 .. n
      PROVE  \E k \in 1 .. lo + n : /\ o[k].seq = d.next + i - 1 /\ o[k].slot = free[i]
                                    /\ o[k].off = d.produced + i - 1
  <2>1. lo + i \in 1 .. lo + n /\ lo + i > lo /\ (lo + i) - lo = i
    BY <1>1
  <2>2. NewRead(d, free[i], i, o[lo + i])
    BY <1>1, <2>1
  <2> QED BY <2>1, <2>2 DEF NewRead
<1>10. ASSUME NEW k \in 1 .. lo + n
       PROVE  IF k <= lo THEN k \in 1 .. lo /\ o[k] = d.outstanding[k]
              ELSE k - lo \in 1 .. n /\ o[k].seq = d.next + (k - lo) - 1
  <2>1. CASE k <= lo
    <3>1. k \in 1 .. lo
      BY <1>1, <2>1
    <3> QED BY <1>1, <2>1, <3>1
  <2>2. CASE ~(k <= lo)
    <3>1. k > lo
      BY <1>1, <2>2
    <3> QED BY <1>1, <2>2, <3>1 DEF NewRead
  <2> QED BY <2>1, <2>2
<1>11. ASSUME NEW x, Asked(d, x), x.by = "bulk"
       PROVE  /\ x.seq \in Nat /\ x.seq < d.next
              /\ \A i \in 1 .. lo + n : x.seq = o[i].seq => i \in 1 .. lo /\ o[i] = d.outstanding[i]
  <2>1. x.seq \in Nat /\ x.seq < d.next
    BY <1>3, <1>11 DEF Asked
  <2>2. ASSUME NEW i \in 1 .. lo + n, x.seq = o[i].seq PROVE i \in 1 .. lo /\ o[i] = d.outstanding[i]
    <3>1. CASE i <= lo
      BY <1>10, <3>1
    <3>2. CASE ~(i <= lo)
      <4>1. i - lo \in 1 .. n /\ o[i].seq = d.next + (i - lo) - 1
        BY <1>10, <3>2
      <4> QED BY <1>1, <2>1, <2>2, <4>1
    <3> QED BY <3>1, <3>2
  <2> QED BY <2>1, <2>2
<1>12. ASSUME NEW x, Asked(d, x) PROVE Asked(e, x)
  <2>1. \A k \in 1 .. lo : k \in 1 .. lo + n /\ o[k] = d.outstanding[k]
    BY <1>1
  <2> QED BY <1>1, <1>2, <1>12, <2>1 DEF Asked, lo, o
<1>13. ASSUME NEW k \in 1 .. lm + n
       PROVE  IF k <= lm THEN k \in 1 .. lm /\ m[k] = ms[k] /\ Asked(d, m[k])
              ELSE /\ k - lm \in 1 .. n /\ m[k].by = "bulk" /\ m[k].seq = d.next + (k - lm) - 1
                   /\ m[k].off = d.produced + (k - lm) - 1 /\ m[k].lease = free[k - lm]
  <2>1. CASE k <= lm
    <3>1. k \in 1 .. lm
      BY <2>1
    <3> QED BY <1>7, <1>8, <2>1, <3>1
  <2>2. CASE ~(k <= lm)
    <3>1. k > lm
      BY <2>2
    <3>2. k - lm \in 1 .. n /\ m[k] = asks[k - lm]
      BY <1>7, <3>1
    <3> QED BY <2>2, <3>2 DEF Request
  <2> QED BY <2>1, <2>2
<1>14. ASSUME NEW k \in 1 .. lm + n
       PROVE  /\ Asked(e, m[k])
              /\ \A i \in 1 .. lo + n : m[k].by = "bulk" /\ m[k].seq = o[i].seq => m[k].off = o[i].off
              /\ \A j \in DOMAIN as : ~Same(as[j], m[k])
  <2>1. CASE k <= lm
    <3>1. k \in 1 .. lm /\ m[k] = ms[k] /\ Asked(d, m[k])
      BY <1>13, <2>1
    <3>2. \A i \in 1 .. lo + n : m[k].by = "bulk" /\ m[k].seq = o[i].seq => m[k].off = o[i].off
      <4> SUFFICES ASSUME NEW i \in 1 .. lo + n, m[k].by = "bulk", m[k].seq = o[i].seq
                   PROVE  m[k].off = o[i].off
        OBVIOUS
      <4>1. i \in 1 .. lo /\ o[i] = d.outstanding[i]
        BY <1>11, <3>1
      <4> QED BY <1>8, <3>1, <4>1
    <3> QED BY <1>8, <1>12, <3>1, <3>2
  <2>2. CASE ~(k <= lm)
    <3>1. /\ k - lm \in 1 .. n /\ m[k].by = "bulk" /\ m[k].seq = d.next + (k - lm) - 1
          /\ m[k].off = d.produced + (k - lm) - 1 /\ m[k].lease = free[k - lm]
      BY <1>13, <2>2
    <3>2. PICK i \in 1 .. lo + n : /\ o[i].seq = d.next + (k - lm) - 1 /\ o[i].slot = free[k - lm]
                                   /\ o[i].off = d.produced + (k - lm) - 1
      BY <1>9, <3>1
    <3>3. m[k].seq \in e.pending /\ m[k].seq # 1
      <4>1. d.next + (k - lm) - 1 \in e.pending
        BY <1>2, <3>1
      <4>2. d.next + (k - lm) - 1 # 1
        BY <1>1, <1>3, <3>1
      <4> QED BY <3>1, <4>1, <4>2
    <3>4. i \in DOMAIN e.outstanding /\ e.outstanding[i].seq = m[k].seq /\ e.outstanding[i].slot = m[k].lease
      BY <1>1, <3>1, <3>2 DEF o
    <3>5. Asked(e, m[k])
      BY <3>1, <3>3, <3>4 DEF Asked
    <3>6. \A h \in 1 .. lo + n : m[k].seq = o[h].seq => m[k].off = o[h].off
      BY <1>4, <3>1, <3>2
    <3>7. ASSUME NEW j \in DOMAIN as PROVE ~Same(as[j], m[k])
      <4>1. Asked(d, as[j])
        BY <1>8
      <4>2. as[j].by = "bulk" => as[j].seq \in Nat /\ as[j].seq < d.next
        BY <1>11, <4>1
      <4>3. m[k].seq >= d.next /\ m[k].seq \in Nat
        BY <1>1, <3>1
      <4>4. ASSUME as[j].by = "bulk" PROVE as[j].seq # m[k].seq
        <5>1. as[j].seq \in Nat /\ as[j].seq < d.next /\ d.next \in Nat
          BY <1>1, <4>2, <4>4
        <5>2. PICK x \in Nat : x = as[j].seq
          BY <5>1
        <5>3. PICK y \in Nat : y = m[k].seq
          BY <4>3
        <5>4. x < d.next /\ d.next <= y /\ d.next \in Nat
          BY <4>3, <5>1, <5>2, <5>3
        <5>5. x # y
          BY <5>4
        <5> QED BY <5>2, <5>3, <5>5
      <4> QED BY <4>4 DEF Same
    <3> QED BY <3>5, <3>6, <3>7
  <2> QED BY <2>1, <2>2
<1>15. ASSUME NEW k \in 1 .. lm + n, NEW j \in 1 .. lm + n, j < k
       PROVE  ~Same(m[j], m[k])
  <2>1. CASE k <= lm
    <3>1. k \in 1 .. lm /\ j \in 1 .. lm /\ j # k
      BY <1>15, <2>1
    <3> QED BY <1>7, <1>8, <3>1
  <2>2. CASE ~(k <= lm)
    <3>1. k - lm \in 1 .. n /\ m[k].seq = d.next + (k - lm) - 1
      BY <1>13, <2>2
    <3>2. CASE j <= lm
      <4>1. Asked(d, m[j])
        BY <1>13, <3>2
      <4>2. m[j].by = "bulk" => m[j].seq \in Nat /\ m[j].seq < d.next
        BY <1>11, <4>1
      <4>3. m[j].by = "bulk" => m[j].seq # m[k].seq
        BY <1>1, <3>1, <4>2
      <4> QED BY <4>3 DEF Same
    <3>3. CASE ~(j <= lm)
      <4>1. j - lm \in 1 .. n /\ m[j].seq = d.next + (j - lm) - 1
        BY <1>13, <3>3
      <4>2. m[j].seq # m[k].seq
        BY <1>1, <1>5, <1>15, <3>1, <4>1
      <4> QED BY <4>2 DEF Same
    <3> QED BY <3>2, <3>3
  <2> QED BY <2>1, <2>2
<1>16. \A j, k \in 1 .. lm + n : j # k => ~Same(m[j], m[k])
  <2> TAKE j, k \in 1 .. lm + n
  <2>1. j < k => ~Same(m[j], m[k])
    BY <1>15
  <2>2. k < j => ~Same(m[k], m[j])
    BY <1>15
  <2>3. Same(m[k], m[j]) <=> Same(m[j], m[k])
    BY DEF Same
  <2>4. j \in Nat /\ k \in Nat
    BY <1>1
  <2> QED BY <2>1, <2>2, <2>3, <2>4
<1>17. ASSUME NEW k \in DOMAIN as PROVE Asked(e, as[k]) /\ Filled(e, b, as[k])
  <2>1. Asked(d, as[k]) /\ Filled(d, b, as[k])
    BY <1>8
  <2>2. Asked(e, as[k])
    BY <1>12, <2>1
  <2>3. as[k].by = "bulk" => \A i \in 1 .. lo + n : as[k].seq = o[i].seq => i \in 1 .. lo /\ o[i] = d.outstanding[i]
    BY <1>11, <2>1
  <2> QED BY <1>1, <2>1, <2>2, <2>3 DEF Filled, o, lo
<1>18. Flight(e, b, m, as)
  <2>1. DOMAIN e.outstanding = 1 .. lo + n /\ e.outstanding = o
    BY <1>1 DEF o
  <2>2. \A k \in 1 .. lm + n :
          /\ Asked(e, m[k])
          /\ \A i \in DOMAIN e.outstanding :
                m[k].by = "bulk" /\ m[k].seq = e.outstanding[i].seq => m[k].off = e.outstanding[i].off
          /\ \A j \in 1 .. lm + n : j # k => ~Same(m[j], m[k])
          /\ \A j \in DOMAIN as : ~Same(as[j], m[k])
    BY <1>14, <1>16, <2>1
  <2>3. \A k \in DOMAIN as :
          /\ Asked(e, as[k]) /\ Filled(e, b, as[k])
          /\ \A j \in DOMAIN as : j # k => ~Same(as[j], as[k])
    BY <1>8, <1>17
  <2> QED BY <1>7, <1>8, <2>2, <2>3 DEF Flight
<1> QED BY <1>6, <1>18

(* Reads are submitted for the next chunks, in slots that are free and so  *)
(* at home, with new numbers.                                              *)
LEMMA FillKeeps ==
    ASSUME NEW d, NEW b, NEW ms, NEW as, NEW frames, DeviceInv(d, b), Flight(d, b, ms, as)
    PROVE  LET r == Fill(d, frames) IN
           /\ DeviceInv(r.device, b) /\ Flight(r.device, b, ms \o r.requests, as)
           /\ r.frames = frames
           /\ r.device.durable = d.durable /\ r.device.active = d.active
<1>1. PICK r : r = Fill(d, frames)
  OBVIOUS
<1>2. PICK n, free :
        /\ Refilled(d, r.device, n, free)
        /\ r.requests \in Seq(MailType) /\ Len(r.requests) = n
        /\ \A k \in 1 .. n :
              r.requests[k] = Request("bulk", d.next + k - 1, d.produced + k - 1, free[k])
  BY <1>1, FillIs
<1>3. PICK e : e = r.device
  OBVIOUS
<1>4. Refilled(d, e, n, free)
  BY <1>2, <1>3
<1>5. /\ d \in DeviceRecord /\ Fresh(d) /\ Leases(d) /\ Ordered(d) /\ SentInOrder(d, b)
      /\ ReadsInOrder(d) /\ Summed(d)
  BY DEF DeviceInv
<1>6. Fresh(e)
  BY <1>4, <1>5, RefilledFresh
<1>7. Leases(e)
  BY <1>4, <1>5, RefilledLeases
<1>8. Ordered(e)
  BY <1>4, <1>5, RefilledOrdered
<1>9. SentInOrder(e, b)
  BY <1>4, <1>5, RefilledSent
<1>10. ReadsInOrder(e)
  BY <1>4, <1>5, RefilledReads
<1>11. e \in DeviceRecord /\ Summed(e) /\ e.durable = d.durable /\ e.active = d.active
  BY <1>4, <1>5 DEF Summed, Refilled
<1>12. Flight(e, b, ms \o r.requests, as)
  BY <1>2, <1>4, <1>5, <1>7, RefilledFlight
<1>13. r.frames = frames
  BY <1>1, FillIs
<1> QED BY <1>1, <1>3, <1>6, <1>7, <1>8, <1>9, <1>10, <1>11, <1>12, <1>13 DEF DeviceInv

(***************************************************************************)
(* The stream ends, or what it read ahead is taken back.                   *)
(***************************************************************************)
(* What is with the owner depends on what the device waits for, no more.   *)
LEMMA FlightAlike ==
    ASSUME NEW d, NEW e, NEW b, NEW ms, NEW as, Flight(d, b, ms, as),
           e.pending = d.pending, e.outstanding = d.outstanding
    PROVE  Flight(e, b, ms, as)
<1>1. \A m : Asked(d, m) => Asked(e, m)
  BY DEF Asked
<1>2. \A a : Filled(d, b, a) => Filled(e, b, a)
  BY DEF Filled
<1>3. \A k \in DOMAIN ms : \A i \in DOMAIN e.outstanding :
         ms[k].by = "bulk" /\ ms[k].seq = e.outstanding[i].seq => ms[k].off = e.outstanding[i].off
  BY DEF Flight
<1>4. /\ \A k \in DOMAIN ms : Asked(e, ms[k])
      /\ \A k \in DOMAIN as : Asked(e, as[k]) /\ Filled(e, b, as[k])
  BY <1>1, <1>2 DEF Flight
<1> QED BY <1>3, <1>4 DEF Flight

(* The flags of a stream may go down, if it has nothing in its window.     *)
LEMMA FlagsKeep ==
    ASSUME NEW d, NEW b, DeviceInv(d, b), NEW e \in DeviceRecord,
           e.mode = d.mode, e.opening = d.opening, e.gen = d.gen, e.slots = d.slots,
           e.queue = d.queue, e.produced = d.produced, e.durable = d.durable,
           e.summed = d.summed, e.sent = d.sent, e.outstanding = d.outstanding,
           e.pending = d.pending, e.next = d.next, e.home = d.home,
           e.active => d.active, e.named => d.named, e.tombstone => d.tombstone,
           ~e.active => e.queue = <<>>
    PROVE  DeviceInv(e, b)
<1>1. Fresh(d) /\ Leases(d) /\ Ordered(d) /\ SentInOrder(d, b) /\ ReadsInOrder(d) /\ Summed(d) /\ d \in DeviceRecord
  BY DEF DeviceInv
<1>2. Fresh(e)
  BY <1>1 DEF Fresh
<1>3. Leases(e)
  BY <1>1 DEF Leases
<1>4. Ordered(e)
  <2>1. ~e.active => e.sent = <<>>
    <3> SUFFICES ASSUME ~e.active PROVE e.sent = <<>>
      OBVIOUS
    <3>1. d.queue = <<>> /\ d.sent \in Seq(Read)
      BY <1>1 DEF DeviceRecord
    <3>2. \A k \in DOMAIN d.sent : FALSE
      BY <1>1, <3>1 DEF SentInOrder
    <3>3. Len(d.sent) = 0
      <4>1. Len(d.sent) \in Nat /\ DOMAIN d.sent = 1 .. Len(d.sent)
        BY <3>1
      <4>2. 1 \notin 1 .. Len(d.sent)
        BY <3>2, <4>1
      <4> QED BY <4>1, <4>2
    <3> QED BY <3>1, <3>3
  <2> QED BY <1>1, <2>1 DEF Ordered
<1>5. \A k : Awaits(e, k) <=> Awaits(d, k)
  BY DEF Awaits
<1>6. SentInOrder(e, b)
  BY <1>1, <1>5 DEF SentInOrder
<1>7. ReadsInOrder(e)
  BY <1>1 DEF ReadsInOrder
<1>8. Summed(e)
  BY <1>1 DEF Summed
<1> QED BY <1>2, <1>3, <1>4, <1>6, <1>7, <1>8 DEF DeviceInv

(* A generation of its own: the reads on their way are no longer of it.    *)
LEMMA InvalidatedKeeps ==
    ASSUME NEW d, NEW b, DeviceInv(d, b), d.active, NEW e \in DeviceRecord,
           e.mode = d.mode, e.opening = d.opening, e.gen = d.gen + 1,
           e.queue = <<>>, e.sent = <<>>, e.durable = d.durable, e.summed = d.summed,
           e.outstanding = d.outstanding, e.pending = d.pending, e.next = d.next, e.home = d.home,
           e.active => e.produced = d.durable, ~e.active => e.produced = d.produced
    PROVE  DeviceInv(e, b)
<1>1. Fresh(d) /\ Leases(d) /\ Ordered(d) /\ Summed(d) /\ d \in DeviceRecord
  BY DEF DeviceInv
<1>2. /\ d.gen \in Nat /\ d.durable \in Nat /\ d.produced \in Nat /\ d.queue \in Seq(Read)
      /\ d.outstanding \in Seq(Read)
  BY <1>1 DEF DeviceRecord
<1>3. e.mode # "idle" /\ e.opening = 0
  BY <1>1 DEF Fresh
<1>4. Fresh(e)
  BY <1>3 DEF Fresh
<1>5. \A k \in DOMAIN d.outstanding : d.outstanding[k].gen \in Nat /\ d.outstanding[k].gen <= d.gen
  <2>1. \A k \in DOMAIN d.outstanding : d.outstanding[k] \in Read
    BY <1>2
  <2> QED BY <1>1, <2>1 DEF Leases, Read
<1>6. \A k \in DOMAIN d.outstanding : d.outstanding[k].gen <= d.gen + 1 /\ d.outstanding[k].gen # d.gen + 1
  BY <1>2, <1>5
<1>7. Leases(e)
  BY <1>1, <1>6 DEF Leases
<1>8. Ordered(e)
  <2>1. d.durable + Len(d.queue) = d.produced /\ d.produced <= Chunks /\ Len(d.queue) \in Nat
    BY <1>1, <1>2 DEF Ordered
  <2>2. Len(e.queue) = 0 /\ DOMAIN e.queue = {} /\ Len(e.queue) <= Window
    BY ConstantsAssumption
  <2>3. e.produced <= Chunks
    BY <1>2, <2>1, ConstantsAssumption
  <2>4. e.active => e.produced = e.durable + Len(e.queue)
    BY <1>2, <2>2
  <2> QED BY <2>2, <2>3, <2>4 DEF Ordered
<1>9. SentInOrder(e, b)
  BY DEF SentInOrder
<1>10. ReadsInOrder(e)
  BY <1>6 DEF ReadsInOrder
<1>11. Summed(e)
  BY <1>1 DEF Summed
<1> QED BY <1>4, <1>7, <1>8, <1>9, <1>10, <1>11 DEF DeviceInv

LEMMA OpeningType ==
    ASSUME NEW seq \in Nat
    PROVE  Opening(seq) \in DeviceRecord
<1>1. [s \in SlotIds |-> "free"] \in [SlotIds -> {"free", "owned", "awaiting"}]
  OBVIOUS
<1>2. <<>> \in Seq(Read) /\ <<>> \in Seq(Nat)
  OBVIOUS
<1> QED BY <1>1, <1>2 DEF Opening, DeviceRecord

LEMMA IdleType ==
    ASSUME NEW armed \in BOOLEAN
    PROVE  /\ IdleDevice(armed) \in DeviceRecord
           /\ LET e == IdleDevice(armed) IN
              /\ e.mode = "idle" /\ e.pending = {} /\ e.opening = 0 /\ ~e.named /\ ~e.active /\ ~e.tombstone
              /\ e.gen = 0 /\ e.queue = <<>> /\ e.sent = <<>> /\ e.outstanding = <<>> /\ e.summed = <<>>
              /\ e.produced = 0 /\ e.durable = 0 /\ e.next = 2 /\ e.home = SlotIds
              /\ \A s \in SlotIds : e.slots[s] = "free"
<1>1. Opening(0) \in DeviceRecord
  BY OpeningType
<1>2. IdleDevice(armed) \in DeviceRecord
  BY <1>1 DEF IdleDevice, DeviceRecord
<1> QED BY <1>2 DEF IdleDevice, Opening

(* A device that has no stream, or waits for the answer to an open.        *)
LEMMA FreshKeeps ==
    ASSUME NEW b, NEW e \in DeviceRecord, Fresh(e), e.summed = <<>>, e.mode = "idle" \/ e.opening # 0
    PROVE  DeviceInv(e, b)
<1>1. /\ e.pending \subseteq {1} /\ e.next = 2 /\ ~e.active /\ e.gen = 0
      /\ e.queue = <<>> /\ e.sent = <<>> /\ e.outstanding = <<>> /\ e.produced = 0 /\ e.durable = 0
      /\ e.home = SlotIds /\ (e.mode = "idle" => e.pending = {})
  BY DEF Fresh
<1>2. DOMAIN e.queue = {} /\ DOMAIN e.sent = {} /\ DOMAIN e.outstanding = {} /\ Len(e.queue) = 0
  BY <1>1
<1>3. IsFiniteSet(e.pending) /\ Cardinality(e.pending) <= Slots
  <2>1. e.pending = {} \/ e.pending = {1}
    BY <1>1
  <2>2. IsFiniteSet({}) /\ Cardinality({}) = 0 /\ IsFiniteSet({1}) /\ Cardinality({1}) = 1
    BY FS_EmptySet, FS_Singleton
  <2>3. Slots \in Nat /\ 0 <= Slots /\ 1 <= Slots
    BY ConstantsAssumption
  <2>4. CASE e.pending = {}
    BY <2>2, <2>3, <2>4
  <2>5. CASE e.pending = {1}
    BY <2>2, <2>3, <2>5
  <2> QED BY <2>1, <2>4, <2>5
<1>4. Leases(e)
  BY <1>1, <1>2, <1>3 DEF Leases
<1>5. Ordered(e)
  BY <1>1, <1>2, ConstantsAssumption DEF Ordered
<1>6. SentInOrder(e, b) /\ ReadsInOrder(e)
  BY <1>2 DEF SentInOrder, ReadsInOrder
<1>7. Summed(e)
  BY <1>1 DEF Summed
<1> QED BY <1>4, <1>5, <1>6, <1>7 DEF DeviceInv

LEMMA ReleaseKeeps ==
    ASSUME NEW d, NEW b, NEW ms, NEW as, DeviceInv(d, b), Flight(d, b, ms, as)
    PROVE  LET e == Release(d) IN
           /\ DeviceInv(e, b) /\ Flight(e, b, ms, as)
           /\ e.active => d.active
           /\ e.durable \in {0, d.durable}
<1>1. CASE Release(d) = d
  BY <1>1
<1>2. CASE Release(d) # d
  <2>1. Release(d) = IdleDevice(d.armed) /\ d.pending = {} /\ d.outstanding = <<>> /\ d.armed \in BOOLEAN
    BY <1>2 DEF Release, DeviceInv, DeviceRecord
  <2>2. PICK e : e = Release(d)
    OBVIOUS
  <2>3. /\ e \in DeviceRecord
        /\ e.mode = "idle" /\ e.pending = {} /\ e.opening = 0 /\ ~e.named /\ ~e.active /\ ~e.tombstone
        /\ e.gen = 0 /\ e.queue = <<>> /\ e.sent = <<>> /\ e.outstanding = <<>> /\ e.summed = <<>>
        /\ e.produced = 0 /\ e.durable = 0 /\ e.next = 2 /\ e.home = SlotIds
        /\ \A s \in SlotIds : e.slots[s] = "free"
    BY <2>1, <2>2, IdleType
  <2>4. Fresh(e)
    BY <2>3 DEF Fresh
  <2>5. DeviceInv(e, b)
    BY <2>3, <2>4, FreshKeeps
  <2>6. Flight(e, b, ms, as)
    BY <2>1, <2>3, FlightAlike
  <2> QED BY <2>2, <2>3, <2>5, <2>6
<1> QED BY <1>1, <1>2

(***************************************************************************)
(* An answer of the owner.                                                 *)
(***************************************************************************)
(* t is what is left of s without its first element: n elements.           *)
Beheaded(s, t, n) ==
    /\ Len(s) = n + 1 /\ DOMAIN s = 1 .. n + 1 /\ Head(s) = s[1] /\ 1 \in 1 .. n + 1
    /\ Len(t) = n /\ DOMAIN t = 1 .. n
    /\ \A k \in 1 .. n : k + 1 \in 1 .. n + 1 /\ k + 1 # 1 /\ t[k] = s[k + 1]

LEMMA TailIs ==
    ASSUME NEW S, NEW s \in Seq(S), s # <<>>
    PROVE  Tail(s) \in Seq(S) /\ Head(s) \in S /\ \E n \in Nat : Beheaded(s, Tail(s), n)
<1>1. Len(s) \in Nat /\ Len(s) # 0 /\ DOMAIN s = 1 .. Len(s)
  BY EmptySeq
<1>2. PICK n \in Nat : Len(s) = n + 1
  <2>1. Len(s) - 1 \in Nat /\ Len(s) = (Len(s) - 1) + 1
    BY <1>1
  <2> QED BY <2>1
<1>3. PICK t : t = Tail(s)
  OBVIOUS
<1>4. t \in Seq(S) /\ Len(t) = n /\ Head(s) \in S /\ \A i \in 1 .. Len(t) : t[i] = s[i + 1]
  <2>1. Tail(s) \in Seq(S) /\ Len(Tail(s)) = Len(s) - 1 /\ Head(s) \in S
        /\ \A i \in 1 .. Len(Tail(s)) : Tail(s)[i] = s[i + 1]
    BY HeadTailProperties
  <2> QED BY <1>2, <1>3, <2>1
<1>5. DOMAIN t = 1 .. n /\ DOMAIN s = 1 .. n + 1
  BY <1>1, <1>2, <1>4
<1>6. \A k \in 1 .. n : k + 1 \in 1 .. n + 1 /\ k + 1 # 1
  OBVIOUS
<1>7. Head(s) = s[1] /\ 1 \in 1 .. n + 1
  OBVIOUS
<1>8. Beheaded(s, t, n)
  BY <1>2, <1>4, <1>5, <1>6, <1>7 DEF Beheaded
<1> QED BY <1>3, <1>4, <1>8

(* The first answer is taken: nothing else with the owner has its number.  *)
LEMMA TakenFlight ==
    ASSUME NEW d, NEW b, NEW ms, NEW as, Flight(d, b, ms, as), as # <<>>, Head(as).by = "bulk",
           NEW e, e.pending = d.pending \ {Head(as).seq},
           \A k \in DOMAIN d.outstanding : d.outstanding[k].seq # Head(as).seq =>
              \E j \in DOMAIN e.outstanding : e.outstanding[j] = d.outstanding[k],
           \A j \in DOMAIN e.outstanding : \E k \in DOMAIN d.outstanding : e.outstanding[j] = d.outstanding[k]
    PROVE  Flight(e, b, ms, Tail(as))
<1>1. as \in Seq(AnswerType)
  BY DEF Flight
<1>2. PICK t : t = Tail(as)
  OBVIOUS
<1>3. PICK la \in Nat :
        /\ DOMAIN as = 1 .. la + 1 /\ t \in Seq(AnswerType) /\ DOMAIN t = 1 .. la
        /\ Head(as) = as[1] /\ 1 \in 1 .. la + 1
        /\ \A k \in 1 .. la : k + 1 \in 1 .. la + 1 /\ k + 1 # 1 /\ t[k] = as[k + 1]
  <2>1. t \in Seq(AnswerType) /\ \E n \in Nat : Beheaded(as, t, n)
    BY <1>1, <1>2, TailIs
  <2> QED BY <2>1 DEF Beheaded
<1>4. PICK a : a = Head(as)
  OBVIOUS
<1>5. a = as[1] /\ a.by = "bulk" /\ 1 \in 1 .. la + 1
  BY <1>3, <1>4
<1>6. \A k \in 1 .. la : k + 1 \in 1 .. la + 1 /\ k + 1 # 1 /\ t[k] = as[k + 1]
  BY <1>3
<1>7. /\ \A k \in DOMAIN ms : ~Same(a, ms[k])
      /\ \A k \in 1 .. la : ~Same(a, t[k])
  BY <1>3, <1>5, <1>6 DEF Flight
<1>8. ASSUME NEW m, Asked(d, m), ~Same(a, m)
      PROVE  Asked(e, m)
  <2>1. CASE m.by = "bulk"
    <3>1. m.seq # a.seq
      BY <1>5, <1>8, <2>1 DEF Same
    <3>2. m.seq \in e.pending
      BY <1>4, <1>8, <2>1, <3>1 DEF Asked
    <3>3. CASE m.seq = 1
      BY <1>8, <2>1, <3>2, <3>3 DEF Asked
    <3>4. CASE m.seq # 1
      <4>1. PICK k \in DOMAIN d.outstanding : d.outstanding[k].seq = m.seq /\ d.outstanding[k].slot = m.lease
        BY <1>8, <2>1, <3>4 DEF Asked
      <4>2. PICK j \in DOMAIN e.outstanding : e.outstanding[j] = d.outstanding[k]
        BY <1>4, <3>1, <4>1
      <4> QED BY <2>1, <3>2, <3>4, <4>1, <4>2 DEF Asked
    <3> QED BY <3>3, <3>4
  <2>2. CASE m.by # "bulk"
    BY <1>8, <2>2 DEF Asked
  <2> QED BY <2>1, <2>2
<1>9. \A x : Filled(d, b, x) => Filled(e, b, x)
  <2> TAKE x
  <2> SUFFICES ASSUME Filled(d, b, x), x.by = "bulk", x.seq # 1, x.ok,
                      NEW j \in DOMAIN e.outstanding, e.outstanding[j].seq = x.seq
               PROVE  b[x.lease] = e.outstanding[j].off + 1
    BY DEF Filled
  <2>1. PICK k \in DOMAIN d.outstanding : e.outstanding[j] = d.outstanding[k]
    OBVIOUS
  <2> QED BY <2>1 DEF Filled
<1>10. \A k \in DOMAIN ms : \A i \in DOMAIN e.outstanding :
         ms[k].by = "bulk" /\ ms[k].seq = e.outstanding[i].seq => ms[k].off = e.outstanding[i].off
  <2> TAKE k \in DOMAIN ms
  <2> TAKE i \in DOMAIN e.outstanding
  <2>1. PICK j \in DOMAIN d.outstanding : e.outstanding[i] = d.outstanding[j]
    OBVIOUS
  <2> QED BY <2>1 DEF Flight
<1>11. \A k \in DOMAIN ms : Asked(e, ms[k])
  BY <1>7, <1>8 DEF Flight
<1>12. \A k \in 1 .. la : Asked(d, t[k]) /\ Filled(d, b, t[k]) /\ \A j \in DOMAIN ms : ~Same(t[k], ms[j])
  <2>1. \A k \in 1 .. la + 1 : Asked(d, as[k]) /\ Filled(d, b, as[k]) /\ \A j \in DOMAIN ms : ~Same(as[k], ms[j])
    BY <1>3 DEF Flight
  <2> QED BY <1>6, <2>1
<1>13. \A k \in 1 .. la : Asked(e, t[k]) /\ Filled(e, b, t[k])
  BY <1>7, <1>8, <1>9, <1>12
<1>14. \A j, k \in 1 .. la : j # k => ~Same(t[j], t[k])
  <2> TAKE j, k \in 1 .. la
  <2>1. j # k => j + 1 # k + 1
    OBVIOUS
  <2>2. \A x, y \in 1 .. la + 1 : x # y => ~Same(as[x], as[y])
    BY <1>3 DEF Flight
  <2> QED BY <1>6, <2>1, <2>2
<1>15. Flight(e, b, ms, t)
  <2>1. /\ ms \in Seq(MailType)
        /\ \A k \in DOMAIN ms : \A j \in DOMAIN ms : j # k => ~Same(ms[j], ms[k])
    BY DEF Flight
  <2> QED BY <1>3, <1>10, <1>11, <1>12, <1>13, <1>14, <2>1 DEF Flight
<1> QED BY <1>2, <1>15

(* An answer that nobody waits for is taken off the channel.               *)
LEMMA DroppedFlight ==
    ASSUME NEW d, NEW b, NEW ms, NEW as, Flight(d, b, ms, as), as # <<>>
    PROVE  Flight(d, b, ms, Tail(as))
<1>1. as \in Seq(AnswerType)
  BY DEF Flight
<1>2. PICK t : t = Tail(as)
  OBVIOUS
<1>3. PICK la \in Nat :
        /\ DOMAIN as = 1 .. la + 1 /\ t \in Seq(AnswerType) /\ DOMAIN t = 1 .. la
        /\ Head(as) = as[1] /\ 1 \in 1 .. la + 1
        /\ \A k \in 1 .. la : k + 1 \in 1 .. la + 1 /\ k + 1 # 1 /\ t[k] = as[k + 1]
  <2>1. t \in Seq(AnswerType) /\ \E n \in Nat : Beheaded(as, t, n)
    BY <1>1, <1>2, TailIs
  <2> QED BY <2>1 DEF Beheaded
<1>4. \A k \in 1 .. la : k + 1 \in 1 .. la + 1 /\ t[k] = as[k + 1]
  BY <1>3
<1>5. \A k \in 1 .. la : Asked(d, t[k]) /\ Filled(d, b, t[k]) /\ \A j \in DOMAIN ms : ~Same(t[k], ms[j])
  BY <1>3, <1>4 DEF Flight
<1>6. \A j, k \in 1 .. la : j # k => ~Same(t[j], t[k])
  <2> TAKE j, k \in 1 .. la
  <2>1. j # k => j + 1 # k + 1
    OBVIOUS
  <2>2. \A x, y \in 1 .. la + 1 : x # y => ~Same(as[x], as[y])
    BY <1>3 DEF Flight
  <2> QED BY <1>4, <2>1, <2>2
<1>7. Flight(d, b, ms, t)
  BY <1>3, <1>5, <1>6 DEF Flight
<1> QED BY <1>2, <1>7

(* e is the device d when its p-th read is no longer on its way.           *)
Returned(d, e, p) ==
    /\ e \in DeviceRecord /\ p \in DOMAIN d.outstanding
    /\ e.pending = d.pending \ {d.outstanding[p].seq}
    /\ e.home = d.home \cup {d.outstanding[p].slot}
    /\ e.outstanding = RemoveAt(d.outstanding, p)
    /\ e.mode = d.mode /\ e.opening = d.opening /\ e.named = d.named /\ e.active = d.active
    /\ e.tombstone = d.tombstone /\ e.gen = d.gen /\ e.slots = d.slots /\ e.queue = d.queue
    /\ e.produced = d.produced /\ e.durable = d.durable /\ e.summed = d.summed /\ e.sent = d.sent
    /\ e.next = d.next

(* t is s without its p-th element: its j-th element was the at[j]-th.     *)
Thinned(s, t, p, n, at) ==
    /\ DOMAIN s = 1 .. n + 1 /\ p \in 1 .. n + 1 /\ DOMAIN t = 1 .. n
    /\ \A k \in 1 .. n + 1 : k # p => \E j \in 1 .. n : t[j] = s[k]
    /\ \A j \in 1 .. n : at[j] \in 1 .. n + 1 /\ at[j] # p /\ t[j] = s[at[j]]
    /\ \A i, j \in 1 .. n : i # j => at[i] # at[j] /\ (i < j => at[i] < at[j])

LEMMA ReturnedReads ==
    ASSUME NEW d \in DeviceRecord, NEW e, NEW p, Returned(d, e, p)
    PROVE  \E lo \in Nat : \E at : Thinned(d.outstanding, e.outstanding, p, lo, at)
<1>1. d.outstanding \in Seq(Read)
  BY DEF DeviceRecord
<1>2. PICK lo \in Nat : Len(d.outstanding) = lo + 1 /\ p \in 1 .. lo + 1 /\ DOMAIN d.outstanding = 1 .. lo + 1
  <2>1. p \in 1 .. Len(d.outstanding) /\ Len(d.outstanding) \in Nat /\ DOMAIN d.outstanding = 1 .. Len(d.outstanding)
    BY <1>1 DEF Returned
  <2>2. Len(d.outstanding) - 1 \in Nat /\ Len(d.outstanding) = (Len(d.outstanding) - 1) + 1
    BY <2>1
  <2> QED BY <2>1, <2>2
<1>3. PICK s : s = d.outstanding
  OBVIOUS
<1>4. PICK t : t = e.outstanding
  OBVIOUS
<1>5. /\ t \in Seq(Read) /\ Len(t) = lo
      /\ \A j \in 1 .. lo : t[j] = IF j < p THEN s[j] ELSE s[j + 1]
  <2>1. p \in 1 .. Len(s) /\ s \in Seq(Read)
    BY <1>1, <1>2, <1>3
  <2>2. /\ RemoveAt(s, p) \in Seq(Read) /\ Len(RemoveAt(s, p)) = Len(s) - 1
        /\ \A j \in 1 .. Len(s) - 1 : RemoveAt(s, p)[j] = IF j < p THEN s[j] ELSE s[j + 1]
    BY <2>1, RemoveAtProperties
  <2>3. t = RemoveAt(s, p) /\ Len(s) - 1 = lo
    BY <1>2, <1>3, <1>4 DEF Returned
  <2> QED BY <2>2, <2>3
<1>6. DOMAIN t = 1 .. lo
  BY <1>5
<1>7. ASSUME NEW k \in 1 .. lo + 1, k # p
      PROVE  \E j \in 1 .. lo : t[j] = s[k]
  <2>1. CASE k < p
    <3>1. k \in 1 .. lo
      BY <1>2, <2>1
    <3> QED BY <1>5, <2>1, <3>1
  <2>2. CASE k > p
    <3>1. k - 1 \in 1 .. lo /\ ~(k - 1 < p) /\ (k - 1) + 1 = k
      BY <1>2, <2>2
    <3> QED BY <1>5, <3>1
  <2> QED BY <1>2, <1>7, <2>1, <2>2
<1>8. PICK at : at = [j \in 1 .. lo |-> IF j < p THEN j ELSE j + 1]
  OBVIOUS
<1>9. ASSUME NEW j \in 1 .. lo
      PROVE  at[j] \in 1 .. lo + 1 /\ at[j] # p /\ t[j] = s[at[j]]
  <2>1. CASE j < p
    <3>1. at[j] = j /\ j \in 1 .. lo + 1 /\ j # p
      BY <1>2, <1>8, <2>1
    <3> QED BY <1>5, <2>1, <3>1
  <2>2. CASE ~(j < p)
    <3>1. at[j] = j + 1 /\ j + 1 \in 1 .. lo + 1 /\ j + 1 # p
      BY <1>2, <1>8, <2>2
    <3> QED BY <1>5, <2>2, <3>1
  <2> QED BY <2>1, <2>2
<1>10. ASSUME NEW i \in 1 .. lo, NEW j \in 1 .. lo, i < j
       PROVE  at[i] < at[j]
  <2>1. at[i] = IF i < p THEN i ELSE i + 1
    BY <1>8
  <2>2. at[j] = IF j < p THEN j ELSE j + 1
    BY <1>8
  <2> QED BY <1>2, <1>10, <2>1, <2>2
<1>11. ASSUME NEW i \in 1 .. lo, NEW j \in 1 .. lo, i # j
       PROVE  at[i] # at[j] /\ (i < j => at[i] < at[j])
  <2>1. at[i] \in Nat /\ at[j] \in Nat
    BY <1>9
  <2>2. CASE i < j
    <3>1. at[i] < at[j]
      BY <1>10, <2>2
    <3> QED BY <2>1, <3>1
  <2>3. CASE ~(i < j)
    <3>1. j < i
      BY <1>11, <2>3
    <3>2. at[j] < at[i]
      BY <1>10, <3>1
    <3> QED BY <2>1, <2>3, <3>2
  <2> QED BY <2>2, <2>3
<1>12. Thinned(s, t, p, lo, at)
  BY <1>2, <1>3, <1>6, <1>7, <1>9, <1>11 DEF Thinned
<1> QED BY <1>3, <1>4, <1>12

LEMMA ReturnedKeeps ==
    ASSUME NEW d, NEW b, DeviceInv(d, b), NEW e, NEW p, Returned(d, e, p)
    PROVE  DeviceInv(e, b)
<1>1. d \in DeviceRecord /\ Fresh(d) /\ Leases(d) /\ Ordered(d) /\ SentInOrder(d, b) /\ ReadsInOrder(d) /\ Summed(d)
  BY DEF DeviceInv
<1>32. PICK lo \in Nat : \E at : Thinned(d.outstanding, e.outstanding, p, lo, at)
  BY <1>1, ReturnedReads
<1>2. PICK at : Thinned(d.outstanding, e.outstanding, p, lo, at)
  BY <1>32
<1>31. /\ DOMAIN d.outstanding = 1 .. lo + 1 /\ p \in 1 .. lo + 1 /\ DOMAIN e.outstanding = 1 .. lo
       /\ \A k \in 1 .. lo + 1 : k # p => \E j \in 1 .. lo : e.outstanding[j] = d.outstanding[k]
       /\ \A j \in 1 .. lo : at[j] \in 1 .. lo + 1 /\ at[j] # p /\ e.outstanding[j] = d.outstanding[at[j]]
       /\ \A i, j \in 1 .. lo : i # j => at[i] # at[j] /\ (i < j => at[i] < at[j])
  BY <1>2 DEF Thinned
<1>3. PICK r : r = d.outstanding[p]
  OBVIOUS
<1>4. /\ e \in DeviceRecord
      /\ e.pending = d.pending \ {r.seq} /\ e.home = d.home \cup {r.slot}
      /\ e.mode = d.mode /\ e.opening = d.opening /\ e.named = d.named /\ e.active = d.active
      /\ e.tombstone = d.tombstone /\ e.gen = d.gen /\ e.slots = d.slots /\ e.queue = d.queue
      /\ e.produced = d.produced /\ e.durable = d.durable /\ e.summed = d.summed /\ e.sent = d.sent
      /\ e.next = d.next
  BY <1>3 DEF Returned
<1>5. d.mode # "idle" /\ d.opening = 0
  BY <1>1, <1>31 DEF Fresh
<1>6. Fresh(e)
  BY <1>4, <1>5 DEF Fresh
<1>7. /\ \A k \in 1 .. lo + 1 :
            /\ d.outstanding[k].seq \in d.pending \ {1} /\ d.outstanding[k].slot \notin d.home
            /\ d.outstanding[k].gen <= d.gen
      /\ \A j, k \in 1 .. lo + 1 : j # k =>
            d.outstanding[j].seq # d.outstanding[k].seq /\ d.outstanding[j].slot # d.outstanding[k].slot
      /\ \A s \in d.pending \ {1} : \E k \in 1 .. lo + 1 : d.outstanding[k].seq = s
      /\ \A s \in SlotIds \ d.home : \E k \in 1 .. lo + 1 : d.outstanding[k].slot = s
  BY <1>1, <1>31 DEF Leases
<1>8. Leases(e)
  <2>1. IsFiniteSet(e.pending) /\ Cardinality(e.pending) <= Slots
    <3>1. IsFiniteSet(d.pending) /\ Cardinality(d.pending) <= Slots
      BY <1>1 DEF Leases
    <3>2. IsFiniteSet(e.pending) /\ Cardinality(e.pending) <= Cardinality(d.pending)
      BY <1>4, <3>1, FS_Subset
    <3>3. Cardinality(e.pending) \in Nat /\ Cardinality(d.pending) \in Nat /\ Slots \in Nat
      BY <3>1, <3>2, FS_CardinalityType, ConstantsAssumption
    <3> QED BY <3>1, <3>2, <3>3
  <2>2. 1 \notin d.pending
    BY <1>1, <1>5 DEF Leases
  <2>3. e.next >= 2 /\ (1 \in e.pending => e.opening # 0) /\ \A s \in e.pending : s < e.next
    BY <1>1, <1>4, <2>2 DEF Leases
  <2>4. \A s \in e.pending \ {1} : \E j \in 1 .. lo : e.outstanding[j].seq = s
    <3> TAKE s \in e.pending \ {1}
    <3>1. PICK k \in 1 .. lo + 1 : d.outstanding[k].seq = s
      BY <1>4, <1>7
    <3>2. k # p
      BY <1>3, <1>4, <3>1
    <3> QED BY <1>31, <3>1, <3>2
  <2>5. \A s \in SlotIds \ e.home : \E j \in 1 .. lo : e.outstanding[j].slot = s
    <3> TAKE s \in SlotIds \ e.home
    <3>1. PICK k \in 1 .. lo + 1 : d.outstanding[k].slot = s
      BY <1>4, <1>7
    <3>2. k # p
      BY <1>3, <1>4, <3>1
    <3> QED BY <1>31, <3>1, <3>2
  <2>6. ASSUME NEW j \in 1 .. lo
        PROVE  /\ e.outstanding[j].seq \in e.pending \ {1} /\ e.outstanding[j].slot \notin e.home
               /\ e.outstanding[j].gen <= e.gen
               /\ \A i \in 1 .. lo : i # j =>
                     e.outstanding[i].seq # e.outstanding[j].seq /\ e.outstanding[i].slot # e.outstanding[j].slot
    <3>1. at[j] \in 1 .. lo + 1 /\ at[j] # p /\ e.outstanding[j] = d.outstanding[at[j]]
      BY <1>31
    <3>2. d.outstanding[at[j]].seq # r.seq /\ d.outstanding[at[j]].slot # r.slot
      BY <1>3, <1>7, <1>31, <3>1
    <3>3. e.outstanding[j].seq \in e.pending \ {1} /\ e.outstanding[j].slot \notin e.home /\ e.outstanding[j].gen <= e.gen
      BY <1>4, <1>7, <3>1, <3>2
    <3>4. ASSUME NEW i \in 1 .. lo, i # j
          PROVE  e.outstanding[i].seq # e.outstanding[j].seq /\ e.outstanding[i].slot # e.outstanding[j].slot
      <4>1. at[i] \in 1 .. lo + 1 /\ at[i] # at[j] /\ e.outstanding[i] = d.outstanding[at[i]]
        BY <1>31, <3>4
      <4> QED BY <1>7, <3>1, <4>1
    <3> QED BY <3>3, <3>4
  <2> QED BY <1>31, <2>1, <2>3, <2>4, <2>5, <2>6 DEF Leases
<1>9. Ordered(e)
  BY <1>1, <1>4 DEF Ordered
<1>10. SentInOrder(e, b)
  <2>1. \A k : Awaits(e, k) <=> Awaits(d, k)
    BY <1>4 DEF Awaits
  <2>2. \A s : s \in d.home => s \in e.home
    BY <1>4
  <2> QED BY <1>1, <1>4, <2>1, <2>2 DEF SentInOrder
<1>110. ASSUME NEW j \in 1 .. lo, e.outstanding[j].gen = d.gen
        PROVE  /\ \E i \in DOMAIN d.queue : d.queue[i] = e.outstanding[j]
               /\ d.slots[e.outstanding[j].slot] = "owned"
               /\ \A i \in DOMAIN d.sent : d.sent[i].off < e.outstanding[j].off
               /\ \A i \in 1 .. lo :
                     i < j /\ e.outstanding[i].gen = d.gen => e.outstanding[i].off < e.outstanding[j].off
  <2>1. at[j] \in 1 .. lo + 1 /\ e.outstanding[j] = d.outstanding[at[j]]
    BY <1>31
  <2>2. /\ \E i \in DOMAIN d.queue : d.queue[i] = d.outstanding[at[j]]
        /\ d.slots[d.outstanding[at[j]].slot] = "owned"
        /\ \A i \in DOMAIN d.sent : d.sent[i].off < d.outstanding[at[j]].off
        /\ \A h \in 1 .. lo + 1 :
              h < at[j] /\ d.outstanding[h].gen = d.gen => d.outstanding[h].off < d.outstanding[at[j]].off
    <3>1. at[j] \in DOMAIN d.outstanding /\ d.outstanding[at[j]].gen = d.gen /\ DOMAIN d.outstanding = 1 .. lo + 1
      BY <1>31, <1>110, <2>1
    <3> QED BY <1>1, <3>1 DEF ReadsInOrder
  <2>3. ASSUME NEW i \in 1 .. lo, i < j, e.outstanding[i].gen = d.gen
        PROVE  e.outstanding[i].off < e.outstanding[j].off
    <3>1. at[i] \in 1 .. lo + 1 /\ at[i] < at[j] /\ e.outstanding[i] = d.outstanding[at[i]]
      BY <1>31, <2>3
    <3> QED BY <2>1, <2>2, <2>3, <3>1
  <2> QED BY <2>1, <2>2, <2>3
<1>11. ReadsInOrder(e)
  <2>1. DOMAIN e.outstanding = 1 .. lo
    BY <1>31
  <2> QED BY <1>4, <1>110, <2>1 DEF ReadsInOrder
<1>12. Summed(e)
  BY <1>1, <1>4 DEF Summed
<1> QED BY <1>4, <1>6, <1>8, <1>9, <1>10, <1>11, <1>12 DEF DeviceInv

(* The chunk in the slot that was read is sent: it is the next of the      *)
(* window unless one before it failed.                                     *)
LEMMA SentKeeps ==
    ASSUME NEW d, NEW b, DeviceInv(d, b), NEW jr \in DOMAIN d.queue, NEW r, r = d.queue[jr],
           d.slots[r.slot] = "owned", r.slot \in d.home, b[r.slot] = r.off + 1,
           \A k \in DOMAIN d.sent : d.sent[k].off < r.off,
           \A k \in DOMAIN d.outstanding : d.outstanding[k].gen = d.gen => r.off < d.outstanding[k].off,
           NEW g \in DeviceRecord, g.slots = [d.slots EXCEPT ![r.slot] = "awaiting"],
           g.sent = Append(d.sent, r),
           g.mode = d.mode, g.opening = d.opening, g.named = d.named, g.active = d.active,
           g.tombstone = d.tombstone, g.gen = d.gen, g.queue = d.queue, g.produced = d.produced,
           g.durable = d.durable, g.summed = d.summed, g.outstanding = d.outstanding,
           g.pending = d.pending, g.next = d.next, g.home = d.home
    PROVE  DeviceInv(g, b)
<1>1. d \in DeviceRecord /\ Fresh(d) /\ Leases(d) /\ Ordered(d) /\ SentInOrder(d, b) /\ ReadsInOrder(d) /\ Summed(d)
  BY DEF DeviceInv
<1>2. d.queue \in Seq(Read) /\ d.sent \in Seq(Read) /\ d.durable \in Nat /\ d.outstanding \in Seq(Read)
      /\ d.slots \in [SlotIds -> {"free", "owned", "awaiting"}]
  BY <1>1 DEF DeviceRecord
<1>3. PICK lq \in Nat : DOMAIN d.queue = 1 .. lq /\ lq = Len(d.queue)
  BY <1>2
<1>4. PICK ls \in Nat : DOMAIN d.sent = 1 .. ls /\ ls = Len(d.sent)
  BY <1>2
<1>5. \A k \in 1 .. lq : d.queue[k] \in Read
  BY <1>2, <1>3
<1>6. r \in Read /\ jr \in 1 .. lq
  BY <1>3, <1>5
<1>7. r.slot \in SlotIds /\ r.off \in Nat
  BY <1>6 DEF Read
<1>8. PICK q : q = d.queue
  OBVIOUS
<1>9. PICK s : s = d.sent
  OBVIOUS
<1>10. PICK t : t = g.sent
  OBVIOUS
<1>11. /\ t \in Seq(Read) /\ Len(t) = ls + 1 /\ DOMAIN t = 1 .. ls + 1 /\ t[ls + 1] = r
       /\ \A k \in 1 .. ls : t[k] = s[k]
  <2>1. s \in Seq(Read) /\ t = Append(s, r) /\ Len(s) = ls
    BY <1>2, <1>4, <1>9, <1>10
  <2>2. /\ Append(s, r) \in Seq(Read) /\ Len(Append(s, r)) = Len(s) + 1
        /\ Append(s, r)[Len(s) + 1] = r
        /\ \A k \in 1 .. Len(s) : Append(s, r)[k] = s[k]
    BY <1>6, <2>1, AppendProperties
  <2>3. /\ t \in Seq(Read) /\ Len(t) = ls + 1 /\ t[ls + 1] = r
        /\ \A k \in 1 .. ls : t[k] = s[k]
    BY <2>1, <2>2
  <2>4. DOMAIN t = 1 .. ls + 1
    BY <2>3
  <2> QED BY <2>3, <2>4
<1>12. \A x \in SlotIds : g.slots[x] = IF x = r.slot THEN "awaiting" ELSE d.slots[x]
  BY <1>2
<1>13. /\ lq # 0 => d.active
       /\ \A k \in 1 .. lq : /\ q[k].off = d.durable + k - 1 /\ d.slots[q[k].slot] # "free"
                             /\ q[k] \in Read /\ q[k].slot \in SlotIds
       /\ \A j, k \in 1 .. lq : j # k => q[j].slot # q[k].slot
       /\ q[jr] = r
  <2>1. \A k \in 1 .. lq : q[k] \in Read /\ q[k].slot \in SlotIds
    BY <1>5, <1>8 DEF Read
  <2>2. lq # 0 => d.active
    BY <1>1, <1>3 DEF Ordered
  <2>3. \A k \in 1 .. lq : /\ q[k].off = d.durable + k - 1 /\ d.slots[q[k].slot] # "free"
                             /\ \A j \in 1 .. lq : j # k => q[j].slot # q[k].slot
    <3>1. \A k \in DOMAIN d.queue :
             /\ d.queue[k].off = d.durable + k - 1 /\ d.slots[d.queue[k].slot] # "free"
             /\ \A j \in DOMAIN d.queue : j # k => d.queue[j].slot # d.queue[k].slot
      BY <1>1 DEF Ordered
    <3>2. DOMAIN d.queue = 1 .. lq /\ d.queue = q
      BY <1>3, <1>8
    <3> QED BY <3>1, <3>2
  <2>4. q[jr] = r
    BY <1>8
  <2> QED BY <2>1, <2>2, <2>3, <2>4
<1>14. d.mode # "idle" /\ d.opening = 0
  BY <1>1, <1>3, <1>6 DEF Fresh
<1>15. Fresh(g)
  BY <1>14 DEF Fresh
<1>16. Leases(g)
  BY <1>1 DEF Leases
<1>17. \A k \in 1 .. lq : q[k].slot = r.slot => k = jr
  BY <1>6, <1>13
<1>18. Ordered(g)
  <2>1. d.active
    BY <1>6, <1>13
  <2>2. \A k \in 1 .. lq : g.slots[q[k].slot] # "free"
    BY <1>12, <1>13
  <2>3. /\ \A k \in 1 .. lq : /\ g.queue[k].off = g.durable + k - 1 /\ g.slots[g.queue[k].slot] # "free"
                              /\ \A j \in 1 .. lq : j # k => g.queue[j].slot # g.queue[k].slot
    BY <1>8, <1>13, <2>2
  <2>4. g.produced = g.durable + Len(g.queue) /\ g.produced <= Chunks /\ Len(g.queue) <= Window
    BY <1>1, <2>1 DEF Ordered
  <2>5. DOMAIN g.queue = 1 .. lq
    BY <1>3
  <2> QED BY <2>1, <2>3, <2>4, <2>5 DEF Ordered
<1>19. \A k \in 1 .. lq : Awaits(g, k) <=> Awaits(d, k) \/ k = jr
  <2> TAKE k \in 1 .. lq
  <2>1. Awaits(g, k) <=> g.slots[q[k].slot] = "awaiting"
    BY <1>8 DEF Awaits
  <2>2. Awaits(d, k) <=> d.slots[q[k].slot] = "awaiting"
    BY <1>8 DEF Awaits
  <2> QED BY <1>12, <1>13, <1>17, <2>1, <2>2
<1>20. /\ \A k \in 1 .. ls : /\ \E j \in 1 .. lq : q[j] = s[k]
                             /\ d.slots[s[k].slot] = "awaiting" /\ s[k].slot \in d.home
                             /\ b[s[k].slot] = s[k].off + 1
                             /\ \A j \in 1 .. ls : j < k => s[j].off < s[k].off
       /\ \A k \in 1 .. lq : Awaits(d, k) => \E j \in 1 .. ls : s[j] = q[k]
       /\ \A k \in 1 .. lq : (\A j \in 1 .. k : Awaits(d, j)) => k <= ls /\ s[k] = q[k]
       /\ \A k \in 1 .. ls : s[k].off < r.off
  <2>1. DOMAIN d.sent = 1 .. ls /\ d.sent = s /\ Len(d.sent) = ls /\ DOMAIN d.queue = 1 .. lq /\ d.queue = q
    BY <1>3, <1>4, <1>8, <1>9
  <2>2. \A k \in DOMAIN d.sent :
          /\ \E j \in DOMAIN d.queue : d.queue[j] = d.sent[k]
          /\ d.slots[d.sent[k].slot] = "awaiting" /\ d.sent[k].slot \in d.home
          /\ b[d.sent[k].slot] = d.sent[k].off + 1
          /\ \A j \in DOMAIN d.sent : j < k => d.sent[j].off < d.sent[k].off
    BY <1>1 DEF SentInOrder
  <2>3. \A k \in DOMAIN d.queue : Awaits(d, k) => \E j \in DOMAIN d.sent : d.sent[j] = d.queue[k]
    BY <1>1 DEF SentInOrder
  <2>4. \A k \in DOMAIN d.queue :
          (\A j \in 1 .. k : Awaits(d, j)) => k <= Len(d.sent) /\ d.sent[k] = d.queue[k]
    BY <1>1 DEF SentInOrder
  <2>5. \A k \in DOMAIN d.sent : d.sent[k].off < r.off
    OBVIOUS
  <2>6. \A k \in 1 .. ls : /\ \E j \in 1 .. lq : q[j] = s[k]
                           /\ d.slots[s[k].slot] = "awaiting" /\ s[k].slot \in d.home
                           /\ b[s[k].slot] = s[k].off + 1
                           /\ \A j \in 1 .. ls : j < k => s[j].off < s[k].off
    BY <2>1, <2>2, SMTT(30)
  <2>7. \A k \in 1 .. lq : Awaits(d, k) => \E j \in 1 .. ls : s[j] = q[k]
    BY <2>1, <2>3
  <2>8. \A k \in 1 .. lq : (\A j \in 1 .. k : Awaits(d, j)) => k <= ls /\ s[k] = q[k]
    BY <2>1, <2>4
  <2>9. \A k \in 1 .. ls : s[k].off < r.off
    BY <2>1, <2>5
  <2> QED BY <2>6, <2>7, <2>8, <2>9
<1>21. \A k \in 1 .. ls : s[k].off \in Nat /\ s[k].slot \in SlotIds
  <2>1. \A k \in 1 .. ls : s[k] \in Read
    BY <1>2, <1>4, <1>9
  <2> QED BY <2>1 DEF Read
<1>22. ASSUME NEW k \in 1 .. ls + 1
       PROVE  /\ \E j \in 1 .. lq : q[j] = t[k]
              /\ g.slots[t[k].slot] = "awaiting" /\ t[k].slot \in d.home
              /\ b[t[k].slot] = t[k].off + 1
              /\ \A j \in 1 .. ls + 1 : j < k => t[j].off < t[k].off
  <2>1. CASE k <= ls
    <3>1. k \in 1 .. ls /\ t[k] = s[k]
      BY <1>11, <2>1
    <3>2. \A j \in 1 .. ls + 1 : j < k => j \in 1 .. ls /\ t[j] = s[j]
      BY <1>11, <2>1
    <3>3. g.slots[t[k].slot] = "awaiting"
      BY <1>12, <1>20, <1>21, <3>1
    <3> QED BY <1>20, <3>1, <3>2, <3>3
  <2>2. CASE k = ls + 1
    <3>1. t[k] = r
      BY <1>11, <2>2
    <3>2. \A j \in 1 .. ls + 1 : j < k => j \in 1 .. ls /\ t[j] = s[j]
      BY <1>11, <2>2
    <3>3. \A j \in 1 .. ls + 1 : j < k => t[j].off < t[k].off
      BY <1>20, <3>1, <3>2
    <3>4. g.slots[t[k].slot] = "awaiting"
      BY <1>7, <1>12, <3>1
    <3> QED BY <1>6, <1>13, <3>1, <3>3, <3>4
  <2> QED BY <2>1, <2>2
<1>23. \A k \in 1 .. lq : Awaits(g, k) => \E j \in 1 .. ls + 1 : t[j] = q[k]
  <2> TAKE k \in 1 .. lq
  <2> SUFFICES ASSUME Awaits(g, k) PROVE \E j \in 1 .. ls + 1 : t[j] = q[k]
    OBVIOUS
  <2>1. CASE k = jr
    <3>1. ls + 1 \in 1 .. ls + 1
      OBVIOUS
    <3> QED BY <1>11, <1>13, <2>1, <3>1
  <2>2. CASE k # jr
    <3>1. PICK j \in 1 .. ls : s[j] = q[k]
      BY <1>19, <1>20, <2>2
    <3>2. j \in 1 .. ls + 1
      OBVIOUS
    <3> QED BY <1>11, <3>1, <3>2
  <2> QED BY <2>1, <2>2
<1>24. ASSUME NEW k \in 1 .. lq, \A j \in 1 .. k : Awaits(g, j)
       PROVE  k <= ls + 1 /\ t[k] = q[k]
  <2>1. CASE k < jr
    <3>1. \A j \in 1 .. k : j \in 1 .. lq /\ j # jr
      BY <2>1
    <3>2. \A j \in 1 .. k : Awaits(d, j)
      BY <1>19, <1>24, <3>1
    <3>3. k <= ls /\ s[k] = q[k]
      BY <1>20, <3>2
    <3>4. k \in 1 .. ls
      BY <3>3
    <3> QED BY <1>11, <3>3, <3>4
  <2>2. CASE k >= jr
    <3>1. \A j \in 1 .. jr - 1 : j \in 1 .. lq /\ j \in 1 .. k /\ j # jr
      BY <1>6, <2>2
    <3>2. \A j \in 1 .. jr - 1 : Awaits(d, j)
      BY <1>19, <1>24, <3>1
    <3>3. jr - 1 # 0 => jr - 1 \in 1 .. lq /\ jr - 1 \in 1 .. jr - 1
      BY <1>6
    <3>4. jr - 1 # 0 => jr - 1 <= ls /\ s[jr - 1] = q[jr - 1]
      BY <1>20, <3>2, <3>3
    <3>5. ~(ls >= jr)
      <4> SUFFICES ASSUME ls >= jr PROVE FALSE
        OBVIOUS
      <4>1. jr \in 1 .. ls
        BY <1>6
      <4>2. PICK i \in 1 .. lq : q[i] = s[jr]
        BY <1>20, <4>1
      <4>3. s[jr].off = d.durable + i - 1 /\ r.off = d.durable + jr - 1
        BY <1>6, <1>13, <4>2
      <4>4. d.durable + i - 1 < d.durable + jr - 1
        BY <1>20, <4>1, <4>3
      <4>5. i < jr
        BY <1>2, <1>6, <4>4
      <4>6. jr - 1 # 0
        BY <4>5
      <4>7. jr - 1 \in 1 .. ls /\ jr - 1 < jr
        BY <3>4, <4>1, <4>6
      <4>8. s[jr - 1].off = d.durable + (jr - 1) - 1
        BY <1>13, <3>3, <3>4, <4>6
      <4>9. s[jr - 1].off < s[jr].off
        BY <1>20, <4>1, <4>7
      <4> QED BY <1>2, <4>3, <4>5, <4>8, <4>9
    <3>6. jr = ls + 1
      <4>1. jr \in Nat /\ jr >= 1
        BY <1>6
      <4> QED BY <3>4, <3>5, <4>1
    <3>7. ~(k > jr)
      <4> SUFFICES ASSUME k > jr PROVE FALSE
        OBVIOUS
      <4>1. k \in 1 .. k /\ k # jr
        BY <1>6
      <4>2. PICK j \in 1 .. ls : s[j] = q[k]
        BY <1>19, <1>20, <1>24, <4>1
      <4>3. q[k].off < r.off /\ q[k].off = d.durable + k - 1 /\ r.off = d.durable + jr - 1
        BY <1>6, <1>13, <1>20, <4>2
      <4> QED BY <1>2, <1>6, <4>3
    <3>8. k = jr
      BY <1>6, <2>2, <3>7
    <3> QED BY <1>11, <1>13, <3>6, <3>8
  <2> QED BY <1>6, <2>1, <2>2
<1>25. SentInOrder(g, b)
  <2>1. DOMAIN g.sent = 1 .. ls + 1 /\ g.sent = t /\ Len(g.sent) = ls + 1 /\ DOMAIN g.queue = 1 .. lq /\ g.queue = q
    BY <1>3, <1>8, <1>10, <1>11
  <2>2. \A k \in DOMAIN g.sent :
          /\ \E j \in DOMAIN g.queue : g.queue[j] = g.sent[k]
          /\ g.slots[g.sent[k].slot] = "awaiting" /\ g.sent[k].slot \in g.home
          /\ b[g.sent[k].slot] = g.sent[k].off + 1
          /\ \A j \in DOMAIN g.sent : j < k => g.sent[j].off < g.sent[k].off
    <3>1. ASSUME NEW k \in 1 .. ls + 1
          PROVE  /\ \E j \in 1 .. lq : q[j] = t[k]
                 /\ g.slots[t[k].slot] = "awaiting" /\ t[k].slot \in g.home
                 /\ b[t[k].slot] = t[k].off + 1
                 /\ \A j \in 1 .. ls + 1 : j < k => t[j].off < t[k].off
      BY <1>22
    <3> QED BY <2>1, <3>1, Zenon
  <2>3. \A k \in DOMAIN g.queue : Awaits(g, k) => \E j \in DOMAIN g.sent : g.sent[j] = g.queue[k]
    BY <1>23, <2>1
  <2>4. \A k \in DOMAIN g.queue :
          (\A j \in 1 .. k : Awaits(g, j)) => k <= Len(g.sent) /\ g.sent[k] = g.queue[k]
    BY <1>24, <2>1
  <2> QED BY <2>2, <2>3, <2>4 DEF SentInOrder
<1>26. ASSUME NEW k \in DOMAIN d.outstanding, d.outstanding[k].gen = d.gen
       PROVE  /\ \E j \in DOMAIN d.queue : d.queue[j] = d.outstanding[k]
              /\ g.slots[d.outstanding[k].slot] = "owned"
              /\ \A j \in 1 .. ls + 1 : t[j].off < d.outstanding[k].off
              /\ \A j \in DOMAIN d.outstanding :
                    j < k /\ d.outstanding[j].gen = d.gen => d.outstanding[j].off < d.outstanding[k].off
  <2>1. d.outstanding[k].slot # r.slot
    BY <1>1 DEF Leases
  <2>2. d.outstanding[k].slot \in SlotIds
    <3>1. d.outstanding[k] \in Read
      BY <1>2
    <3> QED BY <3>1 DEF Read
  <2>3. /\ \E j \in DOMAIN d.queue : d.queue[j] = d.outstanding[k]
        /\ d.slots[d.outstanding[k].slot] = "owned"
        /\ \A j \in DOMAIN d.sent : d.sent[j].off < d.outstanding[k].off
        /\ \A j \in DOMAIN d.outstanding :
              j < k /\ d.outstanding[j].gen = d.gen => d.outstanding[j].off < d.outstanding[k].off
    BY <1>1, <1>26 DEF ReadsInOrder
  <2>4. g.slots[d.outstanding[k].slot] = "owned"
    BY <1>12, <2>1, <2>2, <2>3
  <2>5. ASSUME NEW j \in 1 .. ls + 1 PROVE t[j].off < d.outstanding[k].off
    <3>1. CASE j <= ls
      <4>1. j \in 1 .. ls
        BY <3>1
      <4> QED BY <1>4, <1>9, <1>11, <2>3, <4>1
    <3>2. CASE j = ls + 1
      BY <1>11, <1>26, <3>2
    <3> QED BY <3>1, <3>2
  <2> QED BY <2>3, <2>4, <2>5
<1>27. ReadsInOrder(g)
  <2>1. DOMAIN g.sent = 1 .. ls + 1 /\ g.sent = t
    BY <1>10, <1>11
  <2> QED BY <1>26, <2>1 DEF ReadsInOrder
<1>28. Summed(g)
  BY <1>1 DEF Summed
<1> QED BY <1>15, <1>16, <1>18, <1>25, <1>27, <1>28 DEF DeviceInv

(***************************************************************************)
(* The host gives credit for the front of the window.                      *)
(***************************************************************************)
(* t is s without its first c elements: n elements.                        *)
Without(s, t, c, n) ==
    /\ Len(s) = n + c /\ DOMAIN s = 1 .. n + c
    /\ Len(t) = n /\ DOMAIN t = 1 .. n
    /\ \A k \in 1 .. n : k + c \in 1 .. n + c /\ k + c > c /\ t[k] = s[k + c]

LEMMA SubSeqIs ==
    ASSUME NEW S, NEW s \in Seq(S), NEW c \in Nat, c <= Len(s)
    PROVE  SubSeq(s, c + 1, Len(s)) \in Seq(S) /\ \E n \in Nat : Without(s, SubSeq(s, c + 1, Len(s)), c, n)
<1>1. Len(s) \in Nat /\ DOMAIN s = 1 .. Len(s)
  OBVIOUS
<1>2. PICK n \in Nat : Len(s) = n + c
  <2>1. Len(s) - c \in Nat /\ Len(s) = (Len(s) - c) + c
    BY <1>1
  <2> QED BY <2>1
<1>3. \A k \in 1 .. n : k + c \in 1 .. n + c /\ k + c > c /\ (c + 1) + k - 1 = k + c
  OBVIOUS
<1>4. PICK t : t = SubSeq(s, c + 1, n + c)
  OBVIOUS
<1>5. \A i \in c + 1 .. n + c : s[i] \in S
  BY <1>1, <1>2
<1>6. /\ t \in Seq(S) /\ Len(t) = (IF c + 1 <= n + c THEN (n + c) - (c + 1) + 1 ELSE 0)
      /\ \A k \in 1 .. (n + c) - (c + 1) + 1 : t[k] = s[(c + 1) + k - 1]
  <2>1. c + 1 \in Int /\ n + c \in Int
    OBVIOUS
  <2> QED BY <1>4, <1>5, <2>1, SubSeqProperties
<1>7. Len(t) = n /\ (n + c) - (c + 1) + 1 = n
  BY <1>6
<1>8. DOMAIN t = 1 .. n
  BY <1>6, <1>7
<1>9. \A k \in 1 .. n : t[k] = s[k + c]
  BY <1>3, <1>6, <1>7
<1>10. Without(s, t, c, n)
  BY <1>1, <1>2, <1>3, <1>7, <1>8, <1>9 DEF Without
<1> QED BY <1>2, <1>4, <1>6, <1>10

(* e is the device d when the first c chunks of its window are durable.    *)
Credited(d, e, b, c) ==
    /\ e \in DeviceRecord /\ c \in Nat /\ c <= Len(d.sent) /\ c <= Len(d.queue)
    /\ \A k \in 1 .. c : Awaits(d, k)
    /\ e.slots = [s \in SlotIds |-> IF \E k \in 1 .. c : s = d.queue[k].slot THEN "free" ELSE d.slots[s]]
    /\ e.summed = d.summed \o [k \in 1 .. c |-> b[d.sent[k].slot]]
    /\ e.durable = d.durable + c
    /\ e.queue = SubSeq(d.queue, c + 1, Len(d.queue)) /\ e.sent = SubSeq(d.sent, c + 1, Len(d.sent))
    /\ e.mode = d.mode /\ e.opening = d.opening /\ e.named = d.named /\ e.active = d.active
    /\ e.tombstone = d.tombstone /\ e.gen = d.gen /\ e.produced = d.produced
    /\ e.outstanding = d.outstanding /\ e.pending = d.pending /\ e.next = d.next /\ e.home = d.home

(* What was sent of the front of the window is in its order.               *)
LEMMA CreditedFront ==
    ASSUME NEW d, NEW b, DeviceInv(d, b), NEW e, NEW c, Credited(d, e, b, c)
    PROVE  \E lq \in Nat, ls \in Nat :
              /\ Without(d.queue, e.queue, c, lq) /\ Without(d.sent, e.sent, c, ls)
              /\ \A k \in 1 .. c : d.sent[k] = d.queue[k] /\ k \in 1 .. lq + c /\ k \in 1 .. ls + c
<1>1. d \in DeviceRecord /\ SentInOrder(d, b) /\ d.queue \in Seq(Read) /\ d.sent \in Seq(Read)
  BY DEF DeviceInv, DeviceRecord
<1>2. c \in Nat /\ c <= Len(d.sent) /\ c <= Len(d.queue) /\ \A k \in 1 .. c : Awaits(d, k)
  BY DEF Credited
<1>3. PICK lq \in Nat : Without(d.queue, e.queue, c, lq)
  <2>1. e.queue = SubSeq(d.queue, c + 1, Len(d.queue))
    BY DEF Credited
  <2> QED BY <1>1, <1>2, <2>1, SubSeqIs
<1>4. PICK ls \in Nat : Without(d.sent, e.sent, c, ls)
  <2>1. e.sent = SubSeq(d.sent, c + 1, Len(d.sent))
    BY DEF Credited
  <2> QED BY <1>1, <1>2, <2>1, SubSeqIs
<1>5. ASSUME NEW k \in 1 .. c PROVE d.sent[k] = d.queue[k] /\ k \in 1 .. lq + c /\ k \in 1 .. ls + c
  <2>1. \A j \in 1 .. k : j \in 1 .. c
    BY <1>2
  <2>2. k \in DOMAIN d.queue /\ k \in 1 .. lq + c /\ k \in 1 .. ls + c
    BY <1>2, <1>3 DEF Without
  <2> QED BY <1>1, <1>2, <2>1, <2>2 DEF SentInOrder
<1> QED BY <1>3, <1>4, <1>5

LEMMA CreditedKeeps ==
    ASSUME NEW d, NEW b \in Content, DeviceInv(d, b), d.active, NEW e, NEW c, Credited(d, e, b, c)
    PROVE  DeviceInv(e, b)
<1>1. d \in DeviceRecord /\ Fresh(d) /\ Leases(d) /\ Ordered(d) /\ SentInOrder(d, b) /\ ReadsInOrder(d) /\ Summed(d)
  BY DEF DeviceInv
<1>2. /\ d.queue \in Seq(Read) /\ d.sent \in Seq(Read) /\ d.durable \in Nat /\ d.summed \in Seq(Nat)
      /\ d.outstanding \in Seq(Read) /\ d.produced \in Nat
  BY <1>1 DEF DeviceRecord
<1>3. PICK lq \in Nat, ls \in Nat :
              /\ Without(d.queue, e.queue, c, lq) /\ Without(d.sent, e.sent, c, ls)
              /\ \A k \in 1 .. c : d.sent[k] = d.queue[k] /\ k \in 1 .. lq + c /\ k \in 1 .. ls + c
  BY CreditedFront
<1>4. /\ e \in DeviceRecord /\ c \in Nat
      /\ e.durable = d.durable + c
      /\ e.mode = d.mode /\ e.opening = d.opening /\ e.named = d.named /\ e.active = d.active
      /\ e.tombstone = d.tombstone /\ e.gen = d.gen /\ e.produced = d.produced
      /\ e.outstanding = d.outstanding /\ e.pending = d.pending /\ e.next = d.next /\ e.home = d.home
      /\ \A k \in 1 .. c : Awaits(d, k)
  BY DEF Credited
<1>5. PICK q : q = d.queue
  OBVIOUS
<1>6. PICK p : p = e.queue
  OBVIOUS
<1>7. PICK s : s = d.sent
  OBVIOUS
<1>8. PICK t : t = e.sent
  OBVIOUS
<1>9. /\ DOMAIN q = 1 .. lq + c /\ DOMAIN p = 1 .. lq /\ Len(q) = lq + c /\ Len(p) = lq
      /\ \A k \in 1 .. lq : k + c \in 1 .. lq + c /\ k + c > c /\ p[k] = q[k + c]
      /\ DOMAIN s = 1 .. ls + c /\ DOMAIN t = 1 .. ls /\ Len(s) = ls + c /\ Len(t) = ls
      /\ \A k \in 1 .. ls : k + c \in 1 .. ls + c /\ k + c > c /\ t[k] = s[k + c]
      /\ \A k \in 1 .. c : s[k] = q[k] /\ k \in 1 .. lq + c /\ k \in 1 .. ls + c
  BY <1>3, <1>5, <1>6, <1>7, <1>8 DEF Without
<1>10. /\ \A k \in 1 .. lq + c : q[k] \in Read /\ q[k].slot \in SlotIds
       /\ \A k \in 1 .. ls + c : s[k] \in Read /\ s[k].slot \in SlotIds /\ s[k].off \in Nat
  <2>1. /\ \A k \in 1 .. lq + c : q[k] \in Read
        /\ \A k \in 1 .. ls + c : s[k] \in Read
    BY <1>2, <1>5, <1>7, <1>9
  <2> QED BY <2>1 DEF Read
<1>11. /\ \A k \in 1 .. lq + c : q[k].off = d.durable + k - 1 /\ d.slots[q[k].slot] # "free"
       /\ \A j, k \in 1 .. lq + c : j # k => q[j].slot # q[k].slot
  <2>1. \A k \in DOMAIN d.queue :
             /\ d.queue[k].off = d.durable + k - 1 /\ d.slots[d.queue[k].slot] # "free"
             /\ \A j \in DOMAIN d.queue : j # k => d.queue[j].slot # d.queue[k].slot
    BY <1>1 DEF Ordered
  <2>2. DOMAIN d.queue = 1 .. lq + c /\ d.queue = q
    BY <1>5, <1>9
  <2> QED BY <2>1, <2>2
<1>12. \A x \in SlotIds : e.slots[x] = IF \E k \in 1 .. c : x = q[k].slot THEN "free" ELSE d.slots[x]
  <2>1. e.slots = [x \in SlotIds |-> IF \E k \in 1 .. c : x = d.queue[k].slot THEN "free" ELSE d.slots[x]]
    BY DEF Credited
  <2> QED BY <1>5, <2>1
<1>13. ASSUME NEW k \in 1 .. lq + c, k > c PROVE e.slots[q[k].slot] = d.slots[q[k].slot]
  <2>1. \A j \in 1 .. c : j \in 1 .. lq + c /\ j # k
    BY <1>4, <1>9, <1>13
  <2> QED BY <1>10, <1>11, <1>12, <2>1
<1>14. Fresh(e)
  <2>1. e.mode # "idle" /\ e.opening = 0
    BY <1>1, <1>4 DEF Fresh
  <2> QED BY <2>1 DEF Fresh
<1>15. Leases(e)
  BY <1>1, <1>4 DEF Leases
<1>16. Ordered(e)
  <2>1. d.produced = d.durable + (lq + c) /\ d.produced <= Chunks /\ lq + c <= Window
    BY <1>1, <1>5, <1>9 DEF Ordered
  <2>2. e.produced = e.durable + lq /\ e.produced <= Chunks /\ lq <= Window
    BY <1>2, <1>4, <2>1, ConstantsAssumption
  <2>3. ASSUME NEW k \in 1 .. lq
        PROVE  /\ p[k].off = e.durable + k - 1 /\ e.slots[p[k].slot] # "free"
               /\ \A j \in 1 .. lq : j # k => p[j].slot # p[k].slot
    <3>1. k + c \in 1 .. lq + c /\ k + c > c /\ p[k] = q[k + c]
      BY <1>9
    <3>2. p[k].off = e.durable + k - 1
      BY <1>2, <1>4, <1>11, <3>1, SMTT(30)
    <3>3. e.slots[p[k].slot] # "free"
      BY <1>11, <1>13, <3>1
    <3>4. ASSUME NEW j \in 1 .. lq, j # k PROVE p[j].slot # p[k].slot
      <4>1. j + c \in 1 .. lq + c /\ p[j] = q[j + c] /\ j + c # k + c
        BY <1>4, <1>9, <3>4
      <4> QED BY <1>11, <3>1, <4>1
    <3> QED BY <3>2, <3>3, <3>4
  <2>4. DOMAIN e.queue = 1 .. lq /\ e.queue = p /\ Len(e.queue) = lq /\ e.active
    BY <1>4, <1>6, <1>9
  <2> QED BY <2>2, <2>3, <2>4 DEF Ordered
<1>17. /\ \A k \in 1 .. ls + c : /\ \E j \in 1 .. lq + c : q[j] = s[k]
                                 /\ d.slots[s[k].slot] = "awaiting" /\ s[k].slot \in d.home
                                 /\ b[s[k].slot] = s[k].off + 1
                                 /\ \A j \in 1 .. ls + c : j < k => s[j].off < s[k].off
       /\ \A k \in 1 .. lq + c : d.slots[q[k].slot] = "awaiting" => \E j \in 1 .. ls + c : s[j] = q[k]
       /\ \A k \in 1 .. lq + c : (\A j \in 1 .. k : d.slots[q[j].slot] = "awaiting") => k <= ls + c /\ s[k] = q[k]
  <2>1. DOMAIN d.sent = 1 .. ls + c /\ d.sent = s /\ Len(d.sent) = ls + c /\ DOMAIN d.queue = 1 .. lq + c /\ d.queue = q
    BY <1>5, <1>7, <1>9
  <2>2. \A k \in DOMAIN d.sent :
          /\ \E j \in DOMAIN d.queue : d.queue[j] = d.sent[k]
          /\ d.slots[d.sent[k].slot] = "awaiting" /\ d.sent[k].slot \in d.home
          /\ b[d.sent[k].slot] = d.sent[k].off + 1
          /\ \A j \in DOMAIN d.sent : j < k => d.sent[j].off < d.sent[k].off
    BY <1>1 DEF SentInOrder
  <2>3. \A k \in DOMAIN d.queue : d.slots[d.queue[k].slot] = "awaiting" => \E j \in DOMAIN d.sent : d.sent[j] = d.queue[k]
    BY <1>1 DEF SentInOrder, Awaits
  <2>4. \A k \in DOMAIN d.queue :
          (\A j \in 1 .. k : d.slots[d.queue[j].slot] = "awaiting") => k <= Len(d.sent) /\ d.sent[k] = d.queue[k]
    BY <1>1 DEF SentInOrder, Awaits
  <2>6. \A k \in 1 .. ls + c : /\ \E j \in 1 .. lq + c : q[j] = s[k]
                           /\ d.slots[s[k].slot] = "awaiting" /\ s[k].slot \in d.home
                           /\ b[s[k].slot] = s[k].off + 1
                           /\ \A j \in 1 .. ls + c : j < k => s[j].off < s[k].off
    BY <2>1, <2>2
  <2>7. \A k \in 1 .. lq + c : d.slots[q[k].slot] = "awaiting" => \E j \in 1 .. ls + c : s[j] = q[k]
    BY <2>1, <2>3
  <2>8. \A k \in 1 .. lq + c : (\A j \in 1 .. k : d.slots[q[j].slot] = "awaiting") => k <= ls + c /\ s[k] = q[k]
    BY <2>1, <2>4
  <2> QED BY <2>6, <2>7, <2>8
<1>18. \A k \in 1 .. c : d.slots[q[k].slot] = "awaiting"
  BY <1>4, <1>5 DEF Awaits
<1>19. ASSUME NEW k \in 1 .. ls + c, NEW i \in 1 .. lq + c, k > c, q[i] = s[k] PROVE i > c
  <2> SUFFICES ASSUME i \in 1 .. c PROVE FALSE
    BY <1>4
  <2>1. s[i] = q[i] /\ i \in 1 .. ls + c /\ i < k
    BY <1>4, <1>9, <1>19
  <2>2. s[i].off < s[k].off
    BY <1>17, <2>1
  <2> QED BY <1>10, <1>19, <2>1, <2>2
<1>20. ASSUME NEW k \in 1 .. ls
       PROVE  /\ \E j \in 1 .. lq : p[j] = t[k]
              /\ e.slots[t[k].slot] = "awaiting" /\ t[k].slot \in d.home /\ b[t[k].slot] = t[k].off + 1
              /\ \A j \in 1 .. ls : j < k => t[j].off < t[k].off
  <2>1. k + c \in 1 .. ls + c /\ k + c > c /\ t[k] = s[k + c]
    BY <1>9
  <2>2. PICK i \in 1 .. lq + c : q[i] = s[k + c]
    BY <1>17, <2>1
  <2>3. i > c
    BY <1>19, <2>1, <2>2
  <2>4. i - c \in 1 .. lq /\ (i - c) + c = i
    BY <1>4, <2>3
  <2>5. p[i - c] = t[k]
    <3>1. p[i - c] = q[(i - c) + c]
      BY <1>9, <2>4
    <3> QED BY <2>1, <2>2, <2>4, <3>1
  <2>6. e.slots[t[k].slot] = "awaiting"
    BY <1>13, <1>17, <2>1, <2>2, <2>3
  <2>7. ASSUME NEW j \in 1 .. ls, j < k PROVE t[j].off < t[k].off
    <3>1. j + c \in 1 .. ls + c /\ t[j] = s[j + c] /\ j + c < k + c
      BY <1>4, <1>9, <2>7
    <3> QED BY <1>17, <2>1, <3>1
  <2> QED BY <1>17, <2>1, <2>4, <2>5, <2>6, <2>7
<1>21. \A k \in 1 .. lq : e.slots[p[k].slot] = d.slots[q[k + c].slot]
  BY <1>9, <1>13
<1>22. ASSUME NEW k \in 1 .. lq, e.slots[p[k].slot] = "awaiting"
       PROVE  \E j \in 1 .. ls : t[j] = p[k]
  <2>1. k + c \in 1 .. lq + c /\ k + c > c /\ p[k] = q[k + c] /\ d.slots[q[k + c].slot] = "awaiting"
    BY <1>9, <1>21, <1>22
  <2>2. PICK j \in 1 .. ls + c : s[j] = q[k + c]
    BY <1>17, <2>1
  <2>3. ~(j \in 1 .. c)
    <3> SUFFICES ASSUME j \in 1 .. c PROVE FALSE
      OBVIOUS
    <3>1. s[j] = q[j] /\ j \in 1 .. lq + c /\ j # k + c
      BY <1>4, <1>9, <2>1
    <3>2. q[j].slot # q[k + c].slot
      BY <1>11, <2>1, <3>1
    <3> QED BY <2>2, <3>1, <3>2
  <2>4. j - c \in 1 .. ls /\ (j - c) + c = j
    BY <1>4, <2>3
  <2>5. t[j - c] = s[(j - c) + c]
    BY <1>9, <2>4
  <2> QED BY <2>1, <2>2, <2>4, <2>5
<1>23. ASSUME NEW k \in 1 .. lq, \A j \in 1 .. k : e.slots[p[j].slot] = "awaiting"
       PROVE  k <= ls /\ t[k] = p[k]
  <2>1. k + c \in 1 .. lq + c /\ p[k] = q[k + c]
    BY <1>9
  <2>2. ASSUME NEW j \in 1 .. k + c PROVE d.slots[q[j].slot] = "awaiting"
    <3>1. CASE j <= c
      <4>1. j \in 1 .. c
        BY <3>1
      <4> QED BY <1>18, <4>1
    <3>2. CASE j > c
      <4>1. j - c \in 1 .. k /\ (j - c) + c = j /\ j - c \in 1 .. lq
        BY <1>4, <3>2
      <4>2. e.slots[p[j - c].slot] = d.slots[q[(j - c) + c].slot]
        BY <1>21, <4>1
      <4> QED BY <1>23, <4>1, <4>2
    <3> QED BY <1>4, <3>1, <3>2
  <2>3. k + c <= ls + c /\ s[k + c] = q[k + c]
    BY <1>17, <2>1, <2>2
  <2>4. k \in 1 .. ls
    BY <1>4, <2>3
  <2> QED BY <1>9, <2>1, <2>3, <2>4
<1>24. SentInOrder(e, b)
  <2>1. DOMAIN e.sent = 1 .. ls /\ e.sent = t /\ Len(e.sent) = ls /\ DOMAIN e.queue = 1 .. lq /\ e.queue = p /\ e.home = d.home
    BY <1>4, <1>6, <1>8, <1>9
  <2>2. \A k \in DOMAIN e.sent :
          /\ \E j \in DOMAIN e.queue : e.queue[j] = e.sent[k]
          /\ e.slots[e.sent[k].slot] = "awaiting" /\ e.sent[k].slot \in e.home
          /\ b[e.sent[k].slot] = e.sent[k].off + 1
          /\ \A j \in DOMAIN e.sent : j < k => e.sent[j].off < e.sent[k].off
    BY <1>20, <2>1
  <2>3. \A k \in DOMAIN e.queue : Awaits(e, k) => \E j \in DOMAIN e.sent : e.sent[j] = e.queue[k]
    BY <1>22, <2>1 DEF Awaits
  <2>4. \A k \in DOMAIN e.queue :
          (\A j \in 1 .. k : Awaits(e, j)) => k <= Len(e.sent) /\ e.sent[k] = e.queue[k]
    <3> SUFFICES ASSUME NEW k \in DOMAIN e.queue, \A j \in 1 .. k : Awaits(e, j)
                 PROVE  k <= Len(e.sent) /\ e.sent[k] = e.queue[k]
      OBVIOUS
    <3>1. \A j \in 1 .. k : e.slots[p[j].slot] = "awaiting"
      BY <2>1 DEF Awaits
    <3> QED BY <1>23, <2>1, <3>1
  <2> QED BY <2>2, <2>3, <2>4 DEF SentInOrder
<1>25. ASSUME NEW k \in DOMAIN d.outstanding, d.outstanding[k].gen = d.gen
       PROVE  /\ \E j \in 1 .. lq : p[j] = d.outstanding[k]
              /\ e.slots[d.outstanding[k].slot] = "owned"
              /\ \A j \in 1 .. ls : t[j].off < d.outstanding[k].off
              /\ \A j \in DOMAIN d.outstanding :
                    j < k /\ d.outstanding[j].gen = d.gen => d.outstanding[j].off < d.outstanding[k].off
  <2>1. /\ \E j \in DOMAIN d.queue : d.queue[j] = d.outstanding[k]
        /\ d.slots[d.outstanding[k].slot] = "owned"
        /\ \A j \in DOMAIN d.sent : d.sent[j].off < d.outstanding[k].off
        /\ \A j \in DOMAIN d.outstanding :
              j < k /\ d.outstanding[j].gen = d.gen => d.outstanding[j].off < d.outstanding[k].off
    BY <1>1, <1>25 DEF ReadsInOrder
  <2>2. PICK i \in 1 .. lq + c : q[i] = d.outstanding[k]
    BY <1>5, <1>9, <2>1
  <2>3. ~(i \in 1 .. c)
    <3> SUFFICES ASSUME i \in 1 .. c PROVE FALSE
      OBVIOUS
    <3>1. d.slots[q[i].slot] = "awaiting"
      BY <1>18
    <3> QED BY <2>1, <2>2, <3>1
  <2>4. i - c \in 1 .. lq /\ (i - c) + c = i /\ i > c
    BY <1>4, <2>3
  <2>5. p[i - c] = q[(i - c) + c]
    BY <1>9, <2>4
  <2>6. e.slots[d.outstanding[k].slot] = "owned"
    BY <1>13, <2>1, <2>2, <2>4
  <2>7. \A j \in 1 .. ls : t[j].off < d.outstanding[k].off
    BY <1>7, <1>9, <2>1
  <2> QED BY <2>1, <2>2, <2>4, <2>5, <2>6, <2>7
<1>26. ReadsInOrder(e)
  <2>1. DOMAIN e.sent = 1 .. ls /\ e.sent = t /\ DOMAIN e.queue = 1 .. lq /\ e.queue = p
    BY <1>6, <1>8, <1>9
  <2> QED BY <1>4, <1>25, <2>1 DEF ReadsInOrder
<1>27. Summed(e)
  <2>1. PICK read : read = [k \in 1 .. c |-> b[d.sent[k].slot]]
    OBVIOUS
  <2>2. \A k \in 1 .. c : b[s[k].slot] \in Nat /\ b[s[k].slot] = d.durable + k
    <3> TAKE k \in 1 .. c
    <3>1. k \in 1 .. ls + c /\ k \in 1 .. lq + c /\ s[k] = q[k] /\ s[k].slot \in SlotIds
      BY <1>9, <1>10
    <3>2. b[s[k].slot] = s[k].off + 1 /\ q[k].off = d.durable + k - 1
      BY <1>11, <1>17, <3>1
    <3>3. k \in Nat
      BY <1>4
    <3> QED BY <1>2, <3>1, <3>2, <3>3
  <2>3. /\ read \in Seq(Nat) /\ Len(read) = c
        /\ \A k \in 1 .. c : read[k] = d.durable + k
    BY <1>4, <1>7, <2>1, <2>2
  <2>4. /\ Len(d.summed \o read) = Len(d.summed) + Len(read)
        /\ \A i \in 1 .. Len(d.summed) + Len(read) :
              (d.summed \o read)[i] = IF i <= Len(d.summed) THEN d.summed[i] ELSE read[i - Len(d.summed)]
    <3>1. PICK x \in Seq(Nat) : x = d.summed
      BY <1>2
    <3>2. PICK y \in Seq(Nat) : y = read
      BY <2>3
    <3>3. /\ Len(x \o y) = Len(x) + Len(y)
          /\ \A i \in 1 .. Len(x) + Len(y) : (x \o y)[i] = IF i <= Len(x) THEN x[i] ELSE y[i - Len(x)]
      BY ConcatType
    <3> QED BY <3>1, <3>2, <3>3
  <2>5. Len(d.summed) = d.durable /\ \A k \in 1 .. d.durable : d.summed[k] = k
    BY <1>1 DEF Summed
  <2>6. e.summed = d.summed \o read /\ Len(e.summed) = d.durable + c
    BY <2>1, <2>3, <2>4, <2>5 DEF Credited
  <2>7. ASSUME NEW i \in 1 .. d.durable + c PROVE e.summed[i] = i
    <3>1. e.summed[i] = IF i <= d.durable THEN d.summed[i] ELSE read[i - d.durable]
      BY <2>3, <2>4, <2>5, <2>6
    <3>2. CASE i <= d.durable
      <4>1. i \in 1 .. d.durable
        BY <3>2
      <4> QED BY <2>5, <3>1, <3>2, <4>1
    <3>3. CASE ~(i <= d.durable)
      <4>1. i - d.durable \in 1 .. c /\ d.durable + (i - d.durable) = i
        BY <1>2, <1>4, <3>3
      <4> QED BY <2>3, <3>1, <3>3, <4>1
    <3> QED BY <3>2, <3>3
  <2> QED BY <1>4, <2>6, <2>7 DEF Summed
<1> QED BY <1>4, <1>14, <1>15, <1>16, <1>24, <1>26, <1>27 DEF DeviceInv

(***************************************************************************)
(* The handlers of the device.                                             *)
(***************************************************************************)
(* r is what a handler makes of the device d.  No more than low chunks are *)
(* durable after it that were not durable before, and of a stream that it  *)
(* opens none is.                                                          *)
Handled(d, r, b, ms, as, low) ==
    /\ DeviceInv(r.device, b) /\ Flight(r.device, b, ms \o r.requests, as) /\ Honest(r.frames)
    /\ r.device.durable <= low \/ (r.device.durable = d.durable /\ (r.device.active => d.active))
    /\ Opened(r.frames) => r.device.durable = 0

LEMMA NoFrame == Honest(<<>>) /\ ~Opened(<<>>)
BY DEF Honest, Opened

LEMMA OneFrame ==
    ASSUME NEW f \in FrameType, f.op = "data" => f.data = f.off + 1
    PROVE  Honest(<<f>>) /\ (Opened(<<f>>) => f.op = "open" /\ f.ok)
<1>1. <<f>> \in Seq(FrameType) /\ DOMAIN <<f>> = {1} /\ <<f>>[1] = f
  OBVIOUS
<1> QED BY <1>1 DEF Honest, Opened

LEMMA FrameIs ==
    ASSUME NEW op \in {"open", "credit", "status", "finish", "abort", "data", "read"}, NEW seq \in Nat,
           NEW ok \in BOOLEAN, NEW off \in Nat, NEW data \in Nat, NEW crc \in Seq(Nat)
    PROVE  /\ Frame(op, seq, ok, off, data, crc) \in FrameType
           /\ LET f == Frame(op, seq, ok, off, data, crc) IN
              f.op = op /\ f.seq = seq /\ f.ok = ok /\ f.off = off /\ f.data = data /\ f.crc = crc
BY DEF Frame, FrameType

LEMMA BadRequestIs ==
    ASSUME NEW op \in {"open", "credit", "status", "finish", "abort"}, NEW seq \in Nat
    PROVE  Honest(<<BadRequest(op, seq)>>) /\ ~Opened(<<BadRequest(op, seq)>>)
<1>1. <<>> \in Seq(Nat)
  OBVIOUS
<1>2. PICK f : f = BadRequest(op, seq)
  OBVIOUS
<1>3. f \in FrameType /\ f.op = op /\ f.ok = FALSE
  BY <1>1, <1>2 DEF BadRequest, Frame, FrameType
<1>4. Honest(<<f>>) /\ ~Opened(<<f>>)
  BY <1>3, OneFrame
<1> QED BY <1>2, <1>4

LEMMA NoRequest ==
    ASSUME NEW d, NEW b, NEW ms, NEW as, Flight(d, b, ms, as)
    PROVE  Flight(d, b, ms \o <<>>, as)
<1>1. ms \o <<>> = ms
  BY DEF Flight
<1> QED BY <1>1

(* A handler that asks the owner for nothing.                              *)
LEMMA Quietly ==
    ASSUME NEW d, NEW e, NEW b, NEW ms, NEW as, NEW frames, NEW low, DeviceInv(e, b), Flight(e, b, ms, as),
           Honest(frames), Opened(frames) => e.durable = 0,
           e.durable <= low \/ (e.durable = d.durable /\ (e.active => d.active))
    PROVE  Handled(d, Result(e, frames, <<>>), b, ms, as, low)
BY NoRequest DEF Handled, Result

LEMMA OpenHandled ==
    ASSUME NEW d, NEW b, NEW ms, NEW as, DeviceInv(d, b), Flight(d, b, ms, as),
           NEW f \in MessageType, f.seq # 0
    PROVE  Handled(d, Open(d, f), b, ms, as, 0)
<1>1. d \in DeviceRecord /\ Fresh(d) /\ f.seq \in Nat
  BY DEF DeviceInv, MessageType
<1>2. CASE d.mode = "idle"
  <2>1. PICK e : e = [Opening(f.seq) EXCEPT !.armed = d.armed]
    OBVIOUS
  <2>2. d.armed \in BOOLEAN /\ Opening(f.seq) \in DeviceRecord
    BY <1>1, OpeningType DEF DeviceRecord
  <2>3. /\ e \in DeviceRecord
        /\ e.mode = "readback" /\ e.pending = {1} /\ e.opening = f.seq /\ ~e.named /\ ~e.active /\ ~e.tombstone
        /\ e.gen = 0 /\ e.queue = <<>> /\ e.sent = <<>> /\ e.outstanding = <<>> /\ e.summed = <<>>
        /\ e.produced = 0 /\ e.durable = 0 /\ e.next = 2 /\ e.home = SlotIds
        /\ \A s \in SlotIds : e.slots[s] = "free"
    <3>1. e \in DeviceRecord
      BY <2>1, <2>2 DEF DeviceRecord
    <3> QED BY <2>1, <3>1 DEF Opening
  <2>4. Fresh(e)
    BY <2>3 DEF Fresh
  <2>5. DeviceInv(e, b)
    BY <2>3, <2>4, FreshKeeps
  <2>6. PICK m : m = Request("bulk", 1, 0, None)
    OBVIOUS
  <2>7. m \in MailType /\ m.by = "bulk" /\ m.seq = 1 /\ m.lease = None
    BY <2>6 DEF Request, MailType, None
  <2>8. Flight(e, b, ms \o <<m>>, as)
    <3>1. d.pending = {}
      BY <1>1, <1>2 DEF Fresh
    <3>2. ms \in Seq(MailType) /\ as \in Seq(AnswerType)
      BY DEF Flight
    <3>3. PICK lm \in Nat : lm = Len(ms) /\ DOMAIN ms = 1 .. lm
      BY <3>2
    <3>4. /\ \A k \in 1 .. lm : ms[k].by # "bulk" /\ Asked(d, ms[k])
          /\ \A k \in DOMAIN as : as[k].by # "bulk" /\ Asked(d, as[k])
      BY <3>1, <3>3 DEF Flight, Asked
    <3>5. /\ \A k \in 1 .. lm : Asked(e, ms[k])
          /\ \A k \in DOMAIN as : Asked(e, as[k]) /\ Filled(e, b, as[k])
      BY <3>4 DEF Asked, Filled
    <3>6. PICK t : t = ms \o <<m>>
      OBVIOUS
    <3>7. /\ t \in Seq(MailType) /\ DOMAIN t = 1 .. lm + 1 /\ t[lm + 1] = m
          /\ \A k \in 1 .. lm : t[k] = ms[k]
      <4>1. <<m>> \in Seq(MailType) /\ Len(<<m>>) = 1 /\ <<m>>[1] = m
        BY <2>7
      <4>2. /\ t \in Seq(MailType) /\ Len(t) = lm + 1
            /\ \A k \in 1 .. lm + 1 : t[k] = IF k <= lm THEN ms[k] ELSE <<m>>[k - lm]
        BY <3>2, <3>3, <3>6, <4>1, ConcatType
      <4>3. /\ lm + 1 \in 1 .. lm + 1 /\ ~(lm + 1 <= lm) /\ (lm + 1) - lm = 1
            /\ \A k \in 1 .. lm : k \in 1 .. lm + 1 /\ k <= lm
        OBVIOUS
      <4>4. t[lm + 1] = m
        BY <4>1, <4>2, <4>3
      <4>5. DOMAIN t = 1 .. lm + 1
        BY <4>2
      <4> QED BY <4>2, <4>3, <4>4, <4>5
    <3>8. Asked(e, m) /\ m.by = "bulk"
      BY <2>3, <2>7 DEF Asked
    <3>9. ASSUME NEW k \in 1 .. lm + 1
          PROVE  /\ Asked(e, t[k]) /\ (k \in 1 .. lm => t[k].by # "bulk") /\ (k \in 1 .. lm \/ k = lm + 1)
                 /\ \A j \in DOMAIN as : ~Same(as[j], t[k])
      <4>1. k \in 1 .. lm \/ k = lm + 1
        OBVIOUS
      <4> QED BY <3>4, <3>5, <3>7, <3>8, <4>1 DEF Same
    <3>10. \A j, k \in 1 .. lm + 1 : j # k => ~Same(t[j], t[k])
      BY <3>9 DEF Same
    <3>11. \A j, k \in DOMAIN as : ~Same(as[j], as[k])
      BY <3>4 DEF Same
    <3>12. DOMAIN e.outstanding = {}
      BY <2>3
    <3>13. Flight(e, b, t, as)
      BY <3>2, <3>5, <3>7, <3>9, <3>10, <3>11, <3>12 DEF Flight
    <3> QED BY <3>6, <3>13
  <2>9. Open(d, f) = Result(e, <<>>, <<m>>)
    BY <1>2, <2>1, <2>6 DEF Open
  <2> QED BY <2>3, <2>5, <2>8, <2>9, NoFrame DEF Handled, Result
<1>3. CASE d.mode # "idle"
  <2>1. Open(d, f) = Result(d, <<BadRequest("open", f.seq)>>, <<>>)
    BY <1>3 DEF Open
  <2> QED BY <1>1, <2>1, BadRequestIs, Quietly
<1> QED BY <1>2, <1>3

LEMMA AcceptedHandled ==
    ASSUME NEW d, NEW e, NEW b, NEW ms, NEW as, NEW frames, NEW low, DeviceInv(e, b), Flight(e, b, ms, as),
           Honest(frames), ~Opened(frames),
           e.durable <= low \/ (e.durable = d.durable /\ (e.active => d.active))
    PROVE  Handled(d, Accepted(e, frames), b, ms, as, low)
<1>1. PICK g : g = [e EXCEPT !.armed = @ /\ e.mode # "idle"]
  OBVIOUS
<1>2. e \in DeviceRecord /\ e.armed \in BOOLEAN
  BY DEF DeviceInv, DeviceRecord
<1>3. /\ g \in DeviceRecord
      /\ g.mode = e.mode /\ g.opening = e.opening /\ g.named = e.named /\ g.active = e.active
      /\ g.tombstone = e.tombstone /\ g.gen = e.gen /\ g.slots = e.slots /\ g.queue = e.queue
      /\ g.produced = e.produced /\ g.durable = e.durable /\ g.summed = e.summed /\ g.sent = e.sent
      /\ g.outstanding = e.outstanding /\ g.pending = e.pending /\ g.next = e.next /\ g.home = e.home
  BY <1>1, <1>2 DEF DeviceRecord
<1>4. ~g.active => g.queue = <<>>
  BY <1>3 DEF DeviceInv, Ordered
<1>5. DeviceInv(g, b) /\ Flight(g, b, ms, as)
  BY <1>3, <1>4, FlagsKeep, FlightAlike
<1>6. Accepted(e, frames) = Result(g, frames, <<>>)
  BY <1>1 DEF Accepted
<1> QED BY <1>3, <1>5, <1>6, Quietly

LEMMA CreditHandled ==
    ASSUME NEW d, DeviceInv(d, bytes), bytes \in Content, Flight(d, bytes, mail, answers), NEW f \in MessageType
    PROVE  Handled(d, Credit(d, f), bytes, mail, answers, IF d.active THEN f.off ELSE 0)
<1>1. d \in DeviceRecord /\ Ordered(d)
  BY DEF DeviceInv
<1>2. CASE ~Creditable(d, f)
  <2>1. Credit(d, f) = Result(d, <<BadRequest("credit", 0)>>, <<>>)
    BY <1>2 DEF Credit
  <2> QED BY <2>1, BadRequestIs, Quietly
<1>3. CASE Creditable(d, f)
  <2>1. PICK c : c = f.credits
    OBVIOUS
  <2>2. d.queue \in Seq(Read) /\ d.sent \in Seq(Read) /\ d.summed \in Seq(Nat) /\ d.durable \in Nat
        /\ d.slots \in [SlotIds -> {"free", "owned", "awaiting"}]
    BY <1>1 DEF DeviceRecord
  <2>3. /\ c \in Nat /\ c >= 1 /\ c <= Len(d.sent) /\ c <= Len(d.queue)
        /\ \A k \in 1 .. c : Awaits(d, k)
        /\ f.off = d.queue[c].off + 1 /\ d.active
    <3>1. Len(d.sent) \in Nat /\ Len(d.queue) \in Nat /\ Window \in Nat
      BY <2>2, ConstantsAssumption
    <3>2. {Len(d.sent), Len(d.queue), Window} \in SUBSET Nat /\ {Len(d.sent), Len(d.queue), Window} # {}
      BY <3>1
    <3>3. PICK m : m = Min({Len(d.sent), Len(d.queue), Window})
      OBVIOUS
    <3>4. m \in Nat /\ m <= Len(d.sent) /\ m <= Len(d.queue)
      BY <3>2, <3>3, MinIsLeast
    <3>5. c \in 1 .. m
      BY <1>3, <2>1, <3>3 DEF Creditable
    <3>6. c \in Nat /\ c >= 1 /\ c <= Len(d.sent) /\ c <= Len(d.queue)
      BY <3>1, <3>4, <3>5
    <3> QED BY <1>3, <2>1, <3>6 DEF Creditable, Awaits
  <2>4. PICK slots : slots = [s \in SlotIds |-> IF \E k \in 1 .. c : s = d.queue[k].slot THEN "free" ELSE d.slots[s]]
    OBVIOUS
  <2>5. PICK read : read = [k \in 1 .. c |-> bytes[d.sent[k].slot]]
    OBVIOUS
  <2>6. PICK acked : acked = {d.queue[k].slot : k \in 1 .. c}
    OBVIOUS
  <2>7. slots = [s \in SlotIds |-> IF s \in acked THEN "free" ELSE d.slots[s]]
    BY <2>4, <2>6
  <2>8. PICK e : e = [d EXCEPT !.slots = slots, !.summed = @ \o read, !.durable = f.off,
                               !.queue = SubSeq(@, c + 1, Len(@)), !.sent = SubSeq(@, c + 1, Len(@))]
    OBVIOUS
  <2>9. Credit(d, f) = Fill(e, <<>>)
    BY <1>3, <2>1, <2>5, <2>6, <2>7, <2>8 DEF Credit
  <2>10. f.off = d.durable + c
    <3>1. c \in DOMAIN d.queue
      BY <2>2, <2>3
    <3>2. d.queue[c].off = d.durable + c - 1
      BY <1>1, <3>1 DEF Ordered
    <3> QED BY <2>2, <2>3, <3>2
  <2>11. slots \in [SlotIds -> {"free", "owned", "awaiting"}]
    <3>1. \A s \in SlotIds : (IF s \in acked THEN "free" ELSE d.slots[s]) \in {"free", "owned", "awaiting"}
      BY <2>2
    <3> QED BY <2>7, <3>1
  <2>12. d.summed \o read \in Seq(Nat)
    <3>1. \A k \in 1 .. c : bytes[d.sent[k].slot] \in Nat
      <4> TAKE k \in 1 .. c
      <4>1. k \in 1 .. Len(d.sent)
        BY <2>2, <2>3
      <4>2. d.sent[k] \in Read
        BY <2>2, <4>1
      <4> QED BY <4>2 DEF Read, Content
    <3>2. read \in Seq(Nat)
      BY <2>3, <2>5, <3>1
    <3> QED BY <2>2, <3>2, ConcatType
  <2>13. SubSeq(d.queue, c + 1, Len(d.queue)) \in Seq(Read) /\ SubSeq(d.sent, c + 1, Len(d.sent)) \in Seq(Read)
    BY <2>2, <2>3, SubSeqIs
  <2>14. e \in DeviceRecord /\ f.off \in Nat
    BY <1>1, <2>8, <2>11, <2>12, <2>13 DEF DeviceRecord, MessageType
  <2>15. Credited(d, e, bytes, c)
    <3>1. /\ e.slots = slots /\ e.summed = d.summed \o read /\ e.durable = f.off
          /\ e.queue = SubSeq(d.queue, c + 1, Len(d.queue)) /\ e.sent = SubSeq(d.sent, c + 1, Len(d.sent))
          /\ e.mode = d.mode /\ e.opening = d.opening /\ e.named = d.named /\ e.active = d.active
          /\ e.tombstone = d.tombstone /\ e.gen = d.gen /\ e.produced = d.produced
          /\ e.outstanding = d.outstanding /\ e.pending = d.pending /\ e.next = d.next /\ e.home = d.home
      BY <1>1, <2>8 DEF DeviceRecord
    <3> QED BY <2>3, <2>4, <2>5, <2>10, <2>14, <3>1 DEF Credited
  <2>16. DeviceInv(e, bytes)
    BY <2>3, <2>15, CreditedKeeps
  <2>17. Flight(e, bytes, mail, answers)
    BY <2>15, FlightAlike DEF Credited
  <2>18. PICK r : r = Fill(e, <<>>)
    OBVIOUS
  <2>19. /\ DeviceInv(r.device, bytes) /\ Flight(r.device, bytes, mail \o r.requests, answers)
         /\ r.frames = <<>> /\ r.device.durable = e.durable
    BY <2>16, <2>17, <2>18, FillKeeps
  <2>20. r.device.durable <= f.off
    BY <2>10, <2>14, <2>15, <2>19 DEF Credited
  <2> QED BY <2>3, <2>9, <2>18, <2>19, <2>20, NoFrame DEF Handled
<1> QED BY <1>2, <1>3

(* What a barrier or an abort makes of an active stream.                   *)
LEMMA InvalidatedIs ==
    ASSUME NEW d \in DeviceRecord
    PROVE  LET e == Invalidated(d) IN
           /\ e \in DeviceRecord
           /\ e.mode = d.mode /\ e.opening = d.opening /\ e.gen = d.gen + 1
           /\ e.queue = <<>> /\ e.sent = <<>> /\ e.durable = d.durable /\ e.summed = d.summed
           /\ e.outstanding = d.outstanding /\ e.pending = d.pending /\ e.next = d.next /\ e.home = d.home
           /\ e.active = d.active /\ e.produced = d.produced /\ e.armed = d.armed
<1>1. d.gen + 1 \in Nat /\ <<>> \in Seq(Read) /\ [s \in SlotIds |-> "free"] \in [SlotIds -> {"free", "owned", "awaiting"}]
  BY DEF DeviceRecord
<1> QED BY <1>1 DEF Invalidated, DeviceRecord

LEMMA AbortedKeeps ==
    ASSUME NEW d, NEW b, NEW ms, NEW as, DeviceInv(d, b), Flight(d, b, ms, as), d.active
    PROVE  /\ DeviceInv(Aborted(d), b) /\ Flight(Aborted(d), b, ms, as)
           /\ ~Aborted(d).active /\ Aborted(d).durable \in {0, d.durable}
<1>1. d \in DeviceRecord
  BY DEF DeviceInv
<1>2. PICK i : i = Invalidated(d)
  OBVIOUS
<1>3. /\ i \in DeviceRecord
      /\ i.mode = d.mode /\ i.opening = d.opening /\ i.gen = d.gen + 1
      /\ i.queue = <<>> /\ i.sent = <<>> /\ i.durable = d.durable /\ i.summed = d.summed
      /\ i.outstanding = d.outstanding /\ i.pending = d.pending /\ i.next = d.next /\ i.home = d.home
      /\ i.produced = d.produced
  BY <1>1, <1>2, InvalidatedIs
<1>4. PICK e : e = [i EXCEPT !.active = FALSE, !.named = FALSE, !.tombstone = TRUE]
  OBVIOUS
<1>5. /\ e \in DeviceRecord /\ ~e.active
      /\ e.mode = d.mode /\ e.opening = d.opening /\ e.gen = d.gen + 1
      /\ e.queue = <<>> /\ e.sent = <<>> /\ e.durable = d.durable /\ e.summed = d.summed
      /\ e.outstanding = d.outstanding /\ e.pending = d.pending /\ e.next = d.next /\ e.home = d.home
      /\ e.produced = d.produced
  BY <1>3, <1>4 DEF DeviceRecord
<1>6. DeviceInv(e, b)
  BY <1>5, InvalidatedKeeps
<1>7. Flight(e, b, ms, as)
  BY <1>5, FlightAlike
<1>8. Aborted(d) = Release(e)
  BY <1>2, <1>4 DEF Aborted
<1>9. PICK g : g = Release(e)
  OBVIOUS
<1>10. DeviceInv(g, b) /\ Flight(g, b, ms, as) /\ (g.active => e.active) /\ g.durable \in {0, e.durable}
  BY <1>6, <1>7, <1>9, ReleaseKeeps
<1> QED BY <1>5, <1>8, <1>9, <1>10

(* The tombstone of a stream that is over answers once more.               *)
LEMMA BuriedKeeps ==
    ASSUME NEW d, NEW b, NEW ms, NEW as, DeviceInv(d, b), Flight(d, b, ms, as), ~d.active, NEW e,
           e = Release([d EXCEPT !.named = FALSE, !.sent = <<>>])
    PROVE  DeviceInv(e, b) /\ Flight(e, b, ms, as) /\ ~e.active /\ e.durable \in {0, d.durable}
<1>1. d \in DeviceRecord /\ d.sent = <<>> /\ d.queue = <<>>
  BY DEF DeviceInv, Ordered
<1>2. PICK g : g = [d EXCEPT !.named = FALSE, !.sent = <<>>]
  OBVIOUS
<1>3. <<>> \in Seq(Read)
  OBVIOUS
<1>4. /\ g \in DeviceRecord /\ ~g.named /\ g.sent = d.sent
      /\ g.mode = d.mode /\ g.opening = d.opening /\ g.active = d.active
      /\ g.tombstone = d.tombstone /\ g.gen = d.gen /\ g.slots = d.slots /\ g.queue = d.queue
      /\ g.produced = d.produced /\ g.durable = d.durable /\ g.summed = d.summed
      /\ g.outstanding = d.outstanding /\ g.pending = d.pending /\ g.next = d.next /\ g.home = d.home
  BY <1>1, <1>2, <1>3 DEF DeviceRecord
<1>5. DeviceInv(g, b) /\ Flight(g, b, ms, as)
  BY <1>1, <1>4, FlagsKeep, FlightAlike
<1>6. e = Release(g)
  BY <1>2
<1>7. PICK h : h = Release(g)
  OBVIOUS
<1>8. DeviceInv(h, b) /\ Flight(h, b, ms, as) /\ (h.active => g.active) /\ h.durable \in {0, g.durable}
  BY <1>5, <1>7, ReleaseKeeps
<1> QED BY <1>4, <1>6, <1>7, <1>8

(* An active stream is aborted, another one is forgotten.                  *)
LEMMA EndedKeeps ==
    ASSUME NEW d, NEW b, NEW ms, NEW as, DeviceInv(d, b), Flight(d, b, ms, as), NEW e,
           e = IF d.active THEN Aborted(d) ELSE Release([d EXCEPT !.named = FALSE, !.sent = <<>>])
    PROVE  DeviceInv(e, b) /\ Flight(e, b, ms, as) /\ ~e.active /\ e.durable \in {0, d.durable}
<1>1. CASE d.active
  BY <1>1, AbortedKeeps
<1>2. CASE ~d.active
  <2>1. e = Release([d EXCEPT !.named = FALSE, !.sent = <<>>])
    BY <1>2
  <2> QED BY <1>2, <2>1, BuriedKeeps
<1> QED BY <1>1, <1>2

LEMMA StatusHandled ==
    ASSUME NEW d, NEW b, NEW ms, NEW as, DeviceInv(d, b), Flight(d, b, ms, as), NEW f \in MessageType
    PROVE  Handled(d, Status(d, f), b, ms, as, 0)
<1>1. d \in DeviceRecord /\ f.seq \in Nat /\ d.durable \in Nat /\ d.summed \in Seq(Nat)
  BY DEF DeviceInv, MessageType, DeviceRecord
<1>2. CASE d.mode = "readback" /\ d.active
  <2>1. PICK i : i = Invalidated(d)
    OBVIOUS
  <2>2. /\ i \in DeviceRecord
        /\ i.mode = d.mode /\ i.opening = d.opening /\ i.gen = d.gen + 1
        /\ i.queue = <<>> /\ i.sent = <<>> /\ i.durable = d.durable /\ i.summed = d.summed
        /\ i.outstanding = d.outstanding /\ i.pending = d.pending /\ i.next = d.next /\ i.home = d.home
        /\ i.active = d.active
    BY <1>1, <2>1, InvalidatedIs
  <2>3. PICK e : e = [i EXCEPT !.produced = d.durable]
    OBVIOUS
  <2>4. /\ e \in DeviceRecord /\ e.active /\ e.produced = d.durable
        /\ e.mode = d.mode /\ e.opening = d.opening /\ e.gen = d.gen + 1
        /\ e.queue = <<>> /\ e.sent = <<>> /\ e.durable = d.durable /\ e.summed = d.summed
        /\ e.outstanding = d.outstanding /\ e.pending = d.pending /\ e.next = d.next /\ e.home = d.home
    BY <1>1, <1>2, <2>2, <2>3 DEF DeviceRecord
  <2>5. DeviceInv(e, b)
    BY <1>2, <2>4, InvalidatedKeeps
  <2>6. Flight(e, b, ms, as)
    BY <2>4, FlightAlike
  <2>7. PICK g : g = Frame("status", f.seq, TRUE, e.durable, Window, e.summed)
    OBVIOUS
  <2>8. Honest(<<g>>) /\ ~Opened(<<g>>)
    <3>1. Window \in Nat /\ e.durable \in Nat /\ e.summed \in Seq(Nat)
      BY <1>1, <2>4, ConstantsAssumption
    <3>2. g \in FrameType /\ g.op = "status"
      BY <1>1, <2>7, <3>1 DEF Frame, FrameType
    <3> QED BY <3>2, OneFrame
  <2>9. Status(d, f) = Accepted(e, <<g>>)
    BY <1>2, <2>1, <2>3, <2>7 DEF Status
  <2> QED BY <1>2, <2>4, <2>5, <2>6, <2>8, <2>9, AcceptedHandled
<1>3. CASE ~(d.mode = "readback" /\ d.active)
  <2>1. Status(d, f) = Result(d, <<BadRequest("status", f.seq)>>, <<>>)
    BY <1>3 DEF Status
  <2> QED BY <1>1, <2>1, BadRequestIs, Quietly
<1> QED BY <1>2, <1>3

LEMMA FinishHandled ==
    ASSUME NEW d, NEW b, NEW ms, NEW as, DeviceInv(d, b), Flight(d, b, ms, as), NEW f \in MessageType
    PROVE  Handled(d, Finish(d, f), b, ms, as, 0)
<1>1. d \in DeviceRecord /\ f.seq \in Nat /\ d.durable \in Nat /\ d.summed \in Seq(Nat)
  BY DEF DeviceInv, MessageType, DeviceRecord
<1>2. CASE d.mode = "readback" /\ d.active /\ d.queue = <<>> /\ d.durable = Chunks
  <2>1. PICK e : e = [d EXCEPT !.active = FALSE, !.named = FALSE]
    OBVIOUS
  <2>2. /\ e \in DeviceRecord /\ ~e.active /\ ~e.named
        /\ e.mode = d.mode /\ e.opening = d.opening
        /\ e.tombstone = d.tombstone /\ e.gen = d.gen /\ e.slots = d.slots /\ e.queue = d.queue
        /\ e.produced = d.produced /\ e.durable = d.durable /\ e.summed = d.summed /\ e.sent = d.sent
        /\ e.outstanding = d.outstanding /\ e.pending = d.pending /\ e.next = d.next /\ e.home = d.home
    BY <1>1, <2>1 DEF DeviceRecord
  <2>3. DeviceInv(e, b) /\ Flight(e, b, ms, as)
    BY <1>2, <2>2, FlagsKeep, FlightAlike
  <2>4. PICK r : r = Release(e)
    OBVIOUS
  <2>5. DeviceInv(r, b) /\ Flight(r, b, ms, as) /\ (r.active => e.active) /\ r.durable \in {0, e.durable}
    BY <2>3, <2>4, ReleaseKeeps
  <2>6. PICK g : g = Frame("finish", f.seq, TRUE, d.durable, 0, d.summed)
    OBVIOUS
  <2>7. Honest(<<g>>) /\ ~Opened(<<g>>)
    <3>1. g \in FrameType /\ g.op = "finish"
      BY <1>1, <2>6 DEF Frame, FrameType
    <3> QED BY <3>1, OneFrame
  <2>8. Finish(d, f) = Accepted(r, <<g>>)
    BY <1>2, <2>1, <2>4, <2>6 DEF Finish
  <2>9. r.durable <= 0 \/ (r.durable = d.durable /\ (r.active => d.active))
    BY <1>2, <2>2, <2>5
  <2> QED BY <2>5, <2>7, <2>8, <2>9, AcceptedHandled
<1>3. CASE ~(d.mode = "readback" /\ d.active /\ d.queue = <<>> /\ d.durable = Chunks)
  <2>1. Finish(d, f) = Result(d, <<BadRequest("finish", f.seq)>>, <<>>)
    BY <1>3 DEF Finish
  <2> QED BY <1>1, <2>1, BadRequestIs, Quietly
<1> QED BY <1>2, <1>3

LEMMA AbortHandled ==
    ASSUME NEW d, NEW b, NEW ms, NEW as, DeviceInv(d, b), Flight(d, b, ms, as), NEW f \in MessageType
    PROVE  Handled(d, Abort(d, f), b, ms, as, 0)
<1>1. d \in DeviceRecord /\ f.seq \in Nat
  BY DEF DeviceInv, MessageType
<1>2. CASE d.mode = "readback" /\ (d.active \/ d.tombstone)
  <2>1. PICK e : e = IF d.active THEN Aborted(d) ELSE Release([d EXCEPT !.named = FALSE, !.sent = <<>>])
    OBVIOUS
  <2>2. DeviceInv(e, b) /\ Flight(e, b, ms, as) /\ ~e.active /\ e.durable \in {0, d.durable}
    BY <2>1, EndedKeeps
  <2>3. PICK g : g = Frame("abort", f.seq, TRUE, 0, 0, <<>>)
    OBVIOUS
  <2>4. Honest(<<g>>) /\ ~Opened(<<g>>)
    <3>1. <<>> \in Seq(Nat)
      OBVIOUS
    <3>2. g \in FrameType /\ g.op = "abort"
      BY <1>1, <2>3, <3>1 DEF Frame, FrameType
    <3> QED BY <3>2, OneFrame
  <2>5. Abort(d, f) = Accepted(e, <<g>>)
    BY <1>2, <2>1, <2>3 DEF Abort
  <2>6. e.durable <= 0 \/ (e.durable = d.durable /\ (e.active => d.active))
    BY <2>2
  <2> QED BY <2>2, <2>4, <2>5, <2>6, AcceptedHandled
<1>3. CASE ~(d.mode = "readback" /\ (d.active \/ d.tombstone))
  <2>1. Abort(d, f) = Result(d, <<BadRequest("abort", f.seq)>>, <<>>)
    BY <1>3 DEF Abort
  <2> QED BY <1>1, <2>1, BadRequestIs, Quietly
<1> QED BY <1>2, <1>3

LEMMA OpenDoneHandled ==
    ASSUME NEW d, NEW b, NEW ms, NEW as, DeviceInv(d, b), Flight(d, b, ms, as), as # <<>>, NEW a, a = Head(as),
           a.by = "bulk", a.seq = 1, 1 \in d.pending
    PROVE  Handled(d, OpenDone([d EXCEPT !.pending = @ \ {a.seq}], a), b, ms, Tail(as), 0)
<1>1. d \in DeviceRecord /\ Fresh(d) /\ Leases(d) /\ Summed(d)
  BY DEF DeviceInv
<1>2. /\ d.pending = {1} /\ d.opening # 0 /\ d.mode = "readback" /\ d.next = 2
      /\ ~d.named /\ ~d.active /\ ~d.tombstone /\ d.gen = 0
      /\ d.queue = <<>> /\ d.sent = <<>> /\ d.outstanding = <<>> /\ d.produced = 0 /\ d.durable = 0
      /\ d.home = SlotIds /\ \A s \in SlotIds : d.slots[s] = "free"
  BY <1>1 DEF Fresh, Leases, DeviceRecord
<1>3. d.summed = <<>> /\ d.opening \in Nat
  <2>1. d.summed \in Seq(Nat) /\ Len(d.summed) = 0 /\ d.opening \in Nat
    BY <1>1, <1>2 DEF Summed, DeviceRecord
  <2> QED BY <2>1
<1>4. PICK e : e = [d EXCEPT !.pending = @ \ {a.seq}]
  OBVIOUS
<1>5. /\ e \in DeviceRecord /\ e.pending = {} /\ e.opening = d.opening /\ e.mode = "readback" /\ e.next = 2
      /\ ~e.named /\ ~e.active /\ ~e.tombstone /\ e.gen = 0
      /\ e.queue = <<>> /\ e.sent = <<>> /\ e.outstanding = <<>> /\ e.produced = 0 /\ e.durable = 0
      /\ e.home = SlotIds /\ (\A s \in SlotIds : e.slots[s] = "free") /\ e.summed = <<>>
  <2>1. d.pending \ {a.seq} \in SUBSET Nat /\ d.pending \ {a.seq} = {}
    BY <1>2
  <2> QED BY <1>1, <1>2, <1>3, <1>4, <2>1 DEF DeviceRecord
<1>6. ASSUME NEW g, g.pending = {}, g.outstanding = <<>>
      PROVE  Flight(g, b, ms, Tail(as))
  <2>1. g.pending = d.pending \ {Head(as).seq}
    BY <1>2, <1>6
  <2>2. DOMAIN d.outstanding = {} /\ DOMAIN g.outstanding = {}
    BY <1>2, <1>6
  <2> QED BY <2>1, <2>2, TakenFlight
<1>7. CASE a.ok
  <2>1. PICK g : g = [e EXCEPT !.opening = 0, !.named = TRUE, !.active = TRUE, !.gen = 1, !.armed = TRUE]
    OBVIOUS
  <2>2. /\ g \in DeviceRecord /\ g.pending = {} /\ g.opening = 0 /\ g.mode = "readback" /\ g.next = 2
        /\ g.active /\ g.gen = 1
        /\ g.queue = <<>> /\ g.sent = <<>> /\ g.outstanding = <<>> /\ g.produced = 0 /\ g.durable = 0
        /\ g.home = SlotIds /\ (\A s \in SlotIds : g.slots[s] = "free") /\ g.summed = <<>>
    BY <1>5, <2>1 DEF DeviceRecord
  <2>3. DeviceInv(g, b)
    <3>1. DOMAIN g.queue = {} /\ DOMAIN g.sent = {} /\ DOMAIN g.outstanding = {} /\ Len(g.queue) = 0
      BY <2>2
    <3>2. Fresh(g)
      BY <2>2 DEF Fresh
    <3>3. Leases(g)
      <4>1. IsFiniteSet({}) /\ Cardinality({}) = 0
        BY FS_EmptySet
      <4> QED BY <2>2, <3>1, <4>1, ConstantsAssumption DEF Leases
    <3>4. Ordered(g)
      BY <2>2, <3>1, ConstantsAssumption DEF Ordered
    <3>5. SentInOrder(g, b) /\ ReadsInOrder(g)
      BY <3>1 DEF SentInOrder, ReadsInOrder
    <3>6. Summed(g)
      BY <2>2 DEF Summed
    <3> QED BY <2>2, <3>2, <3>3, <3>4, <3>5, <3>6 DEF DeviceInv
  <2>4. Flight(g, b, ms, Tail(as))
    BY <1>6, <2>2
  <2>5. PICK f : f = Frame("open", e.opening, TRUE, 0, Window, <<>>)
    OBVIOUS
  <2>6. Honest(<<f>>)
    <3>1. <<>> \in Seq(Nat) /\ Window \in Nat
      BY ConstantsAssumption
    <3>2. f \in FrameType /\ f.op = "open"
      BY <1>3, <1>5, <2>5, <3>1 DEF Frame, FrameType
    <3> QED BY <3>2, OneFrame
  <2>7. PICK r : r = Fill(g, <<f>>)
    OBVIOUS
  <2>8. /\ DeviceInv(r.device, b) /\ Flight(r.device, b, ms \o r.requests, Tail(as))
        /\ r.frames = <<f>> /\ r.device.durable = 0
    <3>1. PICK rest : rest = Tail(as)
      OBVIOUS
    <3>2. Flight(g, b, ms, rest)
      BY <2>4, <3>1
    <3>3. /\ DeviceInv(r.device, b) /\ Flight(r.device, b, ms \o r.requests, rest)
          /\ r.frames = <<f>> /\ r.device.durable = g.durable
      BY <2>3, <2>7, <3>2, FillKeeps
    <3> QED BY <2>2, <3>1, <3>3
  <2>9. OpenDone(e, a) = r
    BY <1>7, <2>1, <2>5, <2>7 DEF OpenDone
  <2>10. r.device.durable <= 0 /\ Honest(r.frames)
    BY <2>6, <2>8
  <2>11. Handled(d, r, b, ms, Tail(as), 0)
    BY <2>8, <2>10 DEF Handled
  <2> QED BY <1>4, <2>9, <2>11
<1>8. CASE ~a.ok
  <2>1. Fresh(e)
    BY <1>2, <1>5 DEF Fresh
  <2>2. DeviceInv(e, b)
    BY <1>2, <1>5, <2>1, FreshKeeps
  <2>3. Flight(e, b, ms, Tail(as))
    BY <1>5, <1>6
  <2>4. OpenDone(e, a) = Result(e, <<BadRequest("open", e.opening)>>, <<>>)
    BY <1>8 DEF OpenDone
  <2>5. e.durable <= 0
    BY <1>5
  <2>6. Honest(<<BadRequest("open", e.opening)>>) /\ ~Opened(<<BadRequest("open", e.opening)>>)
    BY <1>3, <1>5, BadRequestIs
  <2>7. PICK rest : rest = Tail(as)
    OBVIOUS
  <2>8. Handled(d, Result(e, <<BadRequest("open", e.opening)>>, <<>>), b, ms, rest, 0)
    BY <2>2, <2>3, <2>5, <2>6, <2>7, Quietly
  <2> QED BY <1>4, <2>4, <2>7, <2>8
<1> QED BY <1>7, <1>8

(* The read that an answer is about.                                       *)
ReadNumbered(d, seq) == SelectInSeq(d.outstanding, LAMBDA r : r.seq = seq)

Answers(d, b, a, p) ==
    /\ p \in DOMAIN d.outstanding /\ d.outstanding[p] \in Read
    /\ d.outstanding[p].seq = a.seq /\ d.outstanding[p].slot = a.lease
    /\ a.ok => b[a.lease] = d.outstanding[p].off + 1
    /\ \A k \in DOMAIN d.outstanding : k # p => d.outstanding[k].seq # a.seq

LEMMA AnswerIs ==
    ASSUME NEW d, NEW b, DeviceInv(d, b), NEW ms, NEW as, Flight(d, b, ms, as), as # <<>>, NEW a, a = Head(as),
           a.by = "bulk", a.seq \in d.pending, a.seq # 1,
           NEW p, p = ReadNumbered(d, a.seq)
    PROVE  Answers(d, b, a, p)
<1>1. d.outstanding \in Seq(Read) /\ Leases(d)
  BY DEF DeviceInv, DeviceRecord
<1>2. as \in Seq(AnswerType) /\ 1 \in DOMAIN as /\ a = as[1]
  <2>1. as \in Seq(AnswerType)
    BY DEF Flight
  <2>2. PICK t : t = Tail(as)
    OBVIOUS
  <2>3. PICK n \in Nat : Beheaded(as, t, n)
    BY <2>1, <2>2, TailIs
  <2> QED BY <2>1, <2>3 DEF Beheaded
<1>3. Asked(d, a) /\ Filled(d, b, a)
  BY <1>2 DEF Flight
<1>4. PICK k \in DOMAIN d.outstanding : d.outstanding[k].seq = a.seq /\ d.outstanding[k].slot = a.lease
  BY <1>3 DEF Asked
<1>5. \A j \in DOMAIN d.outstanding : j # k => d.outstanding[j].seq # d.outstanding[k].seq
  BY <1>1 DEF Leases
<1>6. PICK o : o = d.outstanding
  OBVIOUS
<1>7. DOMAIN o = 1 .. Len(o) /\ k \in 1 .. Len(o) /\ Len(o) \in Nat /\ o[k] \in Read
  BY <1>1, <1>6
<1>8. {i \in 1 .. Len(o) : o[i].seq = a.seq} = {k}
  BY <1>4, <1>5, <1>6, <1>7
<1>9. Min({k}) = k
  <2>1. {k} \in SUBSET Nat /\ {k} # {}
    BY <1>7
  <2>2. Min({k}) \in {k}
    BY <2>1, MinIsLeast
  <2> QED BY <2>2
<1>10. p = k
  BY <1>6, <1>8, <1>9 DEF ReadNumbered, SelectInSeq
<1>11. a.ok => b[a.lease] = d.outstanding[k].off + 1
  BY <1>3, <1>4 DEF Filled
<1> QED BY <1>4, <1>5, <1>6, <1>7, <1>10, <1>11 DEF Answers

LEMMA ReadDoneHandled ==
    ASSUME NEW d, DeviceInv(d, bytes), bytes \in Content, NEW ms, NEW as, Flight(d, bytes, ms, as), as # <<>>,
           NEW a, a = Head(as), a.by = "bulk", a.seq \in d.pending, a.seq # 1
    PROVE  Handled(d, ReadDone([d EXCEPT !.pending = @ \ {a.seq}], a), bytes, ms, Tail(as), 0)
<1>1. d \in DeviceRecord /\ ReadsInOrder(d) /\ Leases(d)
  BY DEF DeviceInv
<1>2. PICK c : c = [d EXCEPT !.pending = @ \ {a.seq}]
  OBVIOUS
<1>3. /\ d.pending \in SUBSET Nat /\ d.home \in SUBSET SlotIds /\ d.outstanding \in Seq(Read)
      /\ d.slots \in [SlotIds -> {"free", "owned", "awaiting"}] /\ d.sent \in Seq(Read)
  BY <1>1 DEF DeviceRecord
<1>4. /\ c \in DeviceRecord /\ c.pending = d.pending \ {a.seq} /\ c.outstanding = d.outstanding
      /\ c.mode = d.mode /\ c.opening = d.opening /\ c.named = d.named /\ c.active = d.active
      /\ c.tombstone = d.tombstone /\ c.gen = d.gen /\ c.slots = d.slots /\ c.queue = d.queue
      /\ c.produced = d.produced /\ c.durable = d.durable /\ c.summed = d.summed /\ c.sent = d.sent
      /\ c.next = d.next /\ c.home = d.home
  BY <1>1, <1>2, <1>3 DEF DeviceRecord
<1>5. PICK p : p = ReadNumbered(d, a.seq)
  OBVIOUS
<1>6. /\ p \in DOMAIN d.outstanding /\ d.outstanding[p] \in Read
      /\ d.outstanding[p].seq = a.seq /\ d.outstanding[p].slot = a.lease
      /\ a.ok => bytes[a.lease] = d.outstanding[p].off + 1
      /\ \A k \in DOMAIN d.outstanding : k # p => d.outstanding[k].seq # a.seq
  <2>1. Answers(d, bytes, a, p)
    BY <1>5, AnswerIs
  <2> QED BY <2>1 DEF Answers
<1>7. PICK r : r = d.outstanding[p]
  OBVIOUS
<1>8. r \in Read /\ r.slot = a.lease /\ r.slot \in SlotIds /\ r.off \in Nat
  <2>1. r \in Read /\ r.slot = a.lease
    BY <1>6, <1>7
  <2> QED BY <2>1 DEF Read
<1>9. PICK e : e = [c EXCEPT !.home = @ \cup {a.lease}, !.outstanding = RemoveAt(@, p)]
  OBVIOUS
<1>10. Returned(d, e, p)
  <2>1. RemoveAt(d.outstanding, p) \in Seq(Read)
    <3>1. p \in 1 .. Len(d.outstanding)
      BY <1>3, <1>6
    <3> QED BY <1>3, <3>1, RemoveAtProperties
  <2>2. d.home \cup {a.lease} \in SUBSET SlotIds
    BY <1>3, <1>8
  <2>3. /\ e \in DeviceRecord /\ e.pending = c.pending /\ e.outstanding = RemoveAt(d.outstanding, p)
        /\ e.mode = c.mode /\ e.opening = c.opening /\ e.named = c.named /\ e.active = c.active
        /\ e.tombstone = c.tombstone /\ e.gen = c.gen /\ e.slots = c.slots /\ e.queue = c.queue
        /\ e.produced = c.produced /\ e.durable = c.durable /\ e.summed = c.summed /\ e.sent = c.sent
        /\ e.next = c.next /\ e.home = d.home \cup {a.lease}
    BY <1>4, <1>9, <2>1, <2>2 DEF DeviceRecord
  <2> QED BY <1>4, <1>6, <2>3 DEF Returned
<1>11. DeviceInv(e, bytes)
  BY <1>10, ReturnedKeeps
<1>12. /\ e \in DeviceRecord /\ e.pending = d.pending \ {a.seq} /\ e.gen = d.gen /\ e.slots = d.slots
       /\ e.durable = d.durable /\ e.active = d.active /\ e.sent = d.sent /\ e.queue = d.queue
       /\ e.home = d.home \cup {r.slot}
  BY <1>6, <1>7, <1>10 DEF Returned
<1>13. PICK lo \in Nat : \E at : Thinned(d.outstanding, e.outstanding, p, lo, at)
  BY <1>1, <1>10, ReturnedReads
<1>14. PICK at : Thinned(d.outstanding, e.outstanding, p, lo, at)
  BY <1>13
<1>15. PICK rest : rest = Tail(as)
  OBVIOUS
<1>16. Flight(e, bytes, ms, rest)
  <2>1. \A k \in DOMAIN d.outstanding : d.outstanding[k].seq # a.seq =>
              \E j \in DOMAIN e.outstanding : e.outstanding[j] = d.outstanding[k]
    BY <1>6, <1>14 DEF Thinned
  <2>2. \A j \in DOMAIN e.outstanding : \E k \in DOMAIN d.outstanding : e.outstanding[j] = d.outstanding[k]
    BY <1>14 DEF Thinned
  <2>3. Flight(e, bytes, ms, Tail(as))
    <3>1. /\ e.pending = d.pending \ {Head(as).seq} /\ Head(as).by = "bulk"
          /\ \A k \in DOMAIN d.outstanding : d.outstanding[k].seq # Head(as).seq =>
                \E j \in DOMAIN e.outstanding : e.outstanding[j] = d.outstanding[k]
      BY <1>12, <2>1
    <3> QED BY <2>2, <3>1, TakenFlight
  <2> QED BY <1>15, <2>3
<1>17. /\ r.gen # d.gen => ReadDone(c, a) = Nothing(Release(e))
       /\ r.gen = d.gen /\ (p # 1 \/ ~a.ok) => ReadDone(c, a) = Nothing(e)
       /\ r.gen = d.gen /\ p = 1 /\ a.ok =>
             ReadDone(c, a) = Result([e EXCEPT !.slots[r.slot] = "awaiting", !.sent = Append(@, r)],
                                     <<Frame("data", 0, TRUE, r.off, bytes[r.slot], <<>>)>>, <<>>)
  BY <1>4, <1>5, <1>7, <1>9 DEF ReadDone, ReadNumbered
<1>18. CASE r.gen # d.gen
  <2>1. PICK g : g = Release(e)
    OBVIOUS
  <2>2. DeviceInv(g, bytes) /\ Flight(g, bytes, ms, rest) /\ (g.active => e.active) /\ g.durable \in {0, e.durable}
    BY <1>11, <1>16, <2>1, ReleaseKeeps
  <2>3. Handled(d, Result(g, <<>>, <<>>), bytes, ms, rest, 0)
    <3>1. g.durable <= 0 \/ (g.durable = d.durable /\ (g.active => d.active))
      BY <1>12, <2>2
    <3> QED BY <2>2, <3>1, NoFrame, Quietly
  <2>4. ReadDone(c, a) = Result(g, <<>>, <<>>)
    BY <1>17, <1>18, <2>1 DEF Nothing
  <2> QED BY <1>2, <1>15, <2>3, <2>4
<1>19. CASE r.gen = d.gen /\ (p # 1 \/ ~a.ok)
  <2>1. Handled(d, Result(e, <<>>, <<>>), bytes, ms, rest, 0)
    BY <1>11, <1>12, <1>16, NoFrame, Quietly
  <2>2. ReadDone(c, a) = Result(e, <<>>, <<>>)
    BY <1>17, <1>19 DEF Nothing
  <2> QED BY <1>2, <1>15, <2>1, <2>2
<1>20. CASE r.gen = d.gen /\ p = 1 /\ a.ok
  <2>1. PICK g : g = [e EXCEPT !.slots[r.slot] = "awaiting", !.sent = Append(@, r)]
    OBVIOUS
  <2>2. [d.slots EXCEPT ![r.slot] = "awaiting"] \in [SlotIds -> {"free", "owned", "awaiting"}]
        /\ Append(d.sent, r) \in Seq(Read)
    BY <1>3, <1>8, AppendProperties
  <2>3. /\ g \in DeviceRecord /\ g.slots = [e.slots EXCEPT ![r.slot] = "awaiting"]
        /\ g.sent = Append(e.sent, r)
        /\ g.mode = e.mode /\ g.opening = e.opening /\ g.named = e.named /\ g.active = e.active
        /\ g.tombstone = e.tombstone /\ g.gen = e.gen /\ g.queue = e.queue /\ g.produced = e.produced
        /\ g.durable = e.durable /\ g.summed = e.summed /\ g.outstanding = e.outstanding
        /\ g.pending = e.pending /\ g.next = e.next /\ g.home = e.home
    BY <1>12, <2>1, <2>2 DEF DeviceRecord
  <2>4. /\ \E j \in DOMAIN d.queue : d.queue[j] = r
        /\ d.slots[r.slot] = "owned"
        /\ \A j \in DOMAIN d.sent : d.sent[j].off < r.off
    BY <1>1, <1>6, <1>7, <1>20 DEF ReadsInOrder
  <2>5. PICK jr \in DOMAIN e.queue : r = e.queue[jr]
    BY <1>12, <2>4
  <2>6. \A k \in DOMAIN e.outstanding : e.outstanding[k].gen = e.gen => r.off < e.outstanding[k].off
    <3> SUFFICES ASSUME NEW k \in DOMAIN e.outstanding, e.outstanding[k].gen = d.gen
                 PROVE  r.off < e.outstanding[k].off
      BY <1>12
    <3>1. at[k] \in DOMAIN d.outstanding /\ at[k] # 1 /\ e.outstanding[k] = d.outstanding[at[k]] /\ at[k] \in 1 .. lo + 1
      BY <1>14, <1>20 DEF Thinned
    <3>2. 1 < at[k]
      BY <3>1
    <3> QED BY <1>1, <1>6, <1>7, <1>20, <3>1, <3>2 DEF ReadsInOrder
  <2>7. bytes[r.slot] = r.off + 1
    BY <1>6, <1>7, <1>8, <1>20
  <2>8. r.slot \in e.home
    BY <1>12
  <2>9. DeviceInv(g, bytes)
    <3>1. e.slots[r.slot] = "owned" /\ \A j \in DOMAIN e.sent : e.sent[j].off < r.off
      BY <1>12, <2>4
    <3> QED BY <1>11, <2>3, <2>5, <2>6, <2>7, <2>8, <3>1, SentKeeps
  <2>10. Flight(g, bytes, ms, rest)
    BY <1>16, <2>3, FlightAlike
  <2>11. PICK f : f = Frame("data", 0, TRUE, r.off, bytes[r.slot], <<>>)
    OBVIOUS
  <2>12. Honest(<<f>>) /\ ~Opened(<<f>>)
    <3>1. <<>> \in Seq(Nat) /\ bytes[r.slot] \in Nat
      BY <1>8, <2>7
    <3>2. f \in FrameType /\ f.op = "data" /\ f.data = f.off + 1
      BY <1>8, <2>7, <2>11, <3>1 DEF Frame, FrameType
    <3> QED BY <3>2, OneFrame
  <2>13. Handled(d, Result(g, <<f>>, <<>>), bytes, ms, rest, 0)
    BY <1>12, <2>3, <2>9, <2>10, <2>12, Quietly
  <2>14. ReadDone(c, a) = Result(g, <<f>>, <<>>)
    BY <1>17, <1>20, <2>1, <2>11
  <2> QED BY <1>2, <1>15, <2>13, <2>14
<1> QED BY <1>18, <1>19, <1>20

LEMMA CompleteHandled ==
    ASSUME DeviceInv(device, bytes), bytes \in Content, Flight(device, bytes, mail, answers), answers # <<>>
    PROVE  Handled(device, Complete(device, Head(answers)), bytes, mail, Tail(answers), 0)
<1>1. PICK a : a = Head(answers)
  OBVIOUS
<1>2. CASE a.by # "bulk" \/ a.seq \notin device.pending
  <2>1. PICK rest : rest = Tail(answers)
    OBVIOUS
  <2>2. Flight(device, bytes, mail, rest)
    BY <2>1, DroppedFlight
  <2>3. Complete(device, a) = Result(device, <<>>, <<>>)
    BY <1>2 DEF Complete, Nothing
  <2>4. Handled(device, Result(device, <<>>, <<>>), bytes, mail, rest, 0)
    BY <2>2, NoFrame, Quietly
  <2> QED BY <1>1, <2>1, <2>3, <2>4
<1>3. CASE a.by = "bulk" /\ a.seq \in device.pending /\ a.seq = 1
  <2>1. Complete(device, a) = OpenDone([device EXCEPT !.pending = @ \ {a.seq}], a)
    BY <1>3 DEF Complete
  <2> QED BY <1>1, <1>3, <2>1, OpenDoneHandled
<1>4. CASE a.by = "bulk" /\ a.seq \in device.pending /\ a.seq # 1
  <2>1. Complete(device, a) = ReadDone([device EXCEPT !.pending = @ \ {a.seq}], a)
    BY <1>4 DEF Complete
  <2> QED BY <1>1, <1>4, <2>1, ReadDoneHandled
<1> QED BY <1>2, <1>3, <1>4

LEMMA DispatchHandled ==
    ASSUME DeviceInv(device, bytes), bytes \in Content, Flight(device, bytes, mail, answers),
           NEW f \in MessageType, f.op # "read", f.op = "open" => f.seq # 0
    PROVE  Handled(device, Dispatch(device, f), bytes, mail, answers,
                   IF f.op = "credit" /\ device.active THEN f.off ELSE 0)
<1>1. f.op \in {"open", "credit", "status", "finish", "abort"}
  BY DEF MessageType
<1>2. CASE f.op = "open"
  <2>1. Dispatch(device, f) = Open(device, f)
    BY <1>2 DEF Dispatch
  <2> QED BY <1>2, <2>1, OpenHandled
<1>3. CASE f.op = "credit"
  <2>1. Dispatch(device, f) = Credit(device, f)
    BY <1>3 DEF Dispatch
  <2> QED BY <1>3, <2>1, CreditHandled
<1>4. CASE f.op = "status"
  <2>1. Dispatch(device, f) = Status(device, f)
    BY <1>4 DEF Dispatch
  <2> QED BY <1>4, <2>1, StatusHandled
<1>5. CASE f.op = "finish"
  <2>1. Dispatch(device, f) = Finish(device, f)
    BY <1>5 DEF Dispatch
  <2> QED BY <1>5, <2>1, FinishHandled
<1>6. CASE f.op = "abort"
  <2>1. Dispatch(device, f) = Abort(device, f)
    BY <1>6 DEF Dispatch
  <2> QED BY <1>6, <2>1, AbortHandled
<1> QED BY <1>1, <1>2, <1>3, <1>4, <1>5, <1>6

(***************************************************************************)
(* The storage owner.                                                      *)
(***************************************************************************)
(* t is s and x after it: n + 1 elements.                                  *)
Longer(s, t, x, n) ==
    /\ Len(s) = n /\ DOMAIN s = 1 .. n
    /\ Len(t) = n + 1 /\ DOMAIN t = 1 .. n + 1 /\ t[n + 1] = x
    /\ \A k \in 1 .. n : t[k] = s[k]
    /\ \A k \in 1 .. n + 1 : k \in 1 .. n \/ k = n + 1

LEMMA AppendIs ==
    ASSUME NEW S, NEW s \in Seq(S), NEW x \in S
    PROVE  Append(s, x) \in Seq(S) /\ \E n \in Nat : Longer(s, Append(s, x), x, n)
<1>1. PICK n \in Nat : n = Len(s) /\ DOMAIN s = 1 .. n
  BY Lengths
<1>2. PICK t : t = Append(s, x)
  OBVIOUS
<1>3. t \in Seq(S) /\ Len(t) = n + 1 /\ t[n + 1] = x /\ \A k \in 1 .. n : t[k] = s[k]
  BY <1>1, <1>2, AppendProperties
<1>4. DOMAIN t = 1 .. n + 1 /\ \A k \in 1 .. n + 1 : k \in 1 .. n \/ k = n + 1
  BY <1>3
<1>5. Longer(s, t, x, n)
  BY <1>1, <1>3, <1>4 DEF Longer
<1> QED BY <1>2, <1>3, <1>5

(* It fills the lease of a read that is on its way: of no other, and of    *)
(* none that the host has yet to acknowledge.                              *)
LEMMA OwnerKeeps ==
    ASSUME NEW d, NEW b \in Content, NEW ms, NEW as, DeviceInv(d, b), Flight(d, b, ms, as), ms # <<>>,
           NEW r, r = Head(ms), NEW a \in AnswerType, a.by = r.by, a.seq = r.seq, a.lease = r.lease,
           NEW c, c = IF r.lease \in SlotIds
                      THEN [b EXCEPT ![r.lease] = IF a.ok THEN r.off + 1 ELSE 0]
                      ELSE b
    PROVE  DeviceInv(d, c) /\ Flight(d, c, Tail(ms), Append(as, a))
<1>1. d \in DeviceRecord /\ Leases(d) /\ SentInOrder(d, b)
  BY DEF DeviceInv
<1>2. ms \in Seq(MailType) /\ as \in Seq(AnswerType)
  BY DEF Flight
<1>3. PICK t : t = Tail(ms)
  OBVIOUS
<1>4. PICK lm \in Nat :
        /\ DOMAIN ms = 1 .. lm + 1 /\ t \in Seq(MailType) /\ DOMAIN t = 1 .. lm
        /\ r = ms[1] /\ 1 \in 1 .. lm + 1
        /\ \A k \in 1 .. lm : k + 1 \in 1 .. lm + 1 /\ k + 1 # 1 /\ t[k] = ms[k + 1]
  <2>1. t \in Seq(MailType) /\ \E n \in Nat : Beheaded(ms, t, n)
    BY <1>2, <1>3, TailIs
  <2> QED BY <2>1 DEF Beheaded
<1>5. PICK u : u = Append(as, a)
  OBVIOUS
<1>6. PICK la \in Nat :
        /\ DOMAIN as = 1 .. la /\ u \in Seq(AnswerType) /\ DOMAIN u = 1 .. la + 1 /\ u[la + 1] = a
        /\ \A k \in 1 .. la : u[k] = as[k]
        /\ \A k \in 1 .. la + 1 : k \in 1 .. la \/ k = la + 1
  <2>1. u \in Seq(AnswerType) /\ \E n \in Nat : Longer(as, u, a, n)
    BY <1>2, <1>5, AppendIs
  <2> QED BY <2>1 DEF Longer
<1>7. r \in MailType /\ Asked(d, r)
  <2>1. ms[1] \in MailType
    BY <1>2, <1>4
  <2>2. Asked(d, ms[1])
    BY <1>4 DEF Flight
  <2> QED BY <1>4, <2>1, <2>2
<1>8. r.lease \in Nat /\ r.off \in Nat /\ r.seq \in Nat
  BY <1>7 DEF MailType
<1>9. r.lease \in SlotIds =>
         /\ r.by = "bulk" /\ r.seq # 1
         /\ \E k \in DOMAIN d.outstanding : d.outstanding[k].seq = r.seq /\ d.outstanding[k].slot = r.lease
  BY <1>7 DEF Asked, None, SlotIds
<1>10. \A s \in SlotIds : s # r.lease => c[s] = b[s]
  BY DEF Content
<1>11. r.lease \in SlotIds => r.lease \notin d.home
  BY <1>1, <1>9 DEF Leases
<1>12. DeviceInv(d, c)
  <2>1. \A k \in DOMAIN d.sent : d.sent[k].slot \in d.home /\ b[d.sent[k].slot] = d.sent[k].off + 1
    BY <1>1 DEF SentInOrder
  <2>2. d.home \subseteq SlotIds
    BY <1>1 DEF DeviceRecord
  <2>3. ASSUME NEW k \in DOMAIN d.sent PROVE c[d.sent[k].slot] = d.sent[k].off + 1
    <3>1. d.sent[k].slot \in d.home /\ d.sent[k].slot \in SlotIds
      BY <2>1, <2>2
    <3>2. r.lease \in SlotIds => d.sent[k].slot # r.lease
      BY <1>11, <3>1
    <3>3. c[d.sent[k].slot] = b[d.sent[k].slot]
      BY <1>10, <3>1, <3>2
    <3> QED BY <2>1, <3>3
  <2>4. SentInOrder(d, c)
    BY <1>1, <2>3 DEF SentInOrder
  <2> QED BY <2>4 DEF DeviceInv
<1>13. \A k \in 1 .. la : Asked(d, as[k]) /\ Filled(d, b, as[k]) /\ ~Same(as[k], r)
  BY <1>4, <1>6 DEF Flight
<1>14. \A i, j \in DOMAIN d.outstanding : i # j => d.outstanding[i].slot # d.outstanding[j].slot
  BY <1>1 DEF Leases
<1>15. \A i, j \in DOMAIN d.outstanding : i # j => d.outstanding[i].seq # d.outstanding[j].seq
  BY <1>1 DEF Leases
<1>16. \A i \in DOMAIN d.outstanding : d.outstanding[i].slot \in SlotIds
  <2>1. \A i \in DOMAIN d.outstanding : d.outstanding[i] \in Read
    BY <1>1 DEF DeviceRecord
  <2> QED BY <2>1 DEF Read
<1>17. ASSUME NEW k \in 1 .. la PROVE Filled(d, c, as[k])
  <2> SUFFICES ASSUME as[k].by = "bulk", as[k].seq # 1, as[k].ok, NEW j \in DOMAIN d.outstanding,
                      d.outstanding[j].seq = as[k].seq
               PROVE  c[as[k].lease] = d.outstanding[j].off + 1
    BY DEF Filled
  <2>1. b[as[k].lease] = d.outstanding[j].off + 1
    BY <1>13 DEF Filled
  <2>2. PICK i \in DOMAIN d.outstanding : d.outstanding[i].seq = as[k].seq /\ d.outstanding[i].slot = as[k].lease
    BY <1>13 DEF Asked
  <2>3. as[k].lease \in SlotIds
    BY <1>16, <2>2
  <2>4. r.lease \in SlotIds => as[k].lease # r.lease
    <3> SUFFICES ASSUME r.lease \in SlotIds PROVE as[k].lease # r.lease
      OBVIOUS
    <3>1. PICK m \in DOMAIN d.outstanding : d.outstanding[m].seq = r.seq /\ d.outstanding[m].slot = r.lease
      BY <1>9
    <3>2. as[k].seq # r.seq
      BY <1>9, <1>13 DEF Same
    <3>3. i # m
      BY <2>2, <3>1, <3>2
    <3> QED BY <1>14, <2>2, <3>1, <3>3
  <2>5. c[as[k].lease] = b[as[k].lease]
    BY <1>10, <2>3, <2>4
  <2> QED BY <2>1, <2>5
<1>18. Asked(d, a) /\ Filled(d, c, a)
  <2>1. Asked(d, a)
    BY <1>7 DEF Asked
  <2>2. ASSUME a.by = "bulk", a.seq # 1, a.ok, NEW j \in DOMAIN d.outstanding,
               d.outstanding[j].seq = a.seq
        PROVE  c[a.lease] = d.outstanding[j].off + 1
    <3>1. r.off = d.outstanding[j].off
      <4>1. \A k \in DOMAIN ms : \A i \in DOMAIN d.outstanding :
                ms[k].by = "bulk" /\ ms[k].seq = d.outstanding[i].seq => ms[k].off = d.outstanding[i].off
        BY DEF Flight
      <4>2. r.by = "bulk" /\ r.seq = d.outstanding[j].seq
        BY <2>2
      <4> QED BY <1>4, <4>1, <4>2
    <3>2. r.lease \in SlotIds
      <4>1. PICK i \in DOMAIN d.outstanding : d.outstanding[i].slot = a.lease
        BY <2>1, <2>2 DEF Asked
      <4> QED BY <1>16, <4>1
    <3> QED BY <2>2, <3>1, <3>2 DEF Content
  <2> QED BY <2>1, <2>2 DEF Filled
<1>19. ASSUME NEW k \in 1 .. la + 1 PROVE Asked(d, u[k]) /\ Filled(d, c, u[k])
  BY <1>6, <1>13, <1>17, <1>18
<1>20. \A k \in 1 .. lm + 1 : \A j \in 1 .. lm + 1 : j # k => ~Same(ms[j], ms[k])
  BY <1>4 DEF Flight
<1>21. \A k \in 1 .. lm : ~Same(r, t[k]) /\ \A j \in 1 .. lm : j # k => ~Same(t[j], t[k])
  <2> TAKE k \in 1 .. lm
  <2>1. ~Same(ms[1], ms[k + 1])
    BY <1>4, <1>20
  <2>2. ASSUME NEW j \in 1 .. lm, j # k PROVE ~Same(t[j], t[k])
    <3>1. j + 1 # k + 1
      BY <2>2
    <3> QED BY <1>4, <1>20, <3>1
  <2> QED BY <1>4, <2>1, <2>2
<1>22. \A k \in 1 .. lm : Asked(d, t[k]) /\ \A i \in DOMAIN d.outstanding :
                t[k].by = "bulk" /\ t[k].seq = d.outstanding[i].seq => t[k].off = d.outstanding[i].off
  <2>1. \A k \in 1 .. lm + 1 : Asked(d, ms[k]) /\ \A i \in DOMAIN d.outstanding :
                ms[k].by = "bulk" /\ ms[k].seq = d.outstanding[i].seq => ms[k].off = d.outstanding[i].off
    BY <1>4 DEF Flight
  <2> QED BY <1>4, <2>1
<1>23. \A k \in 1 .. lm, j \in 1 .. la + 1 : ~Same(u[j], t[k])
  <2> TAKE k \in 1 .. lm, j \in 1 .. la + 1
  <2>1. CASE j \in 1 .. la
    <3>1. ~Same(as[j], ms[k + 1])
      BY <1>4, <1>6, <2>1 DEF Flight
    <3> QED BY <1>4, <1>6, <2>1, <3>1
  <2>2. CASE j = la + 1
    BY <1>6, <1>21, <2>2 DEF Same
  <2> QED BY <1>6, <2>1, <2>2
<1>24. \A j, k \in 1 .. la + 1 : j # k => ~Same(u[j], u[k])
  <2>1. \A j, k \in 1 .. la : j # k => ~Same(as[j], as[k])
    BY <1>6 DEF Flight
  <2>2. \A k \in 1 .. la : ~Same(as[k], a) /\ ~Same(a, as[k])
    BY <1>13 DEF Same
  <2> QED BY <1>6, <2>1, <2>2
<1>25. Flight(d, c, t, u)
  BY <1>4, <1>6, <1>19, <1>21, <1>22, <1>23, <1>24 DEF Flight
<1> QED BY <1>3, <1>5, <1>12, <1>25

LEMMA OwnerStepKeeps ==
    ASSUME BulkInv, OwnerStep
    PROVE  BulkInv'
<1>1. DeviceInv(device, bytes) /\ bytes \in Content /\ Flight(device, bytes, mail, answers)
  BY DEF BulkInv
<1>2. /\ mail # <<>> /\ mail' = Tail(mail)
      /\ UNCHANGED <<host, toDevice, toHost, tx, device, single, turn>>
  BY DEF OwnerStep, wires
<1>3. PICK r : r = Head(mail)
  OBVIOUS
<1>4. PICK ok \in BOOLEAN :
        /\ answers' = Append(answers, [by |-> r.by, seq |-> r.seq, ok |-> ok, lease |-> r.lease])
        /\ bytes' = IF r.lease \in SlotIds
                    THEN [bytes EXCEPT ![r.lease] = IF ok THEN r.off + 1 ELSE 0]
                    ELSE bytes
  BY <1>3 DEF OwnerStep
<1>5. PICK a : a = [by |-> r.by, seq |-> r.seq, ok |-> ok, lease |-> r.lease]
  OBVIOUS
<1>6. r \in MailType
  <2>1. mail \in Seq(MailType)
    BY <1>1 DEF Flight
  <2> QED BY <1>2, <1>3, <2>1, TailIs
<1>7. a \in AnswerType /\ a.by = r.by /\ a.seq = r.seq /\ a.lease = r.lease /\ a.ok = ok
  BY <1>5, <1>6 DEF MailType, AnswerType
<1>8. PICK c : c = IF r.lease \in SlotIds THEN [bytes EXCEPT ![r.lease] = IF ok THEN r.off + 1 ELSE 0] ELSE bytes
  OBVIOUS
<1>9. c \in Content
  <2>1. r.off + 1 \in Nat
    BY <1>6 DEF MailType
  <2> QED BY <1>1, <1>8, <2>1 DEF Content
<1>10. c = IF r.lease \in SlotIds THEN [bytes EXCEPT ![r.lease] = IF a.ok THEN r.off + 1 ELSE 0] ELSE bytes
  BY <1>7, <1>8
<1>11. DeviceInv(device, c) /\ Flight(device, c, Tail(mail), Append(answers, a))
  BY <1>1, <1>2, <1>3, <1>7, <1>10, OwnerKeeps
<1>12. /\ bytes' = c /\ answers' = Append(answers, a) /\ mail' = Tail(mail) /\ device' = device
  BY <1>2, <1>4, <1>5, <1>8
<1>13. DeviceInv(device', bytes') /\ bytes' \in Content /\ Flight(device', bytes', mail', answers')
  BY <1>9, <1>11, <1>12
<1>14. HostSide' /\ Honest(toHost') /\ Honest(tx') /\ Behind' /\ Single'
  BY <1>2 DEF BulkInv, HostSide, Behind, Single
<1> QED BY <1>13, <1>14 DEF BulkInv

(***************************************************************************)
(* The line.                                                               *)
(***************************************************************************)
LEMMA HonestConcat ==
    ASSUME NEW s, NEW t, Honest(s), Honest(t)
    PROVE  Honest(s \o t) /\ (Opened(s \o t) => Opened(s) \/ Opened(t))
<1>1. s \in Seq(FrameType) /\ t \in Seq(FrameType)
  BY DEF Honest
<1>2. PICK u : u = s \o t
  OBVIOUS
<1>3. PICK n \in Nat : n = Len(s) /\ DOMAIN s = 1 .. n
  BY <1>1, Lengths
<1>4. PICK m \in Nat : m = Len(t) /\ DOMAIN t = 1 .. m
  BY <1>1, Lengths
<1>5. u \in Seq(FrameType) /\ Len(u) = n + m /\ \A i \in 1 .. n + m : u[i] = IF i <= n THEN s[i] ELSE t[i - n]
  BY <1>1, <1>2, <1>3, <1>4, ConcatType
<1>6. DOMAIN u = 1 .. n + m
  BY <1>5
<1>7. \A i \in 1 .. n + m : (i \in 1 .. n /\ u[i] = s[i]) \/ (i - n \in 1 .. m /\ u[i] = t[i - n])
  <2> TAKE i \in 1 .. n + m
  <2>1. CASE i <= n
    BY <1>5, <2>1
  <2>2. CASE ~(i <= n)
    BY <1>5, <2>2
  <2> QED BY <2>1, <2>2
<1>8. Honest(u)
  <2>1. /\ \A k \in 1 .. n : s[k].op = "data" => s[k].data = s[k].off + 1
        /\ \A k \in 1 .. m : t[k].op = "data" => t[k].data = t[k].off + 1
    BY <1>3, <1>4 DEF Honest
  <2>2. \A i \in 1 .. n + m : u[i].op = "data" => u[i].data = u[i].off + 1
    BY <1>7, <2>1
  <2> QED BY <1>5, <1>6, <2>2 DEF Honest
<1>9. Opened(u) => Opened(s) \/ Opened(t)
  BY <1>3, <1>4, <1>6, <1>7 DEF Opened
<1> QED BY <1>2, <1>8, <1>9

LEMMA HonestWithout ==
    ASSUME NEW s, NEW i, Honest(s), i \in 1 .. Len(s)
    PROVE  Honest(RemoveAt(s, i)) /\ (Opened(RemoveAt(s, i)) => Opened(s))
<1>1. s \in Seq(FrameType)
  BY DEF Honest
<1>2. PICK n \in Nat : n = Len(s) /\ DOMAIN s = 1 .. n
  BY <1>1, Lengths
<1>3. PICK u : u = RemoveAt(s, i)
  OBVIOUS
<1>4. u \in Seq(FrameType) /\ Len(u) = n - 1 /\ \A j \in 1 .. n - 1 : u[j] = IF j < i THEN s[j] ELSE s[j + 1]
  BY <1>1, <1>2, <1>3, RemoveAtProperties
<1>5. DOMAIN u = 1 .. n - 1
  BY <1>4
<1>6. \A j \in 1 .. n - 1 : \E k \in 1 .. n : u[j] = s[k]
  <2> TAKE j \in 1 .. n - 1
  <2>1. j \in 1 .. n /\ j + 1 \in 1 .. n
    OBVIOUS
  <2> QED BY <1>4, <2>1
<1>7. Honest(u)
  <2>1. \A k \in 1 .. n : s[k].op = "data" => s[k].data = s[k].off + 1
    BY <1>2 DEF Honest
  <2>2. \A j \in 1 .. n - 1 : u[j].op = "data" => u[j].data = u[j].off + 1
    BY <1>6, <2>1
  <2> QED BY <1>4, <1>5, <2>2 DEF Honest
<1>8. Opened(u) => Opened(s)
  BY <1>2, <1>5, <1>6 DEF Opened
<1> QED BY <1>3, <1>7, <1>8

(* The first message is taken, by the device or by nobody.                 *)
LEMMA FirstMessage ==
    ASSUME NEW h, NEW ms, Sensible(h, ms), ms # <<>>
    PROVE  /\ Head(ms) \in MessageType
           /\ Head(ms).op = "open" => Head(ms).seq # 0
           /\ Head(ms).op = "credit" => Head(ms).off <= Len(h.out)
           /\ h.pc = "opening" => Head(ms).op = "open"
           /\ Sensible(h, Tail(ms))
<1>1. ms \in Seq(MessageType)
  BY DEF Sensible
<1>2. PICK t : t = Tail(ms)
  OBVIOUS
<1>3. PICK n \in Nat : Beheaded(ms, t, n)
  BY <1>1, <1>2, TailIs
<1>4. t \in Seq(MessageType) /\ Head(ms) \in MessageType
  BY <1>1, <1>2, TailIs
<1>5. Sensible(h, t)
  BY <1>3, <1>4 DEF Sensible, Beheaded
<1> QED BY <1>2, <1>3, <1>4, <1>5 DEF Sensible, Beheaded

(***************************************************************************)
(* The device.                                                             *)
(***************************************************************************)
LEMMA HandleFrameKeeps ==
    ASSUME BulkInv, HandleFrame
    PROVE  BulkInv'
<1>1. /\ DeviceInv(device, bytes) /\ bytes \in Content /\ Flight(device, bytes, mail, answers)
      /\ host \in HostRecord /\ Written(host) /\ Sensible(host, toDevice) /\ Honest(toHost) /\ Honest(tx)
      /\ Behind /\ Single
  BY DEF BulkInv, HostSide
<1>2. PICK f : f = Head(toDevice)
  OBVIOUS
<1>3. PICK r : r = Dispatch(device, f)
  OBVIOUS
<1>4. /\ toDevice # <<>> /\ f.op # "read"
      /\ device' = r.device /\ mail' = mail \o r.requests
      /\ toHost' = toHost \o (IF r.frames # <<>> THEN r.frames ELSE tx)
      /\ toDevice' = Tail(toDevice) /\ tx' = <<>> /\ turn' = "wait"
      /\ UNCHANGED <<host, single, bytes, answers, faults>>
  BY <1>2, <1>3 DEF HandleFrame
<1>5. /\ f \in MessageType /\ (f.op = "open" => f.seq # 0) /\ (f.op = "credit" => f.off <= Len(host.out))
      /\ (host.pc = "opening" => f.op = "open") /\ Sensible(host, Tail(toDevice))
  BY <1>1, <1>2, <1>4, FirstMessage
<1>6. Handled(device, r, bytes, mail, answers, IF f.op = "credit" /\ device.active THEN f.off ELSE 0)
  BY <1>1, <1>3, <1>4, <1>5, DispatchHandled
<1>7. DeviceInv(device', bytes') /\ bytes' \in Content /\ Flight(device', bytes', mail', answers')
  BY <1>1, <1>4, <1>6 DEF Handled
<1>8. HostSide'
  BY <1>1, <1>4, <1>5 DEF HostSide
<1>9. PICK s : s = IF r.frames # <<>> THEN r.frames ELSE tx
  OBVIOUS
<1>10. Honest(s) /\ toHost' = toHost \o s /\ (Opened(s) => Opened(r.frames) \/ Opened(tx))
  BY <1>1, <1>4, <1>6, <1>9 DEF Handled
<1>11. Honest(toHost') /\ (Opened(toHost') => Opened(toHost) \/ Opened(s)) /\ Honest(tx') /\ ~Opened(tx')
  <2>1. Honest(toHost \o s) /\ (Opened(toHost \o s) => Opened(toHost) \/ Opened(s))
    BY <1>1, <1>10, HonestConcat
  <2>2. Honest(toHost') /\ (Opened(toHost') => Opened(toHost) \/ Opened(s))
    BY <1>10, <2>1
  <2>3. Honest(tx') /\ ~Opened(tx')
    BY <1>4, NoFrame
  <2> QED BY <2>2, <2>3
<1>12. PICK now \in Nat : now = r.device.durable
  BY <1>6 DEF Handled, DeviceInv, DeviceRecord
<1>13. PICK before \in Nat : before = device.durable
  BY <1>1 DEF DeviceInv, DeviceRecord
<1>14. PICK n \in Nat : n = Len(host.out)
  <2>1. host.out \in Seq(Nat)
    BY <1>1 DEF HostRecord
  <2> QED BY <2>1, Lengths
<1>15. Behind'
  <2>1. ASSUME device'.active, host'.pc \in Waiting \ {"opening", "reading"}
        PROVE  device'.durable <= Len(host'.out)
    <3>1. CASE f.op = "credit" /\ device.active
      <4>1. f.off \in Nat
        BY <1>5 DEF MessageType
      <4>2. now <= f.off \/ now = before
        BY <1>6, <1>12, <1>13, <3>1 DEF Handled
      <4>3. before <= n /\ f.off <= n
        BY <1>1, <1>4, <1>5, <1>13, <1>14, <2>1, <3>1 DEF Behind
      <4>4. now <= n
        BY <4>1, <4>2, <4>3
      <4> QED BY <1>4, <1>12, <1>14, <4>4
    <3>2. CASE ~(f.op = "credit" /\ device.active)
      <4>1. now <= 0 \/ (now = before /\ device.active)
        BY <1>4, <1>6, <1>12, <1>13, <2>1, <3>2 DEF Handled
      <4>2. device.active => before <= n
        BY <1>1, <1>4, <1>13, <1>14, <2>1 DEF Behind
      <4>3. now <= n
        BY <4>1, <4>2
      <4> QED BY <1>4, <1>12, <1>14, <4>3
    <3> QED BY <3>1, <3>2
  <2>2. ASSUME host'.pc = "opening", Opened(toHost') \/ Opened(tx')
        PROVE  device'.durable = 0
    <3>1. f.op = "open"
      BY <1>4, <1>5, <2>2
    <3>2. now <= 0 \/ now = before
      BY <1>6, <1>12, <1>13, <3>1 DEF Handled
    <3>3. Opened(r.frames) => now = 0
      BY <1>6, <1>12 DEF Handled
    <3>4. Opened(toHost) \/ Opened(tx) => before = 0
      BY <1>1, <1>4, <1>13, <2>2 DEF Behind
    <3>5. now = 0
      BY <1>10, <1>11, <2>2, <3>2, <3>3, <3>4
    <3> QED BY <1>4, <1>12, <3>5
  <2> QED BY <2>1, <2>2 DEF Behind
<1>16. Single'
  BY <1>1, <1>4 DEF Single
<1> QED BY <1>7, <1>8, <1>11, <1>15, <1>16 DEF BulkInv

LEMMA HandleOwnerKeeps ==
    ASSUME BulkInv, HandleOwner
    PROVE  BulkInv'
<1>1. /\ DeviceInv(device, bytes) /\ bytes \in Content /\ Flight(device, bytes, mail, answers)
      /\ HostSide /\ host \in HostRecord /\ Honest(toHost) /\ Honest(tx) /\ Behind /\ Single
  BY DEF BulkInv, HostSide
<1>2. PICK r : r = Complete(device, Head(answers))
  OBVIOUS
<1>3. /\ answers # <<>> /\ device' = r.device /\ mail' = mail \o r.requests /\ tx' = r.frames
      /\ answers' = Tail(answers) /\ turn' = "transmit"
      /\ UNCHANGED <<host, toDevice, toHost, single, bytes, faults>>
  BY <1>2 DEF HandleOwner
<1>4. Handled(device, r, bytes, mail, Tail(answers), 0)
  BY <1>1, <1>2, <1>3, CompleteHandled
<1>5. DeviceInv(device', bytes') /\ bytes' \in Content /\ Flight(device', bytes', mail', answers')
  BY <1>1, <1>3, <1>4 DEF Handled
<1>6. HostSide' /\ Single' /\ Honest(toHost') /\ Honest(tx')
  BY <1>1, <1>3, <1>4 DEF HostSide, Single, Handled
<1>7. PICK now \in Nat : now = r.device.durable
  BY <1>4 DEF Handled, DeviceInv, DeviceRecord
<1>8. PICK n \in Nat : n = Len(host.out)
  <2>1. host.out \in Seq(Nat)
    BY <1>1 DEF HostRecord
  <2> QED BY <2>1, Lengths
<1>9. now = 0 \/ (now = device.durable /\ (r.device.active => device.active))
  BY <1>4, <1>7 DEF Handled
<1>10. Opened(r.frames) => now = 0
  BY <1>4, <1>7 DEF Handled
<1>11. Behind'
  <2>1. ASSUME device'.active, host'.pc \in Waiting \ {"opening", "reading"}
        PROVE  now <= n
    BY <1>1, <1>3, <1>7, <1>8, <1>9, <2>1 DEF Behind
  <2>2. ASSUME host'.pc = "opening", Opened(toHost') \/ Opened(tx')
        PROVE  now = 0
    BY <1>1, <1>3, <1>9, <1>10, <2>2 DEF Behind
  <2>3. device'.durable = now /\ Len(host'.out) = n
    BY <1>3, <1>7, <1>8
  <2> QED BY <2>1, <2>2, <2>3 DEF Behind
<1> QED BY <1>5, <1>6, <1>11 DEF BulkInv

LEMMA TransmitKeeps ==
    ASSUME BulkInv, Transmit
    PROVE  BulkInv'
<1>1. /\ toHost' = toHost \o tx /\ tx' = <<>> /\ turn' = "wait"
      /\ UNCHANGED <<host, toDevice, device, single, bytes, mail, answers>>
  BY DEF Transmit, ownerVars
<1>2. Honest(toHost') /\ (Opened(toHost') => Opened(toHost) \/ Opened(tx)) /\ Honest(tx') /\ ~Opened(tx')
  BY <1>1, HonestConcat, NoFrame DEF BulkInv
<1>3. HostSide' /\ Single'
  BY <1>1 DEF BulkInv, HostSide, Single
<1>4. Behind'
  BY <1>1, <1>2 DEF BulkInv, Behind
<1> QED BY <1>1, <1>2, <1>3, <1>4 DEF BulkInv

(***************************************************************************)
(* The older commands ask the owner for nothing that has to do with a      *)
(* lease, whatever they find when they wait for it.                        *)
(***************************************************************************)
LEMMA SingleAsks ==
    ASSUME NEW d, NEW b, NEW ms, NEW as, Flight(d, b, ms, as),
           NEW seq \in Nat, NEW lease \in Nat, lease \notin SlotIds,
           NEW m, m = Request("single", seq, 0, lease)
    PROVE  Flight(d, b, Append(ms, m), as)
<1>1. m \in MailType /\ m.by = "single" /\ Asked(d, m)
  BY DEF Request, MailType, Asked
<1>2. ms \in Seq(MailType) /\ as \in Seq(AnswerType)
  BY DEF Flight
<1>3. PICK t : t = Append(ms, m)
  OBVIOUS
<1>4. PICK n \in Nat : n = Len(ms) /\ DOMAIN ms = 1 .. n
  BY <1>2, Lengths
<1>5. /\ t \in Seq(MailType) /\ Len(t) = n + 1 /\ t[n + 1] = m /\ \A k \in 1 .. n : t[k] = ms[k]
  BY <1>1, <1>2, <1>3, <1>4, AppendProperties
<1>6. DOMAIN t = 1 .. n + 1 /\ \A k \in 1 .. n + 1 : k \in 1 .. n \/ k = n + 1
  BY <1>5
<1>7. ASSUME NEW k \in 1 .. n
      PROVE  /\ Asked(d, t[k])
             /\ \A i \in DOMAIN d.outstanding :
                   t[k].by = "bulk" /\ t[k].seq = d.outstanding[i].seq => t[k].off = d.outstanding[i].off
             /\ \A j \in 1 .. n : j # k => ~Same(t[j], t[k])
             /\ \A j \in DOMAIN as : ~Same(as[j], t[k])
  <2>1. /\ Asked(d, ms[k])
        /\ \A i \in DOMAIN d.outstanding :
              ms[k].by = "bulk" /\ ms[k].seq = d.outstanding[i].seq => ms[k].off = d.outstanding[i].off
        /\ \A j \in 1 .. n : j # k => ~Same(ms[j], ms[k])
        /\ \A j \in DOMAIN as : ~Same(as[j], ms[k])
    BY <1>4 DEF Flight
  <2>2. t[k] = ms[k] /\ \A j \in 1 .. n : t[j] = ms[j]
    BY <1>5
  <2>3. \A j \in 1 .. n : j # k => ~Same(t[j], t[k])
    BY <2>1, <2>2, Zenon
  <2> QED BY <2>1, <2>2, <2>3
<1>8. \A x : ~Same(x, m) /\ ~Same(m, x)
  BY <1>1 DEF Same
<1>9. \A k \in 1 .. n + 1 :
        /\ Asked(d, t[k])
        /\ \A i \in DOMAIN d.outstanding :
              t[k].by = "bulk" /\ t[k].seq = d.outstanding[i].seq => t[k].off = d.outstanding[i].off
        /\ \A j \in 1 .. n + 1 : j # k => ~Same(t[j], t[k])
        /\ \A j \in DOMAIN as : ~Same(as[j], t[k])
  <2> TAKE k \in 1 .. n + 1
  <2>1. CASE k \in 1 .. n
    <3>1. \A j \in 1 .. n + 1 : j # k => ~Same(t[j], t[k])
      <4> TAKE j \in 1 .. n + 1
      <4>1. CASE j \in 1 .. n
        BY <1>7, <2>1, <4>1
      <4>2. CASE j = n + 1
        BY <1>5, <1>8, <4>2
      <4> QED BY <1>6, <4>1, <4>2
    <3> QED BY <1>7, <2>1, <3>1
  <2>2. CASE k = n + 1
    BY <1>1, <1>5, <1>8, <2>2
  <2> QED BY <1>6, <2>1, <2>2
<1>10. Flight(d, b, t, as)
  <2>1. /\ as \in Seq(AnswerType)
        /\ \A k \in DOMAIN as :
             /\ Asked(d, as[k]) /\ Filled(d, b, as[k])
             /\ \A j \in DOMAIN as : j # k => ~Same(as[j], as[k])
    BY DEF Flight
  <2> QED BY <1>5, <1>6, <1>9, <2>1 DEF Flight
<1> QED BY <1>3, <1>10

LEMMA LeasesOfSingle == None \in Nat /\ Transfer \in Nat /\ None \notin SlotIds /\ Transfer \notin SlotIds
BY ConstantsAssumption DEF None, Transfer, SlotIds

LEMMA BeginReadKeeps ==
    ASSUME BulkInv, BeginRead
    PROVE  BulkInv'
<1>1. PICK lease \in {None, Transfer}, size \in BOOLEAN : Submit(lease, size)
  BY DEF BeginRead
<1>2. /\ toDevice # <<>> /\ toDevice' = Tail(toDevice)
      /\ tx' = <<Frame("read", Head(toDevice).seq, FALSE, 0, 0, <<>>)>>
      /\ UNCHANGED <<host, toHost, device, bytes, answers>>
  BY DEF BeginRead
<1>3. single \in [step : {"none", "size", "read"}, seq : Nat, cached : BOOLEAN]
  BY DEF BulkInv, Single
<1>4. /\ mail' = Append(mail, Request("single", single.seq + 1, 0, lease))
      /\ single' = [single EXCEPT !.seq = @ + 1, !.step = IF size THEN "size" ELSE "read"]
  BY <1>1 DEF Submit
<1>5. /\ single' \in [step : {"none", "size", "read"}, seq : Nat, cached : BOOLEAN]
      /\ single.seq + 1 \in Nat
  <2>1. PICK s : s = single
    OBVIOUS
  <2>2. s.seq \in Nat /\ s.seq + 1 \in Nat /\ s \in [step : {"none", "size", "read"}, seq : Nat, cached : BOOLEAN]
    BY <1>3, <2>1
  <2>3. single' = [s EXCEPT !.seq = s.seq + 1, !.step = IF size THEN "size" ELSE "read"]
    BY <1>4, <2>1
  <2>4. single' \in [step : {"none", "size", "read"}, seq : Nat, cached : BOOLEAN]
    BY <2>2, <2>3
  <2> QED BY <2>1, <2>2, <2>4
<1>6. Flight(device, bytes, mail', answers)
  <2>1. lease \in Nat /\ lease \notin SlotIds
    BY LeasesOfSingle
  <2>2. PICK m : m = Request("single", single.seq + 1, 0, lease)
    OBVIOUS
  <2>3. Flight(device, bytes, Append(mail, m), answers)
    BY <1>5, <2>1, <2>2, SingleAsks DEF BulkInv
  <2> QED BY <1>4, <2>2, <2>3
<1>7. Sensible(host, Tail(toDevice)) /\ Head(toDevice) \in MessageType
  BY <1>2, FirstMessage DEF BulkInv, HostSide
<1>8. HostSide'
  BY <1>2, <1>7 DEF BulkInv, HostSide
<1>9. PICK f : f = Frame("read", Head(toDevice).seq, FALSE, 0, 0, <<>>)
  OBVIOUS
<1>10. f \in FrameType /\ f.op = "read"
  <2>1. Head(toDevice).seq \in Nat
    BY <1>7 DEF MessageType
  <2>2. <<>> \in Seq(Nat)
    OBVIOUS
  <2> QED BY <1>9, <2>1, <2>2 DEF Frame, FrameType
<1>11. Honest(<<f>>) /\ ~Opened(<<f>>)
  BY <1>10, OneFrame
<1>12. tx' = <<f>> /\ Honest(tx') /\ ~Opened(tx') /\ Len(tx') = 1 /\ tx'[1].op = "read"
  BY <1>2, <1>9, <1>10, <1>11
<1>13. Behind' /\ Single'
  BY <1>2, <1>5, <1>12 DEF BulkInv, Behind, Single
<1> QED BY <1>2, <1>6, <1>8, <1>12, <1>13 DEF BulkInv

LEMMA SizeDoneKeeps ==
    ASSUME BulkInv, SizeDone
    PROVE  BulkInv'
<1>1. /\ answers # <<>> /\ answers' = Tail(answers) /\ turn = "exchange"
      /\ UNCHANGED <<host, toDevice, toHost, device, bytes, tx>>
  BY DEF SizeDone
<1>2. single \in [step : {"none", "size", "read"}, seq : Nat, cached : BOOLEAN]
  BY DEF BulkInv, Single
<1>3. Flight(device, bytes, mail, answers')
  <2>1. Flight(device, bytes, mail, Tail(answers))
    BY <1>1, DroppedFlight DEF BulkInv
  <2> QED BY <1>1, <2>1
<1>4. CASE Mine(Head(answers))
  <2>1. /\ mail' = Append(mail, Request("single", single.seq + 1, 0, Transfer))
        /\ single' = [single EXCEPT !.seq = @ + 1, !.step = "read", !.cached = TRUE]
        /\ UNCHANGED turn
    BY <1>4 DEF SizeDone
  <2>2. /\ single' \in [step : {"none", "size", "read"}, seq : Nat, cached : BOOLEAN]
        /\ single.seq + 1 \in Nat
    <3>1. PICK s : s = single
      OBVIOUS
    <3>2. s.seq \in Nat /\ s.seq + 1 \in Nat /\ s \in [step : {"none", "size", "read"}, seq : Nat, cached : BOOLEAN]
      BY <1>2, <3>1
    <3>3. single' = [s EXCEPT !.seq = s.seq + 1, !.step = "read", !.cached = TRUE]
      BY <2>1, <3>1
    <3>4. single' \in [step : {"none", "size", "read"}, seq : Nat, cached : BOOLEAN]
      BY <3>2, <3>3
    <3> QED BY <3>1, <3>2, <3>4
  <2>3. PICK m : m = Request("single", single.seq + 1, 0, Transfer)
    OBVIOUS
  <2>4. PICK rest : rest = answers'
    OBVIOUS
  <2>5. Flight(device, bytes, Append(mail, m), rest)
    BY <1>3, <2>2, <2>3, <2>4, LeasesOfSingle, SingleAsks
  <2>6. Flight(device, bytes, mail', answers')
    BY <2>1, <2>3, <2>4, <2>5
  <2>7. HostSide' /\ Behind' /\ Single' /\ Honest(toHost') /\ Honest(tx')
    BY <1>1, <2>1, <2>2 DEF BulkInv, HostSide, Behind, Single
  <2> QED BY <1>1, <2>6, <2>7 DEF BulkInv
<1>5. CASE ~Mine(Head(answers))
  <2>1. /\ single' = [single EXCEPT !.step = "none", !.cached = FALSE] /\ turn' = "transmit"
        /\ UNCHANGED mail
    BY <1>5 DEF SizeDone
  <2>2. single' \in [step : {"none", "size", "read"}, seq : Nat, cached : BOOLEAN]
    BY <1>2, <2>1
  <2>3. HostSide' /\ Behind' /\ Single' /\ Honest(toHost') /\ Honest(tx')
    BY <1>1, <2>1, <2>2 DEF BulkInv, HostSide, Behind, Single
  <2> QED BY <1>1, <1>3, <2>1, <2>3 DEF BulkInv
<1> QED BY <1>4, <1>5

LEMMA ReadAnsweredKeeps ==
    ASSUME BulkInv, ReadAnswered
    PROVE  BulkInv'
<1>1. PICK mine \in BOOLEAN : tx' = [tx EXCEPT ![1].ok = mine]
  <2>1. tx' = [tx EXCEPT ![1].ok = Mine(Head(answers))]
    BY DEF ReadAnswered
  <2>2. Mine(Head(answers)) \in BOOLEAN
    <3>1. answers \in Seq(AnswerType) /\ answers # <<>>
      BY DEF BulkInv, Flight, ReadAnswered
    <3>2. Head(answers) \in AnswerType
      BY <3>1, TailIs
    <3>3. Head(answers).ok \in BOOLEAN
      BY <3>2 DEF AnswerType
    <3> QED BY <3>3 DEF Mine
  <2> QED BY <2>1, <2>2
<1>2. /\ answers # <<>> /\ answers' = Tail(answers) /\ turn = "exchange" /\ turn' \in {"transmit", "panicked"}
      /\ single' = [single EXCEPT !.step = "none"]
      /\ UNCHANGED <<host, toDevice, toHost, device, bytes, mail>>
  BY DEF ReadAnswered
<1>3. Flight(device, bytes, mail, answers')
  <2>1. Flight(device, bytes, mail, Tail(answers))
    BY <1>2, DroppedFlight DEF BulkInv
  <2> QED BY <1>2, <2>1
<1>4. single' \in [step : {"none", "size", "read"}, seq : Nat, cached : BOOLEAN]
  BY <1>2 DEF BulkInv, Single
<1>5. Len(tx) = 1 /\ tx[1].op = "read" /\ tx \in Seq(FrameType)
  BY <1>2 DEF BulkInv, Single, Honest
<1>6. PICK f : f = tx[1]
  OBVIOUS
<1>7. f \in FrameType /\ f.op = "read" /\ DOMAIN tx = 1 .. 1
  BY <1>5, <1>6
<1>8. PICK g : g = [f EXCEPT !.ok = mine]
  OBVIOUS
<1>9. g \in FrameType /\ g.op = "read"
  BY <1>7, <1>8 DEF FrameType
<1>10. tx' = <<g>>
  <2>1. tx' = [tx EXCEPT ![1] = g]
    BY <1>1, <1>6, <1>8
  <2>2. tx' \in Seq(FrameType) /\ Len(tx') = 1 /\ tx'[1] = g
    BY <1>5, <1>7, <1>9, <2>1, SMTT(30)
  <2> QED BY <2>2
<1>11. Honest(<<g>>) /\ ~Opened(<<g>>)
  BY <1>9, OneFrame
<1>12. HostSide' /\ Behind' /\ Single' /\ Honest(toHost') /\ Honest(tx')
  BY <1>2, <1>4, <1>10, <1>11 DEF BulkInv, HostSide, Behind, Single
<1> QED BY <1>2, <1>3, <1>12 DEF BulkInv

LEMMA ExpireIdleKeeps ==
    ASSUME BulkInv, ExpireIdle
    PROVE  BulkInv'
<1>1. UNCHANGED <<host, toDevice, toHost, tx, single, turn, bytes, mail, answers>>
  BY DEF ExpireIdle, wires, ownerVars
<1>2. DeviceInv(device, bytes) /\ Flight(device, bytes, mail, answers)
  BY DEF BulkInv
<1>3. PICK e : e = IF device.active THEN Aborted(device) ELSE Release([device EXCEPT !.named = FALSE, !.sent = <<>>])
  OBVIOUS
<1>4. DeviceInv(e, bytes) /\ Flight(e, bytes, mail, answers) /\ ~e.active /\ e.durable \in {0, device.durable}
  BY <1>2, <1>3, EndedKeeps
<1>5. PICK g : g = [e EXCEPT !.armed = FALSE]
  OBVIOUS
<1>6. /\ g \in DeviceRecord
      /\ g.mode = e.mode /\ g.opening = e.opening /\ g.named = e.named /\ g.active = e.active
      /\ g.tombstone = e.tombstone /\ g.gen = e.gen /\ g.slots = e.slots /\ g.queue = e.queue
      /\ g.produced = e.produced /\ g.durable = e.durable /\ g.summed = e.summed /\ g.sent = e.sent
      /\ g.outstanding = e.outstanding /\ g.pending = e.pending /\ g.next = e.next /\ g.home = e.home
  <2>1. e \in DeviceRecord
    BY <1>4 DEF DeviceInv
  <2> QED BY <1>5, <2>1 DEF DeviceRecord
<1>7. ~g.active => g.queue = <<>>
  BY <1>4, <1>6 DEF DeviceInv, Ordered
<1>8. DeviceInv(g, bytes)
  BY <1>4, <1>6, <1>7, FlagsKeep
<1>9. Flight(g, bytes, mail, answers)
  BY <1>4, <1>6, FlightAlike
<1>10. device' = g
  BY <1>3, <1>5 DEF ExpireIdle
<1>11. HostSide' /\ Single' /\ Honest(toHost') /\ Honest(tx')
  BY <1>1 DEF BulkInv, HostSide, Single
<1>12. Behind'
  BY <1>1, <1>4, <1>6, <1>10 DEF BulkInv, Behind
<1> QED BY <1>1, <1>8, <1>9, <1>10, <1>11, <1>12 DEF BulkInv

(***************************************************************************)
(* The host.                                                               *)
(***************************************************************************)
OfStream == Waiting \ {"opening", "reading"}

LEMMA SensibleGrows ==
    ASSUME NEW h, NEW g, NEW ms, NEW more, Sensible(h, ms), Sensible(g, more), g.pc # "opening",
           NEW n \in Nat, NEW m \in Nat, n = Len(h.out), m = Len(g.out), n <= m
    PROVE  Sensible(g, ms \o more)
<1>1. ms \in Seq(MessageType) /\ more \in Seq(MessageType)
  BY DEF Sensible
<1>2. PICK i \in Nat : i = Len(ms) /\ DOMAIN ms = 1 .. i
  BY <1>1, Lengths
<1>3. PICK j \in Nat : j = Len(more) /\ DOMAIN more = 1 .. j
  BY <1>1, Lengths
<1>4. PICK u : u = ms \o more
  OBVIOUS
<1>5. u \in Seq(MessageType) /\ Len(u) = i + j /\ \A k \in 1 .. i + j : u[k] = IF k <= i THEN ms[k] ELSE more[k - i]
  BY <1>1, <1>2, <1>3, <1>4, ConcatType
<1>6. DOMAIN u = 1 .. i + j
  BY <1>5
<1>7. /\ \A k \in 1 .. i : (ms[k].op = "open" => ms[k].seq # 0) /\ (ms[k].op = "credit" => ms[k].off <= n)
      /\ \A k \in 1 .. j : (more[k].op = "open" => more[k].seq # 0) /\ (more[k].op = "credit" => more[k].off <= m)
  BY <1>2, <1>3 DEF Sensible
<1>8. ASSUME NEW k \in 1 .. i + j
      PROVE  (u[k].op = "open" => u[k].seq # 0) /\ (u[k].op = "credit" => u[k].off <= m)
  <2>1. CASE k <= i
    <3>1. k \in 1 .. i /\ u[k] = ms[k]
      BY <1>5, <2>1
    <3>2. u[k] \in MessageType
      BY <1>5, <1>6
    <3>3. PICK off \in Nat : u[k].off = off
      BY <3>2 DEF MessageType
    <3> QED BY <1>7, <3>1, <3>3
  <2>2. CASE ~(k <= i)
    <3>1. k - i \in 1 .. j /\ u[k] = more[k - i]
      BY <1>5, <2>2
    <3> QED BY <1>7, <3>1
  <2> QED BY <2>1, <2>2
<1>9. Sensible(g, u)
  BY <1>5, <1>6, <1>8 DEF Sensible
<1> QED BY <1>4, <1>9

(* A host that waits sends messages and writes chunks.                     *)
LEMMA HostMoves ==
    ASSUME BulkInv, NEW h \in HostRecord, Written(h), h.pc # "opening",
           NEW frames, Sensible(h, frames), Step(h, frames),
           UNCHANGED <<device, single, tx, turn, ownerVars>>, Honest(toHost'),
           Len(host.out) <= Len(h.out),
           device.active /\ h.pc \in OfStream => host.pc \in OfStream \/ device.durable = 0
    PROVE  BulkInv'
<1>1. host' = h /\ toDevice' = toDevice \o frames
  BY DEF Step
<1>2. UNCHANGED <<device, single, tx, turn, bytes, mail, answers>>
  BY DEF ownerVars
<1>3. PICK n \in Nat : n = Len(host.out)
  <2>1. host.out \in Seq(Nat)
    BY DEF BulkInv, HostSide, HostRecord
  <2> QED BY <2>1, Lengths
<1>4. PICK m \in Nat : m = Len(h.out)
  <2>1. h.out \in Seq(Nat)
    BY DEF HostRecord
  <2> QED BY <2>1, Lengths
<1>5. Sensible(h, toDevice \o frames)
  BY <1>3, <1>4, SensibleGrows DEF BulkInv, HostSide
<1>6. HostSide'
  BY <1>1, <1>5 DEF HostSide
<1>7. PICK durable \in Nat : durable = device.durable
  BY DEF BulkInv, DeviceInv, DeviceRecord
<1>8. device.active /\ host.pc \in OfStream => durable <= n
  BY <1>3, <1>7 DEF BulkInv, Behind, OfStream
<1>9. device.active /\ h.pc \in OfStream => durable <= m
  BY <1>3, <1>4, <1>7, <1>8
<1>10. Behind'
  BY <1>1, <1>2, <1>4, <1>7, <1>9 DEF Behind, OfStream
<1>11. Single' /\ Honest(tx')
  BY <1>2 DEF BulkInv, Single
<1> QED BY <1>2, <1>6, <1>10, <1>11 DEF BulkInv

LEMMA OneMessage ==
    ASSUME NEW op \in {"open", "credit", "status", "finish", "abort", "read"}, NEW seq \in Nat,
           NEW off \in Nat, NEW credits \in Nat
    PROVE  LET m == Message(op, seq, off, credits) IN
           /\ m \in MessageType /\ m.op = op /\ m.seq = seq /\ m.off = off
           /\ <<m>> \in Seq(MessageType) /\ DOMAIN <<m>> = {1} /\ <<m>>[1] = m
<1>1. PICK m : m = Message(op, seq, off, credits)
  OBVIOUS
<1>2. m \in MessageType /\ m.op = op /\ m.seq = seq /\ m.off = off
  BY <1>1 DEF Message, MessageType
<1>3. <<m>> \in Seq(MessageType) /\ DOMAIN <<m>> = {1} /\ <<m>>[1] = m
  BY <1>2
<1> QED BY <1>1, <1>2, <1>3

(* The session is over for the host.                                       *)
LEMMA HostEnds ==
    ASSUME BulkInv, NEW pc \in {"failed", "done", "gone"}, Step([host EXCEPT !.pc = pc], <<>>),
           UNCHANGED <<device, single, tx, turn, ownerVars>>, Honest(toHost')
    PROVE  BulkInv'
<1>1. host \in HostRecord /\ Written(host)
  BY DEF BulkInv, HostSide
<1>2. PICK h : h = [host EXCEPT !.pc = pc]
  OBVIOUS
<1>3. h \in HostRecord /\ h.pc = pc /\ h.out = host.out
  <2>1. pc \in Places
    BY DEF Places
  <2> QED BY <1>1, <1>2, <2>1 DEF HostRecord
<1>4. Written(h)
  BY <1>1, <1>3 DEF Written
<1>5. Sensible(h, <<>>)
  BY DEF Sensible
<1>6. Len(host.out) <= Len(h.out)
  <2>1. host.out \in Seq(Nat)
    BY <1>1 DEF HostRecord
  <2>2. Len(host.out) \in Nat
    BY <2>1
  <2> QED BY <1>3, <2>2
<1>7. h.pc \notin OfStream /\ h.pc # "opening" /\ Step(h, <<>>)
  BY <1>2, <1>3 DEF OfStream, Waiting
<1> QED BY <1>3, <1>4, <1>5, <1>6, <1>7, HostMoves

(* It asks for a status, or gives up.                                      *)
LEMMA HostAsks ==
    ASSUME BulkInv, host.pc \in {"polling", "status", "finishing"},
           NEW pc \in {"status", "aborting"}, NEW op \in {"status", "abort"}, Ask(host, pc, op),
           UNCHANGED <<device, single, tx, turn, ownerVars>>, Honest(toHost')
    PROVE  BulkInv'
<1>1. host \in HostRecord /\ Written(host)
  BY DEF BulkInv, HostSide
<1>2. PICK seq \in Nat : seq = host.seq + 1
  <2>1. PICK n \in Nat : host.seq = n
    BY <1>1 DEF HostRecord
  <2> QED BY <2>1
<1>3. PICK h : h = [host EXCEPT !.pc = pc, !.seq = @ + 1]
  OBVIOUS
<1>4. h \in HostRecord /\ h.pc = pc /\ h.out = host.out
  <2>1. pc \in Places
    BY DEF Places, Waiting
  <2>2. h = [host EXCEPT !.pc = pc, !.seq = seq]
    BY <1>2, <1>3
  <2> QED BY <1>1, <2>1, <2>2 DEF HostRecord
<1>5. PICK m : m = Message(op, seq, 0, 0)
  OBVIOUS
<1>6. Step(h, <<m>>)
  BY <1>2, <1>3, <1>5 DEF Ask
<1>7. Sensible(h, <<m>>)
  <2>1. m.op = op /\ <<m>> \in Seq(MessageType) /\ DOMAIN <<m>> = {1} /\ <<m>>[1] = m
    BY <1>5, OneMessage
  <2> QED BY <1>4, <2>1 DEF Sensible
<1>8. Written(h)
  BY <1>1, <1>4 DEF Written
<1>9. Len(host.out) <= Len(h.out)
  <2>1. host.out \in Seq(Nat)
    BY <1>1 DEF HostRecord
  <2>2. Len(host.out) \in Nat
    BY <2>1
  <2> QED BY <1>4, <2>2
<1>10. host.pc \in OfStream /\ h.pc # "opening"
  BY <1>4 DEF OfStream, Waiting
<1> QED BY <1>4, <1>6, <1>7, <1>8, <1>9, <1>10, HostMoves

LEMMA StopKeeps ==
    ASSUME BulkInv, host.pc \in Waiting, Stop,
           UNCHANGED <<device, single, tx, turn, ownerVars>>, Honest(toHost')
    PROVE  BulkInv'
<1>1. CASE host.pc \in {"opening", "aborting", "reading"}
  <2>1. Step([host EXCEPT !.pc = "failed"], <<>>)
    BY <1>1 DEF Stop, End
  <2> QED BY <2>1, HostEnds
<1>2. CASE host.pc \notin {"opening", "aborting", "reading"}
  <2>1. Ask(host, "aborting", "abort") /\ host.pc \in {"polling", "status", "finishing"}
    BY <1>2 DEF Stop, GiveUp, Waiting
  <2> QED BY <2>1, HostAsks
<1> QED BY <1>1, <1>2

(* It goes on with the loop, or asks for the end of the stream.            *)
LEMMA ProceedKeeps ==
    ASSUME BulkInv, NEW h \in HostRecord, Len(h.out) <= Chunks, \A k \in 1 .. Len(h.out) : h.out[k] = k,
           NEW frames, Sensible([h EXCEPT !.pc = "polling"], frames), Proceed(h, frames),
           UNCHANGED <<device, single, tx, turn, ownerVars>>, Honest(toHost'),
           Len(host.out) <= Len(h.out),
           device.active => host.pc \in OfStream \/ device.durable = 0
    PROVE  BulkInv'
<1>1. h.out \in Seq(Nat) /\ "polling" \in Places /\ "finishing" \in Places
  BY DEF HostRecord, Places, Waiting
<1>2. PICK n \in Nat : n = Len(h.out)
  BY <1>1, Lengths
<1>3. CASE n < Chunks
  <2>1. PICK g : g = [h EXCEPT !.pc = "polling"]
    OBVIOUS
  <2>2. g \in HostRecord /\ g.pc = "polling" /\ g.out = h.out
    BY <1>1, <2>1 DEF HostRecord
  <2>3. Written(g)
    BY <1>2, <1>3, <2>2 DEF Written
  <2>4. Step(g, frames) /\ Sensible(g, frames)
    BY <1>2, <1>3, <2>1 DEF Proceed
  <2>5. Len(host.out) <= Len(g.out) /\ g.pc # "opening"
    BY <2>2
  <2> QED BY <2>2, <2>3, <2>4, <2>5, HostMoves
<1>4. CASE ~(n < Chunks)
  <2>1. n = Chunks
    BY <1>2, <1>4, ConstantsAssumption
  <2>2. PICK seq \in Nat : seq = h.seq + 1
    <3>1. PICK i \in Nat : h.seq = i
      BY DEF HostRecord
    <3> QED BY <3>1
  <2>3. PICK g : g = [h EXCEPT !.pc = "finishing", !.seq = @ + 1]
    OBVIOUS
  <2>4. g \in HostRecord /\ g.pc = "finishing" /\ g.out = h.out
    <3>1. g = [h EXCEPT !.pc = "finishing", !.seq = seq]
      BY <2>2, <2>3
    <3> QED BY <1>1, <3>1 DEF HostRecord
  <2>5. Written(g)
    BY <1>2, <2>1, <2>4 DEF Written
  <2>6. PICK m : m = Message("finish", seq, 0, 0)
    OBVIOUS
  <2>7. m \in MessageType /\ m.op = "finish"
    BY <2>6 DEF Message, MessageType
  <2>8. PICK p : p = [h EXCEPT !.pc = "polling"]
    OBVIOUS
  <2>9. p.pc = "polling" /\ p.out = h.out /\ Sensible(p, frames)
    BY <2>8 DEF HostRecord
  <2>10. Sensible(g, Append(frames, m))
    <3>1. frames \in Seq(MessageType)
      BY <2>9 DEF Sensible
    <3>2. PICK l \in Nat : l = Len(frames) /\ DOMAIN frames = 1 .. l
      BY <3>1, Lengths
    <3>3. PICK t : t = Append(frames, m)
      OBVIOUS
    <3>4. t \in Seq(MessageType) /\ Len(t) = l + 1 /\ t[l + 1] = m /\ \A k \in 1 .. l : t[k] = frames[k]
      BY <2>7, <3>1, <3>2, <3>3, AppendProperties
    <3>5. DOMAIN t = 1 .. l + 1 /\ \A k \in 1 .. l + 1 : k \in 1 .. l \/ k = l + 1
      BY <3>4
    <3>6. \A k \in 1 .. l : (frames[k].op = "open" => frames[k].seq # 0) /\ (frames[k].op = "credit" => frames[k].off <= Len(g.out))
      BY <2>4, <2>9, <3>2 DEF Sensible
    <3>7. \A k \in 1 .. l + 1 : (t[k].op = "open" => t[k].seq # 0) /\ (t[k].op = "credit" => t[k].off <= Len(g.out))
      BY <2>7, <3>4, <3>5, <3>6
    <3>8. Sensible(g, t)
      BY <2>4, <3>4, <3>5, <3>7 DEF Sensible
    <3> QED BY <3>3, <3>8
  <2>11. Step(g, Append(frames, m))
    BY <1>2, <1>4, <2>2, <2>3, <2>6 DEF Proceed
  <2>12. Len(host.out) <= Len(g.out) /\ g.pc # "opening"
    BY <2>4
  <2> QED BY <2>4, <2>5, <2>10, <2>11, <2>12, HostMoves
<1> QED BY <1>3, <1>4

LEMMA PositionIs ==
    ASSUME toHost \in Seq(FrameType), Position # 0
    PROVE  Position \in 1 .. Len(toHost) /\ toHost[Position] \in FrameType
<1>1. PICK n \in Nat : n = Len(toHost) /\ DOMAIN toHost = 1 .. n
  BY Lengths
<1>2. PICK I : I = {i \in 1 .. n : IF host.pc = "polling" THEN toHost[i].op = "data" ELSE toHost[i].seq = host.seq}
  OBVIOUS
<1>3. Position = IF I # {} THEN Min(I) ELSE 0
  BY <1>1, <1>2 DEF Position, SelectInSeq
<1>4. I \in SUBSET Nat /\ I \subseteq 1 .. n
  BY <1>2
<1>5. Position \in I
  BY <1>3, <1>4, MinIsLeast
<1>6. Position \in 1 .. n
  BY <1>4, <1>5
<1> QED BY <1>1, <1>6

LEMMA WrittenIsFile ==
    ASSUME NEW out \in Seq(Nat), Len(out) = Chunks, \A k \in 1 .. Len(out) : out[k] = k
    PROVE  out = File
<1>1. DOMAIN out = 1 .. Chunks /\ out = [k \in DOMAIN out |-> out[k]]
  OBVIOUS
<1> QED BY <1>1 DEF File

(* A chunk is written at the end of what is there.                         *)
LEMMA GotKeeps ==
    ASSUME BulkInv, NEW f \in FrameType, f.data = f.off + 1, host.pc = "polling",
           f.off = Len(host.out), Got(f),
           UNCHANGED <<device, single, tx, turn, ownerVars>>, Honest(toHost')
    PROVE  BulkInv'
<1>1. host \in HostRecord /\ Written(host)
  BY DEF BulkInv, HostSide
<1>2. host.out \in Seq(Nat) /\ host.owed \in Nat
  BY <1>1 DEF HostRecord
<1>3. PICK n \in Nat : n = Len(host.out) /\ n < Chunks
  BY <1>1, <1>2, Lengths DEF Written
<1>4. PICK out : out = Append(host.out, f.data)
  OBVIOUS
<1>5. out \in Seq(Nat) /\ Len(out) = n + 1 /\ \A k \in 1 .. n + 1 : out[k] = k
  <2>1. f.data = n + 1 /\ f.data \in Nat
    BY <1>3
  <2>2. out \in Seq(Nat) /\ Len(out) = n + 1 /\ out[n + 1] = n + 1 /\ \A k \in 1 .. n : out[k] = host.out[k]
    BY <1>2, <1>3, <1>4, <2>1, AppendProperties
  <2>3. \A k \in 1 .. n : host.out[k] = k
    BY <1>1, <1>3 DEF Written
  <2>4. \A k \in 1 .. n + 1 : k \in 1 .. n \/ k = n + 1
    OBVIOUS
  <2> QED BY <2>2, <2>3, <2>4
<1>6. PICK owed \in Nat : owed = host.owed + 1
  <2>1. PICK i \in Nat : host.owed = i
    BY <1>2
  <2> QED BY <2>1
<1>7. PICK h : h = [host EXCEPT !.out = Append(@, f.data), !.owed = @ + 1]
  OBVIOUS
<1>8. h \in HostRecord /\ h.out = out /\ h.owed = owed /\ h.pc = "polling"
  <2>1. h = [host EXCEPT !.out = out, !.owed = owed]
    BY <1>4, <1>6, <1>7
  <2> QED BY <1>1, <1>5, <2>1 DEF HostRecord
<1>9. host.pc \in OfStream
  BY DEF OfStream, Waiting
<1>10. n <= n + 1 /\ n + 1 <= Chunks /\ n + 1 \in Nat
  BY <1>3, ConstantsAssumption
<1>11. CASE h.owed < Batch /\ Len(h.out) # Chunks
  <2>1. Proceed(h, <<>>)
    BY <1>7, <1>11 DEF Got
  <2>2. Sensible([h EXCEPT !.pc = "polling"], <<>>)
    BY DEF Sensible
  <2> QED BY <1>3, <1>5, <1>8, <1>9, <1>10, <2>1, <2>2, ProceedKeeps
<1>12. CASE ~(h.owed < Batch /\ Len(h.out) # Chunks)
  <2>1. PICK g : g = [h EXCEPT !.owed = 0]
    OBVIOUS
  <2>2. g \in HostRecord /\ g.out = out /\ g.pc = "polling"
    BY <1>8, <2>1 DEF HostRecord
  <2>3. PICK m : m = Message("credit", 0, n + 1, owed)
    OBVIOUS
  <2>4. m \in MessageType /\ m.op = "credit" /\ m.off = n + 1
    BY <1>6, <1>10, <2>3 DEF Message, MessageType
  <2>5. <<m>> \in Seq(MessageType) /\ DOMAIN <<m>> = {1} /\ <<m>>[1] = m
    BY <2>4
  <2>6. Sensible([g EXCEPT !.pc = "polling"], <<m>>)
    <3>1. PICK p : p = [g EXCEPT !.pc = "polling"]
      OBVIOUS
    <3>2. p.out = out /\ p.pc = "polling"
      BY <2>2, <3>1 DEF HostRecord
    <3>3. Sensible(p, <<m>>)
      BY <1>5, <1>10, <2>4, <2>5, <3>2 DEF Sensible
    <3> QED BY <3>1, <3>3
  <2>7. Proceed(g, <<m>>)
    <3>1. Proceed([h EXCEPT !.owed = 0], <<Message("credit", 0, Len(h.out), h.owed)>>)
      BY <1>7, <1>12 DEF Got
    <3> QED BY <1>5, <1>8, <2>1, <2>3, <3>1
  <2> QED BY <1>3, <1>5, <1>9, <1>10, <2>2, <2>6, <2>7, ProceedKeeps
<1> QED BY <1>11, <1>12

LEMMA ReceiveKeeps ==
    ASSUME BulkInv, Receive
    PROVE  BulkInv'
<1>1. host \in HostRecord /\ Written(host) /\ Honest(toHost) /\ toHost \in Seq(FrameType)
  BY DEF BulkInv, HostSide, Honest
<1>2. PICK i \in 1 .. Len(toHost) : i = Position /\ toHost[i] \in FrameType
  BY <1>1, PositionIs DEF Receive
<1>3. PICK f : f = toHost[i]
  OBVIOUS
<1>4. f \in FrameType /\ (f.op = "data" => f.data = f.off + 1)
  BY <1>1, <1>2, <1>3 DEF Honest
<1>5. UNCHANGED <<device, single, tx, turn, ownerVars>> /\ host.pc \in Waiting /\ f.op = Awaited
  BY <1>2, <1>3 DEF Receive
<1>6. Honest(toHost')
  <2>1. Honest(RemoveAt(toHost, i))
    BY <1>1, <1>2, HonestWithout
  <2>2. toHost' = RemoveAt(toHost, i)
    BY <1>2 DEF Receive
  <2> QED BY <2>1, <2>2
<1>7. /\ f.op = "data" => host.pc = "polling"
      /\ f.op = "open" => host.pc = "opening"
      /\ f.op = "status" => host.pc = "status"
      /\ f.op = "finish" => host.pc = "finishing"
  BY <1>5 DEF Awaited, Waiting
<1>8. \/ f.op = "data" /\ GotData(f)
      \/ f.op = "open" /\ (IF f.ok THEN Proceed(host, <<>>) ELSE End("failed"))
      \/ f.op = "status" /\ GotStatus(f)
      \/ f.op = "finish" /\ GotFinish(f)
      \/ f.op = "abort" /\ End("failed")
      \/ f.op = "read" /\ End(IF f.ok THEN "done" ELSE "failed")
  BY <1>2, <1>3 DEF Receive
<1>9. host.out \in Seq(Nat) /\ Len(host.out) \in Nat /\ Len(host.out) <= Len(host.out)
  <2>1. host.out \in Seq(Nat)
    BY <1>1 DEF HostRecord
  <2>2. Len(host.out) \in Nat
    BY <2>1
  <2> QED BY <2>1, <2>2
<1>10. \A h : Sensible(h, <<>>)
  BY DEF Sensible
<1>11. ASSUME host.pc \in {"polling", "status", "finishing"}, GiveUp
       PROVE  BulkInv'
  BY <1>5, <1>6, <1>11, HostAsks DEF GiveUp
<1>12. ASSUME NEW pc \in {"failed", "done"}, End(pc)
       PROVE  BulkInv'
  BY <1>5, <1>6, <1>12, HostEnds DEF End
<1>13. CASE f.op = "data" /\ GotData(f)
  <2>1. CASE f.off = Len(host.out) /\ Got(f)
    BY <1>4, <1>5, <1>6, <1>7, <1>13, <2>1, GotKeeps
  <2>2. CASE GiveUp
    BY <1>7, <1>11, <1>13, <2>2
  <2> QED BY <1>13, <2>1, <2>2 DEF GotData
<1>14. CASE f.op = "open" /\ (IF f.ok THEN Proceed(host, <<>>) ELSE End("failed"))
  <2>1. CASE f.ok
    <3>1. Opened(toHost)
      BY <1>2, <1>3, <1>14, <2>1 DEF Opened
    <3>2. device.durable = 0
      BY <1>7, <1>14, <3>1 DEF BulkInv, Behind
    <3>3. Proceed(host, <<>>)
      BY <1>14, <2>1
    <3> QED BY <1>1, <1>5, <1>6, <1>9, <1>10, <3>2, <3>3, ProceedKeeps DEF Written
  <2>2. CASE ~f.ok
    BY <1>12, <1>14, <2>2
  <2> QED BY <2>1, <2>2
<1>15. CASE f.op = "status" /\ GotStatus(f)
  <2>1. CASE GiveUp
    BY <1>7, <1>11, <1>15, <2>1
  <2>2. CASE Proceed([host EXCEPT !.owed = 0], <<>>)
    <3>1. PICK h : h = [host EXCEPT !.owed = 0]
      OBVIOUS
    <3>2. h \in HostRecord /\ h.out = host.out
      BY <1>1, <3>1 DEF HostRecord
    <3>3. host.pc \in OfStream
      BY <1>7, <1>15 DEF OfStream, Waiting
    <3>4. Proceed(h, <<>>)
      BY <2>2, <3>1
    <3>5. Len(h.out) <= Chunks /\ (\A k \in 1 .. Len(h.out) : h.out[k] = k) /\ Len(host.out) <= Len(h.out)
      BY <1>1, <1>9, <3>2 DEF Written
    <3> QED BY <1>5, <1>6, <1>10, <3>2, <3>3, <3>4, <3>5, ProceedKeeps
  <2> QED BY <1>15, <2>1, <2>2 DEF GotStatus
<1>16. CASE f.op = "finish" /\ GotFinish(f)
  <2>1. CASE GiveUp
    BY <1>7, <1>11, <1>16, <2>1
  <2>2. CASE Step([host EXCEPT !.pc = "done", !.saved = host.out], <<>>)
    <3>1. host.out = File
      BY <1>1, <1>7, <1>9, <1>16, WrittenIsFile DEF Written
    <3>2. PICK h : h = [host EXCEPT !.pc = "done", !.saved = host.out]
      OBVIOUS
    <3>3. h \in HostRecord /\ h.pc = "done" /\ h.out = host.out
      <4>1. "done" \in Places /\ host.out \in {<<>>, File}
        BY <3>1 DEF Places
      <4> QED BY <1>1, <3>2, <4>1 DEF HostRecord
    <3>4. Written(h)
      BY <1>1, <3>3 DEF Written
    <3>5. Step(h, <<>>) /\ h.pc \notin OfStream /\ h.pc # "opening" /\ Len(host.out) <= Len(h.out)
      BY <1>9, <2>2, <3>2, <3>3 DEF OfStream, Waiting
    <3> QED BY <1>5, <1>6, <1>10, <3>3, <3>4, <3>5, HostMoves
  <2> QED BY <1>16, <2>1, <2>2 DEF GotFinish
<1>17. CASE f.op = "abort" /\ End("failed")
  BY <1>12, <1>17
<1>18. CASE f.op = "read" /\ End(IF f.ok THEN "done" ELSE "failed")
  <2>1. PICK pc \in {"failed", "done"} : End(pc)
    BY <1>18
  <2> QED BY <1>12, <2>1
<1> QED BY <1>8, <1>13, <1>14, <1>15, <1>16, <1>17, <1>18

LEMMA TimeoutKeeps ==
    ASSUME BulkInv, Timeout
    PROVE  BulkInv'
<1>1. UNCHANGED <<toHost, device, single, tx, turn, ownerVars>> /\ host.pc \in Waiting
  BY DEF Timeout
<1>2. Honest(toHost')
  BY <1>1 DEF BulkInv
<1>3. CASE host.pc = "polling" /\ Ask(host, "status", "status")
  BY <1>1, <1>2, <1>3, HostAsks
<1>4. CASE Stop
  BY <1>1, <1>2, <1>4, StopKeeps
<1> QED BY <1>3, <1>4 DEF Timeout

LEMMA UnroutableKeeps ==
    ASSUME BulkInv, Unroutable
    PROVE  BulkInv'
<1>1. /\ UNCHANGED <<device, single, tx, turn, ownerVars>> /\ host.pc \in Waiting /\ Stop
      /\ Len(toHost) > QueueCapacity /\ toHost' = RemoveAt(toHost, QueueCapacity + 1)
  BY DEF Unroutable
<1>2. Honest(toHost')
  <2>1. Honest(toHost) /\ toHost \in Seq(FrameType)
    BY DEF BulkInv, Honest
  <2>2. QueueCapacity + 1 \in 1 .. Len(toHost)
    <3>1. Len(toHost) \in Nat /\ QueueCapacity \in Nat
      BY <2>1, ConstantsAssumption
    <3> QED BY <1>1, <3>1
  <2>3. Honest(RemoveAt(toHost, QueueCapacity + 1))
    BY <2>1, <2>2, HonestWithout
  <2> QED BY <1>1, <2>3
<1> QED BY <1>1, <1>2, StopKeeps

LEMMA GarbleKeeps ==
    ASSUME BulkInv, Garble
    PROVE  BulkInv'
<1>1. UNCHANGED <<device, single, tx, turn, ownerVars>> /\ host.pc \in Waiting /\ Stop
  BY DEF Garble
<1>2. PICK k \in 1 .. Len(toHost) : toHost' = RemoveAt(toHost, k)
  BY DEF Garble
<1>3. Honest(toHost')
  <2>1. Honest(RemoveAt(toHost, k))
    BY HonestWithout DEF BulkInv
  <2> QED BY <1>2, <2>1
<1> QED BY <1>1, <1>3, StopKeeps

LEMMA KillKeeps ==
    ASSUME BulkInv, Kill
    PROVE  BulkInv'
<1>1. /\ UNCHANGED <<toDevice, toHost, tx, device, single, turn, ownerVars>>
      /\ host' = [host EXCEPT !.pc = "gone"]
  BY DEF Kill, wires
<1>2. Honest(toHost')
  BY <1>1 DEF BulkInv
<1>3. toDevice' = toDevice \o <<>>
  <2>1. toDevice \in Seq(MessageType)
    BY DEF BulkInv, HostSide, Sensible
  <2> QED BY <1>1, <2>1
<1>4. Step([host EXCEPT !.pc = "gone"], <<>>)
  BY <1>1, <1>3 DEF Step
<1> QED BY <1>1, <1>2, <1>4, HostEnds

LEMMA LoseKeeps ==
    ASSUME BulkInv, Lose
    PROVE  BulkInv'
<1>1. /\ toDevice # <<>> /\ toDevice' = Tail(toDevice)
      /\ UNCHANGED <<host, toHost, device, single, tx, turn, bytes, mail, answers>>
  BY DEF Lose, ownerVars
<1>2. Sensible(host, Tail(toDevice))
  BY <1>1, FirstMessage DEF BulkInv, HostSide
<1>3. HostSide'
  BY <1>1, <1>2 DEF BulkInv, HostSide
<1> QED BY <1>1, <1>3 DEF BulkInv, Behind, Single

(* The negotiation before a session leaves nothing on the line.            *)
LEMMA StartKeeps ==
    ASSUME BulkInv, Start
    PROVE  BulkInv'
<1>1. /\ toDevice = <<>> /\ tx = <<>> /\ turn = "wait" /\ toHost' = <<>>
      /\ UNCHANGED <<device, single, tx, turn, bytes, mail, answers>>
  BY DEF Start, ownerVars
<1>2. PICK session \in Nat : session = host.session + 1
  <2>1. PICK n \in Nat : host.session = n
    BY DEF BulkInv, HostSide, HostRecord
  <2> QED BY <2>1
<1>3. PICK h : h = [Idling EXCEPT !.session = session]
  OBVIOUS
<1>4. PICK pc \in {"opening", "reading"}, op \in {"open", "read"} :
         Ask(h, pc, op) /\ (pc = "opening" => op = "open")
  BY <1>2, <1>3 DEF Start
<1>5. h = [pc |-> "idle", session |-> session, seq |-> 0, out |-> <<>>, owed |-> 0, saved |-> <<>>]
  BY <1>3 DEF Idling
<1>6. PICK g : g = [h EXCEPT !.pc = pc, !.seq = @ + 1]
  OBVIOUS
<1>7. g = [pc |-> pc, session |-> session, seq |-> 1, out |-> <<>>, owed |-> 0, saved |-> <<>>]
  <2>1. h.seq = 0
    BY <1>5
  <2>2. g = [h EXCEPT !.pc = pc, !.seq = 1]
    BY <1>6, <2>1
  <2> QED BY <1>5, <2>2
<1>8. g \in HostRecord /\ g.pc = pc /\ g.out = <<>>
  <2>1. pc \in Places /\ <<>> \in Seq(Nat)
    BY DEF Places, Waiting
  <2> QED BY <1>7, <2>1 DEF HostRecord
<1>9. PICK m : m = Message(op, 1, 0, 0)
  OBVIOUS
<1>10. m \in MessageType /\ m.op = op /\ m.seq = 1
  BY <1>9 DEF Message, MessageType
<1>11. <<m>> \in Seq(MessageType) /\ DOMAIN <<m>> = {1} /\ <<m>>[1] = m
  BY <1>10
<1>12. host' = g /\ toDevice' = <<m>>
  <2>1. Step(g, <<m>>)
    BY <1>4, <1>5, <1>6, <1>9 DEF Ask
  <2>2. <<>> \o <<m>> = <<m>>
    BY <1>11
  <2> QED BY <1>1, <2>1, <2>2 DEF Step
<1>13. Sensible(g, <<m>>)
  BY <1>4, <1>8, <1>10, <1>11 DEF Sensible
<1>14. Written(g)
  <2>1. Len(<<>>) = 0 /\ Chunks \in Nat
    BY ConstantsAssumption
  <2> QED BY <1>8, <2>1 DEF Written
<1>15. HostSide'
  BY <1>8, <1>12, <1>13, <1>14 DEF HostSide
<1>16. Honest(toHost') /\ Honest(tx') /\ ~Opened(toHost') /\ ~Opened(tx')
  BY <1>1, NoFrame
<1>17. Behind' /\ Single'
  BY <1>1, <1>8, <1>12, <1>16 DEF BulkInv, Behind, Single
<1> QED BY <1>1, <1>15, <1>16, <1>17 DEF BulkInv

(***************************************************************************)
(* The invariant.                                                          *)
(***************************************************************************)
LEMMA BulkInit ==
    ASSUME Init
    PROVE  BulkInv
<1>1. PICK d : d = IdleDevice(FALSE)
  OBVIOUS
<1>2. /\ d \in DeviceRecord /\ d.mode = "idle" /\ d.pending = {} /\ d.opening = 0 /\ ~d.named /\ ~d.active /\ ~d.tombstone
      /\ d.gen = 0 /\ d.queue = <<>> /\ d.sent = <<>> /\ d.outstanding = <<>> /\ d.summed = <<>>
      /\ d.produced = 0 /\ d.durable = 0 /\ d.next = 2 /\ d.home = SlotIds
      /\ \A s \in SlotIds : d.slots[s] = "free"
  <2>1. FALSE \in BOOLEAN
    OBVIOUS
  <2> QED BY <1>1, <2>1, IdleType
<1>3. Fresh(d)
  BY <1>2 DEF Fresh
<1>4. DeviceInv(d, bytes)
  BY <1>2, <1>3, FreshKeeps
<1>5. /\ host = Idling /\ toDevice = <<>> /\ toHost = <<>> /\ tx = <<>> /\ turn = "wait" /\ device = d
      /\ single = [step |-> "none", seq |-> 0, cached |-> FALSE]
      /\ bytes = [s \in SlotIds |-> 0] /\ mail = <<>> /\ answers = <<>>
  BY <1>1 DEF Init
<1>6. bytes \in Content
  BY <1>5 DEF Content
<1>7. Flight(device, bytes, mail, answers)
  BY <1>5 DEF Flight
<1>8. host \in HostRecord /\ host.pc = "idle" /\ host.out = <<>>
  <2>1. "idle" \in Places /\ <<>> \in Seq(Nat)
    BY DEF Places
  <2> QED BY <1>5, <2>1 DEF Idling, HostRecord
<1>9. Written(host) /\ Sensible(host, toDevice)
  <2>1. Len(<<>>) = 0 /\ Chunks \in Nat
    BY ConstantsAssumption
  <2> QED BY <1>5, <1>8, <2>1 DEF Written, Sensible
<1>10. HostSide
  BY <1>8, <1>9 DEF HostSide
<1>11. Honest(toHost) /\ Honest(tx) /\ ~Opened(toHost) /\ ~Opened(tx)
  BY <1>5, NoFrame
<1>12. Behind /\ Single
  BY <1>2, <1>5, <1>11 DEF Behind, Single
<1> QED BY <1>4, <1>5, <1>6, <1>7, <1>10, <1>11, <1>12 DEF BulkInv

LEMMA BulkStep ==
    ASSUME BulkInv, [Next]_vars
    PROVE  BulkInv'
<1>1. CASE Start
  BY <1>1, StartKeeps
<1>2. CASE Receive
  BY <1>2, ReceiveKeeps
<1>3. CASE Timeout
  BY <1>3, TimeoutKeeps
<1>4. CASE Unroutable
  BY <1>4, UnroutableKeeps
<1>5. CASE Garble
  BY <1>5, GarbleKeeps
<1>6. CASE Kill
  BY <1>6, KillKeeps
<1>7. CASE Lose
  BY <1>7, LoseKeeps
<1>8. CASE HandleFrame
  BY <1>8, HandleFrameKeeps
<1>9. CASE Transmit
  BY <1>9, TransmitKeeps
<1>10. CASE HandleOwner
  BY <1>10, HandleOwnerKeeps
<1>11. CASE BeginRead
  BY <1>11, BeginReadKeeps
<1>12. CASE SizeDone
  BY <1>12, SizeDoneKeeps
<1>13. CASE ReadAnswered
  BY <1>13, ReadAnsweredKeeps
<1>14. CASE ExpireIdle
  BY <1>14, ExpireIdleKeeps
<1>15. CASE OwnerStep
  BY <1>15, OwnerStepKeeps
<1>16. CASE UNCHANGED vars
  <2>1. UNCHANGED <<host, toDevice, toHost, tx, device, single, turn, bytes, mail, answers>>
    BY <1>16 DEF vars, wires, ownerVars
  <2> QED BY <2>1 DEF BulkInv, HostSide, Behind, Single
<1> QED BY <1>1, <1>2, <1>3, <1>4, <1>5, <1>6, <1>7, <1>8, <1>9, <1>10, <1>11, <1>12, <1>13,
           <1>14, <1>15, <1>16 DEF Next, DeviceStep

LEMMA BulkAlways == Spec => []BulkInv
<1>1. Init => BulkInv
  BY BulkInit
<1>2. BulkInv /\ [Next]_vars => BulkInv'
  BY BulkStep
<1> QED BY <1>1, <1>2, PTL DEF Spec

(* Whatever was lost, late, failed or left by another stream, the file     *)
(* that write_atomic gives its name is the file of the card.               *)
THEOREM SavedAlwaysWhole == Spec => []SavedWhole
<1>1. BulkInv => SavedWhole
  BY DEF BulkInv, HostSide, HostRecord, SavedWhole
<1> QED BY <1>1, BulkAlways, PTL

LEMMA SoundBehind ==
    ASSUME BulkInv
    PROVE  DeviceBehindHost
<1>1. Summed(device) /\ device \in DeviceRecord /\ host \in HostRecord /\ Written(host)
  BY DEF BulkInv, DeviceInv, HostSide
<1>2. device.summed \in Seq(Nat) /\ device.durable \in Nat /\ host.out \in Seq(Nat)
  BY <1>1 DEF DeviceRecord, HostRecord
<1>3. Len(device.summed) = device.durable
  BY <1>1 DEF Summed
<1>4. ASSUME device.active, host.pc \in Waiting \ {"opening", "reading"}
      PROVE  IsPrefix(device.summed, host.out)
  <2>1. device.durable <= Len(host.out)
    BY <1>4 DEF BulkInv, Behind
  <2>2. PICK s \in Seq(Nat) : s = device.summed
    BY <1>2
  <2>3. PICK n \in Nat : n = device.durable /\ n = Len(s) /\ DOMAIN s = 1 .. n
    BY <1>2, <1>3, <2>2, Lengths
  <2>4. PICK t \in Seq(Nat) : t = host.out
    BY <1>2
  <2>5. PICK m \in Nat : m = Len(t) /\ n <= m
    BY <2>1, <2>3, <2>4, Lengths
  <2>6. PICK u : u = SubSeq(t, 1, n)
    OBVIOUS
  <2>7. u \in Seq(Nat) /\ Len(u) = n /\ \A k \in 1 .. n : u[k] = t[k]
    <3>1. 1 \in 1 .. m + 1 /\ n \in 1 - 1 .. m /\ \A k \in 1 .. n : 1 + k - 1 = k
      BY <2>5
    <3> QED BY <2>5, <2>6, <3>1, SubSeqProperties
  <2>8. \A k \in 1 .. n : s[k] = k /\ t[k] = k
    <3>1. \A k \in 1 .. n : s[k] = k
      BY <1>1, <2>2, <2>3 DEF Summed
    <3>2. \A k \in 1 .. m : t[k] = k
      BY <1>1, <2>4, <2>5 DEF Written
    <3> QED BY <2>5, <3>1, <3>2
  <2>9. s = u
    <3>1. DOMAIN u = 1 .. n /\ \A k \in 1 .. n : s[k] = u[k]
      BY <2>7, <2>8
    <3>2. s = [k \in 1 .. n |-> s[k]] /\ u = [k \in 1 .. n |-> u[k]]
      BY <2>3, <2>7, <3>1
    <3> QED BY <3>1, <3>2
  <2> QED BY <2>2, <2>3, <2>4, <2>5, <2>6, <2>9 DEF IsPrefix
<1> QED BY <1>3, <1>4 DEF DeviceBehindHost

(* A lease with the owner belongs to a read that the device waits for.     *)
LEMMA AwayFromHome ==
    ASSUME NEW d, NEW m, DeviceInv(d, bytes), Asked(d, m)
    PROVE  /\ m.lease \notin d.home
           /\ m.lease \in SlotIds =>
                 /\ m.by = "bulk"
                 /\ \E k \in DOMAIN d.outstanding : d.outstanding[k].seq = m.seq /\ d.outstanding[k].slot = m.lease
<1>1. d.home \subseteq SlotIds /\ Leases(d)
  BY DEF DeviceInv, DeviceRecord
<1>2. None \notin SlotIds
  BY LeasesOfSingle
<1>3. m.lease \in SlotIds =>
         /\ m.by = "bulk"
         /\ \E k \in DOMAIN d.outstanding : d.outstanding[k].seq = m.seq /\ d.outstanding[k].slot = m.lease
  BY <1>2 DEF Asked
<1>4. m.lease \in SlotIds => m.lease \notin d.home
  BY <1>1, <1>3 DEF Leases
<1> QED BY <1>1, <1>3, <1>4

LEMMA TwoLeases ==
    ASSUME NEW d, NEW m, NEW n, DeviceInv(d, bytes), Asked(d, m), Asked(d, n), ~Same(m, n), m.lease \in SlotIds
    PROVE  m.lease # n.lease
<1> SUFFICES ASSUME m.lease = n.lease PROVE FALSE
  OBVIOUS
<1>1. /\ m.by = "bulk" /\ n.by = "bulk"
      /\ \E k \in DOMAIN d.outstanding : d.outstanding[k].seq = m.seq /\ d.outstanding[k].slot = m.lease
      /\ \E k \in DOMAIN d.outstanding : d.outstanding[k].seq = n.seq /\ d.outstanding[k].slot = n.lease
  BY AwayFromHome
<1>2. PICK i \in DOMAIN d.outstanding : d.outstanding[i].seq = m.seq /\ d.outstanding[i].slot = m.lease
  BY <1>1
<1>3. PICK j \in DOMAIN d.outstanding : d.outstanding[j].seq = n.seq /\ d.outstanding[j].slot = n.lease
  BY <1>1
<1>4. \A x, y \in DOMAIN d.outstanding : x # y => d.outstanding[x].slot # d.outstanding[y].slot
  BY DEF DeviceInv, Leases
<1>5. i = j
  BY <1>2, <1>3, <1>4
<1> QED BY <1>1, <1>2, <1>3, <1>5 DEF Same

LEMMA SoundLeases ==
    ASSUME BulkInv
    PROVE  LeasesHeld
<1>1. DeviceInv(device, bytes) /\ Flight(device, bytes, mail, answers)
  BY DEF BulkInv
<1>2. mail \in Seq(MailType) /\ answers \in Seq(AnswerType)
  BY <1>1 DEF Flight
<1>3. PICK S : S = MailType \cup AnswerType
  OBVIOUS
<1>4. mail \in Seq(S) /\ answers \in Seq(S)
  <2>1. MailType \subseteq S /\ AnswerType \subseteq S
    BY <1>3
  <2>2. \A k \in 1 .. Len(mail) : mail[k] \in S
    BY <1>2, <2>1
  <2>3. \A k \in 1 .. Len(answers) : answers[k] \in S
    BY <1>2, <2>1
  <2> QED BY <1>2, <2>2, <2>3
<1>5. PICK n \in Nat : n = Len(mail) /\ DOMAIN mail = 1 .. n
  BY <1>2, Lengths
<1>6. PICK m \in Nat : m = Len(answers) /\ DOMAIN answers = 1 .. m
  BY <1>2, Lengths
<1>7. PICK all : all = mail \o answers
  OBVIOUS
<1>8. \A i \in 1 .. n + m : all[i] = IF i <= n THEN mail[i] ELSE answers[i - n]
  BY <1>4, <1>5, <1>6, <1>7, ConcatType
<1>9. \A i \in 1 .. n + m : (i \in 1 .. n /\ all[i] = mail[i]) \/ (i - n \in 1 .. m /\ i > n /\ all[i] = answers[i - n])
  <2> TAKE i \in 1 .. n + m
  <2>1. CASE i <= n
    BY <1>8, <2>1
  <2>2. CASE ~(i <= n)
    BY <1>8, <2>2
  <2> QED BY <2>1, <2>2
<1>10. /\ \A k \in 1 .. n : Asked(device, mail[k])
       /\ \A k \in 1 .. m : Asked(device, answers[k])
       /\ \A j, k \in 1 .. n : j # k => ~Same(mail[j], mail[k])
       /\ \A j, k \in 1 .. m : j # k => ~Same(answers[j], answers[k])
       /\ \A k \in 1 .. n, j \in 1 .. m : ~Same(answers[j], mail[k])
  BY <1>1, <1>5, <1>6 DEF Flight
<1>11. \A i \in 1 .. n + m : Asked(device, all[i])
  BY <1>9, <1>10
<1>12. ASSUME NEW i \in 1 .. n + m, NEW j \in 1 .. n + m, i # j
       PROVE  ~Same(all[i], all[j])
  <2>1. CASE i \in 1 .. n /\ all[i] = mail[i]
    <3>1. CASE j \in 1 .. n /\ all[j] = mail[j]
      BY <1>10, <1>12, <2>1, <3>1
    <3>2. CASE j - n \in 1 .. m /\ j > n /\ all[j] = answers[j - n]
      BY <1>10, <2>1, <3>2 DEF Same
    <3> QED BY <1>9, <3>1, <3>2
  <2>2. CASE i - n \in 1 .. m /\ i > n /\ all[i] = answers[i - n]
    <3>1. CASE j \in 1 .. n /\ all[j] = mail[j]
      BY <1>10, <2>2, <3>1
    <3>2. CASE j - n \in 1 .. m /\ j > n /\ all[j] = answers[j - n]
      <4>1. i - n # j - n
        BY <1>12
      <4> QED BY <1>10, <2>2, <3>2, <4>1
    <3> QED BY <1>9, <3>1, <3>2
  <2> QED BY <1>9, <2>1, <2>2
<1>13. PICK away : away = [k \in 1 .. n + m |-> all[k].lease]
  OBVIOUS
<1>14. \A j, k \in DOMAIN away : away[j] \in SlotIds /\ j # k => away[j] # away[k]
  <2> TAKE j, k \in DOMAIN away
  <2>1. j \in 1 .. n + m /\ k \in 1 .. n + m /\ away[j] = all[j].lease /\ away[k] = all[k].lease
    BY <1>13
  <2>2. Asked(device, all[j]) /\ Asked(device, all[k]) /\ (j # k => ~Same(all[j], all[k]))
    BY <1>11, <1>12, <2>1
  <2> QED BY <1>1, <2>1, <2>2, TwoLeases
<1>15. \A k \in DOMAIN away : away[k] \notin device.home
  BY <1>1, <1>11, <1>13, AwayFromHome
<1>16. \A k \in DOMAIN device.sent :
          LET r == device.sent[k] IN r.slot \in device.home /\ bytes[r.slot] = r.off + 1
  BY <1>1 DEF DeviceInv, SentInOrder
<1>17. away = [k \in 1 .. Len(mail) + Len(answers) |-> (mail \o answers)[k].lease]
  BY <1>5, <1>6, <1>7, <1>13
<1> QED BY <1>14, <1>15, <1>16, <1>17 DEF LeasesHeld

(* What apply_credit counts as durable the host of the stream has written, *)
(* and no lease is in two places: those of the chunks that were sent stay  *)
(* at home, with what was sent, until their credit comes.                  *)
THEOREM PipelineAlwaysSound == Spec => []PipelineSound
<1>1. BulkInv => PipelineSound
  BY SoundBehind, SoundLeases DEF PipelineSound
<1> QED BY <1>1, BulkAlways, PTL
=============
