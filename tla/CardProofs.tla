----------------------------- MODULE CardProofs -----------------------------
(***************************************************************************)
(* Proofs about the two ways of using the card.  RawStorage: the extents,  *)
(* the uploads and the state, for every card, every set of host files and  *)
(* any number of uploads, changes of the state, failures and resets.       *)
(* BlockStream: that the write-back cache cannot be told from the card,    *)
(* for every number of blocks, slots and writes and every bound on the     *)
(* failures, but for the garbage a failed read leaves in a slot.           *)
(***************************************************************************)
EXTENDS MCCard, FiniteSetTheorems, SequenceTheorems, WellFoundedInduction, TLAPS

(***************************************************************************)
(* Free clusters.                                                          *)
(***************************************************************************)
(* A finite set has a list of its elements without repetition, and         *)
(* SetToSeq is one.                                                        *)
LEMMA ListOfSet ==
    ASSUME NEW S, IsFiniteSet(S)
    PROVE  /\ Cardinality(S) \in Nat
           /\ SetToSeq(S) \in [1 .. Cardinality(S) -> S]
           /\ IsInjective(SetToSeq(S))
<1>1. Cardinality(S) \in Nat /\ ExistsBijection(1 .. Cardinality(S), S)
  BY FS_CardinalityType
<1>2. PICK f \in [1 .. Cardinality(S) -> S] : IsInjective(f)
  BY <1>1 DEF ExistsBijection, Bijection, Injection
<1> QED BY <1>1, <1>2 DEF SetToSeq

LEMMA FreeForType ==
    ASSUME NEW name
    PROVE  /\ FreeFor(name) \in Seq(Clusters)
           /\ IsInjective(FreeFor(name))
           /\ \A i \in DOMAIN FreeFor(name) : FreeFor(name)[i] \notin Used(name)
<1> DEFINE S == Clusters \ Used(name)
<1>1. IsFiniteSet(S)
  BY RawAssumption, FS_Subset
<1>2. Cardinality(S) \in Nat /\ FreeFor(name) \in [1 .. Cardinality(S) -> S] /\ IsInjective(FreeFor(name))
  BY <1>1, ListOfSet DEF FreeFor
<1>3. FreeFor(name) \in Seq(Clusters)
  <2>1. FreeFor(name) \in [1 .. Cardinality(S) -> Clusters]
    BY <1>2
  <2>2. [1 .. Cardinality(S) -> Clusters] \in {[1 .. n -> Clusters] : n \in Nat}
    BY <1>2
  <2> QED BY <2>1, <2>2, SeqDef, Zenon
<1> QED BY <1>2, <1>3

(***************************************************************************)
(* The directory.                                                          *)
(***************************************************************************)
\* No cluster is twice in a file or in two files.
Apart ==
    /\ \A n \in Names : Exists(n) => IsInjective(files[n])
    /\ \A m, n \in Names : m # n /\ Exists(m) /\ Exists(n) =>
          Range(files[m]) \cap Range(files[n]) = {}

DiskInv == RawTypeOK /\ Apart

\* What every call does to the card at most: one file gets clusters that no
\* other file has, and the clusters of the others keep what they hold.
Rewrites(name) ==
    /\ files' \in [Names -> Seq(Clusters) \cup {Absent}]
    /\ data' \in [Clusters -> Datum]
    /\ \A n \in Names \ {name} : files'[n] = files[n]
    /\ \A c \in Used(name) : data'[c] = data[c]
    /\ files'[name] # Absent => /\ IsInjective(files'[name])
                                /\ Range(files'[name]) \cap Used(name) = {}

LEMMA AbsentIsNone == Absent \notin Seq(Clusters)
BY RawAssumption DEF Absent

LEMMA UsedType ==
    ASSUME RawTypeOK, NEW name
    PROVE  /\ Used(name) \subseteq Clusters
           /\ \A n \in Names \ {name} : Exists(n) => Range(files[n]) \subseteq Used(name)
<1>1. \A n \in Names : Exists(n) => files[n] \in Seq(Clusters) /\ Range(files[n]) \subseteq Clusters
  BY DEF RawTypeOK, Exists, Range
<1> QED BY <1>1 DEF Used

LEMMA FreshRewrites ==
    ASSUME RawTypeOK, NEW name \in Names, NEW size \in Nat, Fresh(name, size)
    PROVE  /\ Rewrites(name)
           /\ files'[name] \in Seq(Clusters) /\ Len(files'[name]) = size
           /\ \A i \in DOMAIN files'[name] : data'[files'[name][i]] = Zero
<1> DEFINE free == FreeFor(name)
<1>1. /\ free \in Seq(Clusters) /\ IsInjective(free)
      /\ \A i \in DOMAIN free : free[i] \notin Used(name)
      /\ size <= Len(free)
  BY FreeForType DEF Fresh, Fits
<1>2. /\ files'[name] = SubSeq(free, 1, size)
      /\ \A n \in Names \ {name} : files'[n] = files[n]
      /\ files' \in [Names -> Seq(Clusters) \cup {Absent}]
  BY <1>1 DEF Fresh, RawTypeOK
<1>3. /\ files'[name] \in Seq(Clusters) /\ Len(files'[name]) = size
      /\ \A i \in 1 .. size : files'[name][i] = free[i] /\ i \in DOMAIN free
  BY <1>1, <1>2
<1>4. IsInjective(files'[name])
  BY <1>1, <1>3 DEF IsInjective
<1>5. Range(files'[name]) \cap Used(name) = {}
  BY <1>1, <1>3 DEF Range
<1>6. \A c \in Clusters : data'[c] = IF c \in Range(files'[name]) THEN Zero ELSE data[c]
  BY DEF Fresh
<1>7. data' \in [Clusters -> Datum]
  <2>1. Zero \in Datum
    BY DEF Zero, Value, Datum
  <2> QED BY <1>6, <2>1 DEF Fresh, RawTypeOK
<1>8. \A c \in Used(name) : data'[c] = data[c]
  BY <1>5, <1>6, UsedType
<1>9. \A i \in DOMAIN files'[name] : data'[files'[name][i]] = Zero
  BY <1>3, <1>6 DEF Range
<1> QED BY <1>2, <1>3, <1>4, <1>5, <1>7, <1>8, <1>9 DEF Rewrites

LEMMA RemovedRewrites ==
    ASSUME RawTypeOK, NEW name \in Names, Removed(name)
    PROVE  Rewrites(name) /\ files'[name] = Absent
BY DEF Removed, Rewrites, RawTypeOK

LEMMA ReplacedRewrites ==
    ASSUME RawTypeOK, NEW name \in Names, NEW value \in Datum, Replaced(name, value)
    PROVE  /\ Rewrites(name)
           /\ files'[name] \in Seq(Clusters) /\ Len(files'[name]) = 1
           /\ data'[files'[name][1]] = value
<1> DEFINE free == FreeFor(name)
<1>1. /\ free \in Seq(Clusters) /\ Len(free) >= 1
      /\ \A i \in DOMAIN free : free[i] \notin Used(name)
  BY FreeForType DEF Replaced, Fits
<1>2. Head(free) = free[1] /\ free[1] \in Clusters /\ free[1] \notin Used(name)
  BY <1>1
<1>3. /\ files'[name] = <<free[1]>>
      /\ \A n \in Names \ {name} : files'[n] = files[n]
      /\ files' \in [Names -> Seq(Clusters) \cup {Absent}]
  BY <1>2 DEF Replaced, RawTypeOK
<1>4. /\ data' \in [Clusters -> Datum] /\ data'[free[1]] = value
      /\ \A c \in Used(name) : data'[c] = data[c]
  BY <1>2, UsedType DEF Replaced, RawTypeOK
<1>5. IsInjective(files'[name]) /\ Range(files'[name]) \cap Used(name) = {}
  BY <1>2, <1>3 DEF IsInjective, Range
<1> QED BY <1>2, <1>3, <1>4, <1>5 DEF Rewrites

LEMMA HalfReplacedRewrites ==
    ASSUME RawTypeOK, NEW name \in Names, HalfReplaced(name)
    PROVE  /\ Rewrites(name)
           /\ \/ files'[name] = Absent
              \/ /\ files'[name] \in Seq(Clusters) /\ Len(files'[name]) \in {0, 1}
                 /\ \A i \in DOMAIN files'[name] : data'[files'[name][i]] = Zero
BY FreshRewrites, RemovedRewrites DEF HalfReplaced

(* Whatever is rewritten, the other files are what they were.              *)
LEMMA RewritesKeeps ==
    ASSUME DiskInv, NEW name \in Names, Rewrites(name)
    PROVE  /\ Apart'
           /\ \A n \in Names \ {name} :
                 /\ files'[n] = files[n] /\ Exists(n)' = Exists(n)
                 /\ Exists(n) => Contents(n)' = Contents(n)
<1>1. \A n \in Names \ {name} : files'[n] = files[n] /\ Exists(n)' = Exists(n)
  BY DEF Rewrites, Exists
<1>2. \A n \in Names \ {name} : Exists(n) => Range(files[n]) \subseteq Used(name)
  BY UsedType DEF DiskInv
<1>3. ASSUME NEW n \in Names \ {name}, Exists(n)
      PROVE  Contents(n)' = Contents(n)
  <2>1. \A i \in DOMAIN files[n] : files[n][i] \in Used(name)
    BY <1>2, <1>3 DEF Range
  <2>2. \A i \in DOMAIN files[n] : data'[files[n][i]] = data[files[n][i]]
    BY <2>1 DEF Rewrites
  <2> QED BY <1>1, <2>2 DEF Contents
<1>4. \A n \in Names : Exists(n)' => IsInjective(files'[n])
  BY <1>1 DEF Rewrites, Exists, DiskInv, Apart
<1>5. ASSUME NEW m \in Names, NEW n \in Names, m # n, Exists(m)', Exists(n)'
      PROVE  Range(files'[m]) \cap Range(files'[n]) = {}
  <2>1. CASE m = name
    BY <1>1, <1>2, <1>5, <2>1 DEF Rewrites, Exists
  <2>2. CASE n = name
    BY <1>1, <1>2, <1>5, <2>2 DEF Rewrites, Exists
  <2>3. CASE m # name /\ n # name
    BY <1>1, <1>5, <2>3 DEF DiskInv, Apart
  <2> QED BY <2>1, <2>2, <2>3
<1> QED BY <1>1, <1>3, <1>4, <1>5 DEF Apart

(***************************************************************************)
(* Types, and the directory that no call breaks.                           *)
(***************************************************************************)
LEMMA NameType ==
    /\ HostFiles \subseteq Names /\ StateSlots \subseteq Names /\ "index" \in Names
    /\ None \notin Names
    /\ "index" \notin HostFiles \cup StateSlots /\ HostFiles \cap StateSlots = {}
    /\ Target \in StateSlots
    /\ NoFile \in Handle
BY RawAssumption DEF Names, StateSlots, None, Target, Handle, NoFile

\* What the slot holds.
RecordIn(slot) == data[files[slot][1]]

LEMMA ValidType ==
    ASSUME RawTypeOK, NEW s \in StateSlots, Valid(s)
    PROVE  /\ files[s] \in Seq(Clusters) /\ Len(files[s]) = 1
           /\ Contents(s)[1] = RecordIn(s)
           /\ RecordIn(s) \in Datum /\ RecordIn(s).by = "state"
<1>1. s \in Names
  BY NameType
<1>2. files[s] \in Seq(Clusters) /\ Len(files[s]) = 1
  BY <1>1 DEF Valid, Exists, RawTypeOK
<1>3. DOMAIN files[s] = 1 .. 1 /\ files[s][1] \in Clusters
  BY <1>2
<1>4. Contents(s)[1] = RecordIn(s)
  BY <1>3 DEF Contents, RecordIn
<1> QED BY <1>2, <1>3, <1>4 DEF RawTypeOK, RecordIn, Valid

(* The slot that a boot selects among those it can read.                   *)
LEMMA NewestButCases ==
    ASSUME RawTypeOK, NEW unread
    PROVE  LET valid == {s \in StateSlots \ unread : Valid(s)}
           IN /\ valid = {} => NewestBut(unread) = None
              /\ valid = {"A"} => NewestBut(unread) = "A"
              /\ valid = {"B"} => NewestBut(unread) = "B"
              /\ valid = {"A", "B"} =>
                    NewestBut(unread) = IF RecordIn("B").generation < RecordIn("A").generation
                                        THEN "A" ELSE "B"
<1> DEFINE valid == {s \in StateSlots \ unread : Valid(s)}
           best(s) == \A t \in valid :
                          \/ Contents(t)[1].generation < Contents(s)[1].generation
                          \/ Contents(t)[1].generation = Contents(s)[1].generation /\ s \in {t, "B"}
<1>1. NewestBut(unread) = IF valid = {} THEN None ELSE CHOOSE s \in valid : best(s)
  BY DEF NewestBut
<1>2. \A s \in valid : Contents(s)[1] = RecordIn(s) /\ RecordIn(s).generation \in Nat
  BY ValidType DEF Datum
<1>3. \A s \in StateSlots : valid = {s} => NewestBut(unread) = s
  BY <1>1, <1>2
<1>4. ASSUME valid = {"A", "B"}
      PROVE  NewestBut(unread) = IF RecordIn("B").generation < RecordIn("A").generation
                                 THEN "A" ELSE "B"
  <2>1. CASE RecordIn("B").generation < RecordIn("A").generation
    <3>1. best("A") /\ ~ best("B")
      BY <1>2, <1>4, <2>1
    <3> QED BY <1>1, <1>4, <2>1, <3>1
  <2>2. CASE ~ (RecordIn("B").generation < RecordIn("A").generation)
    <3>1. best("B") /\ ~ best("A")
      BY <1>2, <1>4, <2>2
    <3> QED BY <1>1, <1>4, <2>2, <3>1
  <2> QED BY <2>1, <2>2
<1> QED BY <1>1, <1>3, <1>4 DEF StateSlots

LEMMA NewestCases ==
    ASSUME RawTypeOK
    PROVE  /\ ~ Valid("A") /\ ~ Valid("B") => Newest = None
           /\ Valid("A") /\ ~ Valid("B") => Newest = "A"
           /\ ~ Valid("A") /\ Valid("B") => Newest = "B"
           /\ Valid("A") /\ Valid("B") =>
                 Newest = IF RecordIn("B").generation < RecordIn("A").generation
                          THEN "A" ELSE "B"
<1> DEFINE valid == {s \in StateSlots \ {} : Valid(s)}
<1>1. /\ ~ Valid("A") /\ ~ Valid("B") => valid = {}
      /\ Valid("A") /\ ~ Valid("B") => valid = {"A"}
      /\ ~ Valid("A") /\ Valid("B") => valid = {"B"}
      /\ Valid("A") /\ Valid("B") => valid = {"A", "B"}
  BY DEF StateSlots
<1> HIDE DEF valid
<1>2. /\ valid = {} => Newest = None
      /\ valid = {"A"} => Newest = "A"
      /\ valid = {"B"} => Newest = "B"
      /\ valid = {"A", "B"} => Newest = IF RecordIn("B").generation < RecordIn("A").generation
                                        THEN "A" ELSE "B"
  BY NewestButCases DEF Newest, valid
<1> QED BY <1>1, <1>2

LEMMA FoundType ==
    ASSUME RawTypeOK, NEW unread
    PROVE  /\ NewestBut(unread) \in StateSlots \cup {None}
           /\ NewestBut(unread) # None =>
                 /\ Valid(NewestBut(unread))
                 /\ StateIn(NewestBut(unread)) = RecordIn(NewestBut(unread))
           /\ NewestBut(unread) = None => StateIn(NewestBut(unread)) = Zero
           /\ StateIn(NewestBut(unread)).n \in Nat
           /\ StateIn(NewestBut(unread)).generation \in Nat
<1> DEFINE valid == {s \in StateSlots \ unread : Valid(s)}
<1>1. valid = {} \/ valid = {"A"} \/ valid = {"B"} \/ valid = {"A", "B"}
  BY DEF StateSlots
<1>2. /\ NewestBut(unread) \in StateSlots \cup {None}
      /\ NewestBut(unread) # None => NewestBut(unread) \in valid
  BY <1>1, NewestButCases DEF StateSlots
<1>3. PICK found : found = NewestBut(unread)
  OBVIOUS
<1>4. found # None => /\ found \in StateSlots /\ Valid(found)
                      /\ Contents(found)[1] = RecordIn(found) /\ RecordIn(found) \in Datum
  BY <1>2, <1>3, ValidType
<1>5. /\ found # None => StateIn(found) = RecordIn(found)
      /\ found = None => StateIn(found) = Zero
  BY <1>4 DEF StateIn
<1>6. StateIn(found).n \in Nat /\ StateIn(found).generation \in Nat
  BY <1>4, <1>5 DEF Zero, Value, Datum
<1> QED BY <1>2, <1>3, <1>4, <1>5, <1>6

LEMMA LoadableType ==
    ASSUME RawTypeOK
    PROVE  /\ Newest \in StateSlots \cup {None}
           /\ Newest # None => Valid(Newest) /\ Loadable = RecordIn(Newest)
           /\ Newest = None => Loadable = Zero
           /\ Loadable.n \in Nat /\ Loadable.generation \in Nat
BY FoundType DEF Newest, Loadable

LEMMA DiskInvariant == RawSpec => []DiskInv
<1>1. RawInit => DiskInv
  <2> SUFFICES ASSUME RawInit PROVE DiskInv
    OBVIOUS
  <2>1. RawTypeOK
    <3>1. /\ files \in [Names -> Seq(Clusters) \cup {Absent}]
          /\ active \in Handle /\ reading \in Handle
      BY NameType DEF RawInit
    <3>2. data \in [Clusters -> Datum]
      BY DEF RawInit, Zero, Value, Datum
    <3>3. published \in [HostFiles -> Seq(Datum)]
      BY DEF RawInit
    <3>4. loaded \in [slot : StateSlots \cup {None}, generation : Nat]
      BY DEF RawInit
    <3> QED BY <3>1, <3>2, <3>3, <3>4 DEF RawInit, RawTypeOK
  <2>2. Apart
    BY DEF RawInit, Apart, Exists
  <2> QED BY <2>1, <2>2 DEF DiskInv
<1>2. DiskInv /\ [RawNext]_rawVars => DiskInv'
  <2> SUFFICES ASSUME DiskInv, [RawNext]_rawVars PROVE DiskInv'
    OBVIOUS
  <2> USE NameType DEF DiskInv, RawTypeOK
  <2>1. ASSUME NEW name \in Names, Rewrites(name) \/ UNCHANGED disk
        PROVE  /\ files' \in [Names -> Seq(Clusters) \cup {Absent}]
               /\ data' \in [Clusters -> Datum]
               /\ Apart'
    <3>1. CASE Rewrites(name)
      BY <2>1, <3>1, RewritesKeeps DEF Rewrites
    <3>2. CASE UNCHANGED disk
      BY <3>2 DEF disk, Apart, Exists
    <3> QED BY <2>1, <3>1, <3>2
  <2>2. ASSUME RawFails \/ RawWorks PROVE rawFaults' \in Nat
    BY <2>2 DEF RawFails, RawWorks
  <2>3. ASSUME NEW name \in HostFiles, NEW size \in 1 .. MaxSize, UploadBegin(name, size)
        PROVE  DiskInv'
    <3>1. size \in Nat
      BY RawAssumption
    <3>2. PICK s \in Nat : Fresh(name, s) /\
              \/ /\ s = size /\ active' = [name |-> name, clusters |-> files'[name]]
                 /\ session' = [name |-> name, size |-> size, written |-> 0, alive |-> TRUE]
              \/ UNCHANGED <<active, session>>
      BY <2>3, <3>1 DEF UploadBegin
    <3>3. Rewrites(name) /\ files'[name] \in Seq(Clusters)
      BY <3>2, FreshRewrites
    <3>4. active' \in Handle /\ reading' \in Handle
      <4>1. [name |-> name, clusters |-> files'[name]] \in Handle
        BY <3>3 DEF Handle
      <4>2. NoFile \in Handle
        BY DEF Handle
      <4>3. active' \in Handle
        BY <3>2, <4>1
      <4>4. reading' = NoFile
        BY <2>3 DEF UploadBegin, Forgotten
      <4> QED BY <4>2, <4>3, <4>4
    <3>5. session' \in [name : HostFiles, size : Nat, written : Nat, alive : BOOLEAN] \cup {NoSession}
      <4>1. [name |-> name, size |-> size, written |-> 0, alive |-> TRUE]
                \in [name : HostFiles, size : Nat, written : Nat, alive : BOOLEAN]
        BY <3>1
      <4> QED BY <3>2, <4>1
    <3>6. published' \in [HostFiles -> Seq(Datum)]
      <4>1. <<>> \in Seq(Datum)
        OBVIOUS
      <4> QED BY <2>3, <4>1 DEF UploadBegin
    <3>7. uploads' \in Nat /\ UNCHANGED <<reader, orphan>>
      BY <2>3 DEF UploadBegin
    <3>8. rawFaults' \in Nat
      <4>1. RawFails \/ RawWorks
        BY <2>3 DEF UploadBegin
      <4> QED BY <2>2, <4>1
    <3> QED BY <2>1, <3>3, <3>4, <3>5, <3>6, <3>7, <3>8 DEF reader
  <2>4. CASE UploadWrite
    <3>1. Value("host", session.written, uploads) \in Datum
      BY <2>4 DEF UploadWrite, Value, Datum, NoSession
    <3>2. data' \in [Clusters -> Datum]
      BY <2>4, <3>1 DEF UploadWrite
    <3>3. session' \in [name : HostFiles, size : Nat, written : Nat, alive : BOOLEAN] \cup {NoSession}
      <4>1. session' = session \/ session' = [session EXCEPT !.written = @ + 1]
        BY <2>4 DEF UploadWrite
      <4>2. session.alive
        BY <2>4 DEF UploadWrite
      <4>3. session \in [name : HostFiles, size : Nat, written : Nat, alive : BOOLEAN]
        BY <4>2 DEF NoSession
      <4>4. session.written + 1 \in Nat
        BY <4>3
      <4> QED BY <4>1, <4>3, <4>4
    <3>4. Apart'
      BY <2>4 DEF UploadWrite, Apart, Exists
    <3> QED BY <2>2, <2>4, <3>2, <3>3, <3>4 DEF UploadWrite, reader
  <2>5. CASE UploadCommit
    <3>1. \A i \in 1 .. session.size : Value("host", i - 1, uploads) \in Datum
      BY <2>5 DEF UploadCommit, Value, Datum, NoSession
    <3>2. [i \in 1 .. session.size |-> Value("host", i - 1, uploads)] \in Seq(Datum)
      <4>1. session.size \in Nat
        BY <2>5 DEF UploadCommit, NoSession
      <4> HIDE DEF Value
      <4> QED BY <3>1, <4>1
    <3> QED BY <2>1, <2>5, <3>2 DEF UploadCommit, Committed, reader, disk
  <2>6. CASE UploadAbort
    <3>1. session.name \in Names
      BY <2>6 DEF UploadAbort, NoSession
    <3>2. Rewrites(session.name) \/ UNCHANGED disk
      BY <2>6, <3>1, RemovedRewrites DEF UploadAbort
    <3> QED BY <2>1, <2>2, <2>6, <3>1, <3>2 DEF UploadAbort, Ended, Forgotten, reader
  <2>7. CASE HostDies
    <3>1. session' \in [name : HostFiles, size : Nat, written : Nat, alive : BOOLEAN]
      <4>1. session.alive /\ session' = [session EXCEPT !.alive = FALSE]
        BY <2>7 DEF HostDies
      <4>2. session # NoSession
        BY <4>1 DEF NoSession
      <4> QED BY <4>1, <4>2
    <3> QED BY <2>1, <2>7, <3>1 DEF HostDies, reader, disk
  <2>8. ASSUME NEW name \in HostFiles, Delete(name) PROVE DiskInv'
    <3>1. name \in Names /\ (Rewrites(name) \/ UNCHANGED disk)
      BY <2>8, RemovedRewrites DEF Delete
    <3>2. published' \in [HostFiles -> Seq(Datum)]
      <4>1. <<>> \in Seq(Datum)
        OBVIOUS
      <4> QED BY <2>8, <4>1 DEF Delete
    <3> QED BY <2>1, <2>2, <2>8, <3>1, <3>2 DEF Delete, Forgotten, reader
  <2>9. ASSUME NEW name \in HostFiles, Read(name) PROVE DiskInv'
    <3>1. reading' \in Handle
      BY <2>9 DEF Read, ReadCache, Exists, Handle
    <3> QED BY <2>1, <2>9, <3>1 DEF Read, RawWorks, reader, host, disk
  <2>10. CASE OpenBook
    BY <2>1, <2>10 DEF OpenBook, Forgotten, RawWorks, reader, host, disk
  <2>11. CASE SaveIndex
    <3>1. Value("index", 0, 0) \in Datum
      BY DEF Value, Datum
    <3>2. Rewrites("index")
      BY <2>11, <3>1, ReplacedRewrites, HalfReplacedRewrites DEF SaveIndex
    <3>3. reading' \in Handle
      BY <2>11, <3>1, ReplacedRewrites DEF SaveIndex, Forgotten, Handle
    <3> QED BY <2>1, <2>2, <2>11, <3>2, <3>3 DEF SaveIndex, reader, host
  <2>12. CASE ChangeState
    BY <2>1, <2>12 DEF ChangeState, host, disk
  <2>13. CASE SaveState
    <3> DEFINE value == Value("state", state, loaded.generation + 1)
    <3>1. value \in Datum
      BY DEF Value, Datum
    <3>2. Rewrites(Target)
      BY <2>13, <3>1, ReplacedRewrites, HalfReplacedRewrites DEF SaveState
    <3>3. reading' \in Handle
      BY <2>13, <3>1, ReplacedRewrites DEF SaveState, Forgotten, Handle
    <3>4. promised' \in Nat /\ loaded' \in [slot : StateSlots \cup {None}, generation : Nat]
      BY <2>13 DEF SaveState
    <3>5. misled' \in BOOLEAN
      <4>1. misled' = misled \/ misled' = (misled /\ Newest' # Target)
        BY <2>13 DEF SaveState
      <4> QED BY <4>1
    <3> QED BY <2>1, <2>2, <2>13, <3>2, <3>3, <3>4, <3>5 DEF SaveState, host
  <2>14. ASSUME NEW unread \in SUBSET StateSlots, Boot(unread) PROVE DiskInv'
    <3>1. PICK found : found = NewestBut(unread)
      OBVIOUS
    <3>2. found \in StateSlots \cup {None} /\ StateIn(found).n \in Nat /\ StateIn(found).generation \in Nat
      BY <3>1, FoundType
    <3>3. /\ state' = StateIn(found).n /\ promised' = StateIn(found).n
          /\ loaded' = [slot |-> found, generation |-> StateIn(found).generation]
          /\ misled' = (found # Newest)
      BY <2>14, <3>1 DEF Boot
    <3>4. misled' \in BOOLEAN
      BY <3>3
    <3>5. /\ state' \in Nat /\ promised' \in Nat
          /\ loaded' \in [slot : StateSlots \cup {None}, generation : Nat]
      BY <3>2, <3>3
    <3> QED BY <2>1, <2>2, <2>14, <3>4, <3>5 DEF Boot, rawBounds, disk
  <2>15. CASE UNCHANGED rawVars
    BY <2>1, <2>15 DEF rawVars, rawBounds, disk
  <2> QED
    BY <2>3, <2>4, <2>5, <2>6, <2>7, <2>8, <2>9, <2>10, <2>11, <2>12, <2>13, <2>14, <2>15
    DEF RawNext, Commands, Reader
<1> QED BY <1>1, <1>2, PTL DEF RawSpec

(***************************************************************************)
(* The upload slot, its session and what the host has committed.           *)
(***************************************************************************)
SessionInv ==
    /\ active = NoFile <=> session = NoSession
    /\ active # NoFile => /\ active.name = session.name
                          /\ Len(active.clusters) = session.size
                          /\ session.written <= session.size

\* Unless the file of an upload was deleted under it, the cached clusters are
\* those of the files, the upload in progress has in them what was written, and
\* what was committed is there.
ContentInv ==
    ~orphan =>
        /\ reading # NoFile => files[reading.name] = reading.clusters
        /\ active # NoFile =>
              /\ files[active.name] = active.clusters
              /\ published[active.name] = <<>>
              /\ \A i \in 1 .. session.written :
                    data[active.clusters[i]] = Value("host", i - 1, uploads)
        /\ \A name \in HostFiles : published[name] # <<>> =>
              Exists(name) /\ Contents(name) = published[name]

(***************************************************************************)
(* The reader's state.                                                     *)
(***************************************************************************)
\* The generations of slot A are odd, those of slot B even.
OddInA ==
    ~orphan =>
        /\ \A s \in StateSlots : Valid(s) => (RecordIn(s).generation % 2 = 1 <=> s = "A")
        /\ loaded.generation % 2 = 1 <=> loaded.slot = "A"

\* Unless the last boot was misled: the slot that was loaded or saved last holds
\* what was promised; the other one holds an older record, or the newer one of a
\* save that failed after it had been written, or none.
StateInv ==
    ~orphan /\ ~misled =>
        /\ state >= promised
        /\ IF loaded.slot = None
           THEN loaded.generation = 0 /\ promised = 0 /\ ~ Valid("B")
           ELSE /\ Valid(loaded.slot)
                /\ RecordIn(loaded.slot).generation = loaded.generation
                /\ RecordIn(loaded.slot).n = promised
        /\ Valid(Target) =>
              \/ /\ RecordIn(Target).generation = loaded.generation + 1
                 /\ RecordIn(Target).n >= promised
              \/ loaded.slot # None /\ RecordIn(Target).generation < loaded.generation

LEMMA SessionInvariant == RawSpec => []SessionInv
<1>1. RawInit => SessionInv
  BY DEF RawInit, SessionInv
<1>2. DiskInv /\ DiskInv' /\ SessionInv /\ [RawNext]_rawVars => SessionInv'
  <2> SUFFICES ASSUME DiskInv, DiskInv', SessionInv, [RawNext]_rawVars PROVE SessionInv'
    OBVIOUS
  <2> USE DEF SessionInv
  <2>1. ASSUME NEW name \in HostFiles, NEW size \in 1 .. MaxSize, UploadBegin(name, size)
        PROVE  SessionInv'
    <3>1. name \in Names /\ name # None /\ size \in Nat
      BY NameType, RawAssumption
    <3>2. CASE UNCHANGED <<active, session>>
      BY <3>2
    <3>3. CASE Fresh(name, size) /\ active' = [name |-> name, clusters |-> files'[name]]
                  /\ session' = [name |-> name, size |-> size, written |-> 0, alive |-> TRUE]
      <4>1. Len(files'[name]) = size
        BY <3>1, <3>3, FreshRewrites DEF DiskInv
      <4>2. active'.name # NoFile.name /\ session'.name # NoSession.name
        BY <3>1, <3>3 DEF NoFile, NoSession
      <4> QED BY <3>1, <3>3, <4>1, <4>2
    <3> QED BY <2>1, <3>2, <3>3 DEF UploadBegin
  <2>2. CASE UploadWrite
    <3>1. session # NoSession
      BY <2>2 DEF UploadWrite, NoSession
    <3>2. UNCHANGED session \/ session' = [session EXCEPT !.written = @ + 1]
      BY <2>2 DEF UploadWrite
    <3>3. /\ session' # NoSession /\ session'.name = session.name /\ session'.size = session.size
          /\ session'.written \in {session.written, session.written + 1}
          /\ session.written \in Nat /\ session.size \in Nat
      <4>1. session \in [name : HostFiles, size : Nat, written : Nat, alive : BOOLEAN]
        BY <3>1 DEF DiskInv, RawTypeOK
      <4>2. session.name # None
        BY <4>1, NameType
      <4> QED BY <3>2, <4>1, <4>2 DEF NoSession
    <3> QED BY <2>2, <3>1, <3>3 DEF UploadWrite
  <2>3. CASE UploadCommit
    BY <2>3 DEF UploadCommit, Committed
  <2>4. CASE UploadAbort
    BY <2>4 DEF UploadAbort, Ended
  <2>5. CASE HostDies
    <3>1. session # NoSession
      BY <2>5 DEF HostDies, NoSession
    <3>2. session \in [name : HostFiles, size : Nat, written : Nat, alive : BOOLEAN]
      BY <3>1 DEF DiskInv, RawTypeOK
    <3>3. session' = [session EXCEPT !.alive = FALSE] /\ active' = active
      BY <2>5 DEF HostDies
    <3>4. session'.name = session.name /\ session'.size = session.size /\ session'.written = session.written
      BY <3>2, <3>3
    <3>5. session' # NoSession
      <4>1. session.name # None
        BY <3>2, NameType
      <4> QED BY <3>4, <4>1 DEF NoSession
    <3> QED BY <3>1, <3>3, <3>4, <3>5
  <2>6. ASSUME NEW name \in HostFiles, Delete(name) \/ Read(name) PROVE SessionInv'
    BY <2>6 DEF Delete, Read, host
  <2>7. CASE OpenBook \/ SaveIndex \/ ChangeState \/ SaveState
    BY <2>7 DEF OpenBook, SaveIndex, ChangeState, SaveState, host
  <2>8. ASSUME NEW unread \in SUBSET StateSlots, Boot(unread) PROVE SessionInv'
    BY <2>8 DEF Boot
  <2>9. CASE UNCHANGED rawVars
    BY <2>9 DEF rawVars
  <2> QED
    BY <2>1, <2>2, <2>3, <2>4, <2>5, <2>6, <2>7, <2>8, <2>9 DEF RawNext, Commands, Reader
<1> QED BY <1>1, <1>2, DiskInvariant, PTL DEF RawSpec

\* A call leaves this file alone.
Keeps(n) ==
    /\ files'[n] = files[n]
    /\ Exists(n) => Contents(n)' = Contents(n)

(* A cluster written for the upload in progress is in no other file.       *)
LEMMA WriteKeeps ==
    ASSUME DiskInv, SessionInv, ContentInv, ~orphan, UploadWrite
    PROVE  /\ active # NoFile /\ active.name \in Names /\ active.clusters \in Seq(Clusters)
           /\ session.written \in 0 .. Len(active.clusters) - 1
           /\ \A n \in Names \ {active.name} : Keeps(n)
           /\ \A i \in 1 .. Len(active.clusters) : i # session.written + 1 =>
                 data'[active.clusters[i]] = data[active.clusters[i]]
           /\ session'.written # session.written =>
                 /\ session'.written = session.written + 1
                 /\ data'[active.clusters[session.written + 1]]
                        = Value("host", session.written, uploads)
<1> DEFINE at == session.written + 1
           cluster == active.clusters[at]
<1>1. session # NoSession
  BY DEF UploadWrite, NoSession
<1>2. /\ active # NoFile
      /\ session \in [name : HostFiles, size : Nat, written : Nat, alive : BOOLEAN]
      /\ active \in [name : Names, clusters : Seq(Clusters)]
  BY <1>1 DEF SessionInv, DiskInv, RawTypeOK, Handle
<1>3. /\ files[active.name] = active.clusters /\ Exists(active.name)
      /\ Len(active.clusters) = session.size /\ session.written < session.size
      /\ at \in 1 .. Len(active.clusters) /\ cluster \in Clusters
  <2>1. files[active.name] = active.clusters /\ Exists(active.name)
    BY <1>2, AbsentIsNone DEF ContentInv, Exists
  <2>2. Len(active.clusters) = session.size /\ session.written < session.size
    BY <1>2 DEF SessionInv, UploadWrite
  <2>3. at \in 1 .. Len(active.clusters)
    BY <1>2, <2>2
  <2> QED BY <1>2, <2>1, <2>2, <2>3
<1>4. /\ files' = files
      /\ data' = data \/ data' = [data EXCEPT ![cluster] = Value("host", session.written, uploads)]
      /\ \/ /\ data' = [data EXCEPT ![cluster] = Value("host", session.written, uploads)]
            /\ session' = [session EXCEPT !.written = @ + 1]
         \/ session' = session
  BY DEF UploadWrite, ClusterAt
<1>5. \A c \in Clusters : c # cluster => data'[c] = data[c]
  BY <1>4 DEF DiskInv, RawTypeOK
<1>6. ASSUME NEW n \in Names \ {active.name} PROVE Keeps(n)
  <2>1. CASE ~ Exists(n)
    BY <1>4, <2>1 DEF Keeps
  <2>2. CASE Exists(n)
    <3>1. cluster \in Range(files[active.name])
      BY <1>2, <1>3 DEF Range
    <3>2. Range(files[n]) \cap Range(files[active.name]) = {}
      BY <1>2, <1>3, <2>2 DEF DiskInv, Apart
    <3>3. files[n] \in Seq(Clusters)
      BY <2>2 DEF DiskInv, RawTypeOK, Exists
    <3>4. \A i \in DOMAIN files[n] : files[n][i] # cluster /\ files[n][i] \in Clusters
      BY <3>1, <3>2, <3>3 DEF Range
    <3>5. \A i \in DOMAIN files[n] : data'[files[n][i]] = data[files[n][i]]
      BY <1>5, <3>4
    <3> QED BY <1>4, <3>5 DEF Keeps, Contents
  <2> QED BY <2>1, <2>2
<1>7. ASSUME NEW i \in 1 .. Len(active.clusters), i # at
      PROVE  data'[active.clusters[i]] = data[active.clusters[i]]
  <2>1. IsInjective(active.clusters)
    BY <1>2, <1>3 DEF DiskInv, Apart
  <2>2. active.clusters[i] # cluster /\ active.clusters[i] \in Clusters
    BY <1>2, <1>3, <1>7, <2>1 DEF IsInjective
  <2> QED BY <1>5, <2>2
<1>8. session'.written # session.written =>
         session'.written = at /\ data'[cluster] = Value("host", session.written, uploads)
  BY <1>2, <1>3, <1>4 DEF DiskInv, RawTypeOK
<1> QED BY <1>2, <1>3, <1>6, <1>7, <1>8

(* What a call that rewrites one file leaves of what the host was told.    *)
LEMMA RewritesKeepsContent ==
    ASSUME DiskInv, SessionInv, ContentInv, ~orphan,
           NEW name \in Names, (Rewrites(name) \/ UNCHANGED disk)
    PROVE  /\ \A n \in Names \ {name} : Keeps(n)
           /\ \A n \in HostFiles \ {name} : published[n] # <<>> =>
                 Exists(n)' /\ Contents(n)' = published[n]
           /\ active # NoFile /\ active.name # name =>
                 /\ files'[active.name] = active.clusters
                 /\ \A i \in 1 .. session.written :
                       data'[active.clusters[i]] = Value("host", i - 1, uploads)
<1>1. \A n \in Names \ {name} : Keeps(n) /\ Exists(n)' = Exists(n)
  <2>1. CASE Rewrites(name)
    BY <2>1, RewritesKeeps DEF Keeps
  <2>2. CASE UNCHANGED disk
    BY <2>2 DEF disk, Keeps, Exists, Contents
  <2> QED BY <2>1, <2>2
<1>2. \A n \in HostFiles \ {name} : published[n] # <<>> => Exists(n)' /\ Contents(n)' = published[n]
  BY <1>1, NameType DEF Keeps, ContentInv
<1>3. ASSUME active # NoFile, active.name # name
      PROVE  /\ files'[active.name] = active.clusters
             /\ \A i \in 1 .. session.written :
                   data'[active.clusters[i]] = Value("host", i - 1, uploads)
  <2>1. /\ active \in [name : Names, clusters : Seq(Clusters)]
        /\ files[active.name] = active.clusters /\ Exists(active.name)
        /\ Len(active.clusters) = session.size /\ session.written <= session.size
        /\ session.written \in Nat
    <3>1. active \in [name : Names, clusters : Seq(Clusters)]
      BY <1>3 DEF DiskInv, RawTypeOK, Handle
    <3>2. files[active.name] = active.clusters /\ Exists(active.name)
      BY <1>3, <3>1, AbsentIsNone DEF ContentInv, Exists
    <3>3. session # NoSession /\ Len(active.clusters) = session.size /\ session.written <= session.size
      BY <1>3 DEF SessionInv
    <3>4. session.written \in Nat
      BY <3>3 DEF DiskInv, RawTypeOK
    <3> QED BY <3>1, <3>2, <3>3, <3>4
  <2>2. PICK n \in Names : n = active.name
    BY <2>1
  <2>3. Keeps(n) /\ files'[n] = active.clusters
    BY <1>1, <1>3, <2>1, <2>2 DEF Keeps
  <2>4. ASSUME NEW i \in 1 .. session.written
        PROVE  data'[active.clusters[i]] = Value("host", i - 1, uploads)
    <3>1. i \in DOMAIN active.clusters
      BY <2>1
    <3>2. Contents(n)[i] = data[active.clusters[i]]
      BY <2>1, <2>2, <3>1 DEF Contents
    <3>3. Contents(n)'[i] = data'[active.clusters[i]]
      BY <2>3, <3>1 DEF Contents
    <3>4. data[active.clusters[i]] = Value("host", i - 1, uploads)
      BY <1>3 DEF ContentInv
    <3> QED BY <2>1, <2>2, <2>3, <3>2, <3>3, <3>4 DEF Keeps
  <2> QED BY <2>2, <2>3, <2>4
<1> QED BY <1>1, <1>2, <1>3

LEMMA ContentInvariant == RawSpec => []ContentInv
<1>1. RawInit => ContentInv
  BY DEF RawInit, ContentInv
<1>2. DiskInv /\ DiskInv' /\ SessionInv /\ SessionInv' /\ ContentInv /\ [RawNext]_rawVars => ContentInv'
  <2> SUFFICES ASSUME DiskInv, DiskInv', SessionInv, SessionInv', ContentInv, [RawNext]_rawVars,
                      ~ orphan'
               PROVE  ContentInv'
    BY DEF ContentInv
  <2>0. ~ orphan
    BY DEF RawNext, Commands, Reader, UploadBegin, UploadWrite, UploadCommit, UploadAbort,
           HostDies, Delete, Read, OpenBook, SaveIndex, ChangeState, SaveState, Boot, rawVars,
           host, reader
  <2> DEFINE readingOK == reading # NoFile => files[reading.name] = reading.clusters
             activeOK == active # NoFile =>
                            /\ files[active.name] = active.clusters
                            /\ published[active.name] = <<>>
                            /\ \A i \in 1 .. session.written :
                                  data[active.clusters[i]] = Value("host", i - 1, uploads)
             publishedOK == \A n \in HostFiles : published[n] # <<>> =>
                               Exists(n) /\ Contents(n) = published[n]
  <2>p. readingOK /\ activeOK /\ publishedOK
    BY <2>0 DEF ContentInv
  <2>q. SUFFICES readingOK' /\ activeOK' /\ publishedOK'
    BY DEF ContentInv
  <2>1. ASSUME NEW name \in HostFiles, NEW size \in 1 .. MaxSize, UploadBegin(name, size)
        PROVE  readingOK' /\ activeOK' /\ publishedOK'
    <3>1. name \in Names /\ size \in Nat
      BY NameType, RawAssumption
    <3>2. PICK s \in Nat : Fresh(name, s)
      BY <2>1, <3>1 DEF UploadBegin
    <3>3. Rewrites(name)
      BY <3>1, <3>2, FreshRewrites DEF DiskInv
    <3>4. published' = [published EXCEPT ![name] = <<>>] /\ reading' = NoFile /\ active = NoFile
      BY <2>1 DEF UploadBegin, Forgotten, MayBegin
    <3>5. publishedOK'
      BY <2>0, <3>1, <3>3, <3>4, RewritesKeepsContent DEF DiskInv, RawTypeOK
    <3>6. activeOK'
      <4>1. CASE UNCHANGED active
        BY <3>4, <4>1
      <4>2. CASE active' = [name |-> name, clusters |-> files'[name]] /\ session'.written = 0
        BY <3>4, <4>2 DEF DiskInv, RawTypeOK
      <4> QED BY <2>1, <4>1, <4>2 DEF UploadBegin
    <3> QED BY <3>4, <3>5, <3>6
  <2>2. CASE UploadWrite
    <3>1. /\ active # NoFile /\ active.name \in Names /\ active.clusters \in Seq(Clusters)
          /\ session.written \in 0 .. Len(active.clusters) - 1
          /\ \A n \in Names \ {active.name} : Keeps(n)
          /\ \A i \in 1 .. Len(active.clusters) : i # session.written + 1 =>
                 data'[active.clusters[i]] = data[active.clusters[i]]
          /\ session'.written # session.written =>
                 /\ session'.written = session.written + 1
                 /\ data'[active.clusters[session.written + 1]]
                        = Value("host", session.written, uploads)
      BY <2>0, <2>2, WriteKeeps
    <3>2. UNCHANGED <<files, active, reading, published, uploads>>
      BY <2>2 DEF UploadWrite
    <3>3. publishedOK'
      <4> SUFFICES ASSUME NEW n \in HostFiles, published[n] # <<>>
                   PROVE  Exists(n)' /\ Contents(n)' = published[n]
        BY <3>2
      <4>1. n # active.name /\ n \in Names
        BY <2>p, <3>1, NameType
      <4>2. Keeps(n) /\ Exists(n) /\ Exists(n)'
        BY <2>p, <3>1, <3>2, <4>1 DEF Exists
      <4> QED BY <2>p, <4>2 DEF Keeps
    <3>4. activeOK'
      <4>1. ASSUME NEW i \in 1 .. session'.written
            PROVE  data'[active.clusters[i]] = Value("host", i - 1, uploads)
        <5>1. CASE i = session.written + 1
          BY <3>1, <4>1, <5>1
        <5>2. CASE i # session.written + 1
          <6>1. i \in 1 .. session.written
            BY <3>1, <4>1, <5>2
          <6> QED BY <2>p, <3>1, <5>2, <6>1
        <5> QED BY <5>1, <5>2
      <4> QED BY <2>p, <3>1, <3>2, <4>1
    <3> QED BY <2>p, <3>2, <3>3, <3>4
  <2>3. CASE UploadCommit
    <3>1. session # NoSession
      BY <2>3 DEF UploadCommit, NoSession
    <3>2. /\ active # NoFile /\ active.name = session.name
          /\ Len(active.clusters) = session.size /\ session.written = session.size
          /\ session.size \in Nat /\ session.name \in HostFiles
          /\ active.clusters \in Seq(Clusters)
      <4>1. active # NoFile /\ active.name = session.name /\ Len(active.clusters) = session.size
        BY <3>1 DEF SessionInv
      <4>2. session.size \in Nat /\ session.name \in HostFiles
        BY <3>1 DEF DiskInv, RawTypeOK
      <4>3. active.clusters \in Seq(Clusters)
        BY <4>1 DEF DiskInv, RawTypeOK, Handle
      <4> QED BY <2>3, <4>1, <4>2, <4>3 DEF UploadCommit, Committable
    <3>3. /\ active' = NoFile /\ reading' = active /\ UNCHANGED disk
          /\ published' = [published EXCEPT ![session.name] =
                               [i \in 1 .. session.size |-> Value("host", i - 1, uploads)]]
      BY <2>3 DEF UploadCommit, Committed
    <3>4. Exists(session.name) /\ DOMAIN files[session.name] = 1 .. session.size
      BY <2>p, <3>2, AbsentIsNone DEF Exists
    <3>5. Contents(session.name) = [i \in 1 .. session.size |-> Value("host", i - 1, uploads)]
      <4>1. \A i \in 1 .. session.size : data[files[session.name][i]] = Value("host", i - 1, uploads)
        BY <2>p, <3>2
      <4> QED BY <3>4, <4>1 DEF Contents
    <3>6. publishedOK'
      <4> SUFFICES ASSUME NEW n \in HostFiles, published'[n] # <<>>
                   PROVE  Exists(n) /\ Contents(n) = published'[n]
        BY <3>3 DEF disk, Exists, Contents
      <4>1. CASE n = session.name
        BY <3>2, <3>3, <3>4, <3>5, <4>1 DEF DiskInv, RawTypeOK
      <4>2. CASE n # session.name
        BY <2>p, <3>3, <4>2 DEF DiskInv, RawTypeOK
      <4> QED BY <4>1, <4>2
    <3> QED BY <2>p, <3>2, <3>3, <3>6 DEF disk
  <2>4. CASE UploadAbort
    <3>1. session # NoSession /\ session.name \in HostFiles
      <4>1. session # NoSession
        BY <2>4 DEF UploadAbort, NoSession
      <4> QED BY <4>1 DEF DiskInv, RawTypeOK
    <3>2. session.name \in Names /\ published[session.name] = <<>>
      BY <2>p, <3>1, NameType DEF SessionInv
    <3>3. Rewrites(session.name) \/ UNCHANGED disk
      BY <2>4, <3>2, RemovedRewrites DEF UploadAbort, DiskInv
    <3>4. active' = NoFile /\ reading' = NoFile /\ published' = published
      BY <2>4 DEF UploadAbort, Ended, Forgotten
    <3>5. publishedOK'
      BY <2>0, <3>2, <3>3, <3>4, RewritesKeepsContent
    <3> QED BY <3>4, <3>5
  <2>5. CASE HostDies
    <3>1. UNCHANGED <<files, data, active, reading, published, uploads>>
      BY <2>5 DEF HostDies, reader, disk
    <3>2. active # NoFile => session'.written = session.written
      BY <2>5 DEF HostDies, SessionInv, DiskInv, RawTypeOK
    <3> QED BY <2>p, <3>1, <3>2 DEF Exists, Contents
  <2>6. ASSUME NEW name \in HostFiles, Delete(name) PROVE readingOK' /\ activeOK' /\ publishedOK'
    <3>1. name \in Names
      BY NameType
    <3>2. Rewrites(name) \/ UNCHANGED disk
      BY <2>6, <3>1, RemovedRewrites DEF Delete, DiskInv
    <3>3. reading' = NoFile /\ active' = active /\ active.name # name /\ UNCHANGED <<session, uploads>>
      BY <2>6 DEF Delete, Forgotten
    <3>4. CASE Removed(name) /\ published' = [published EXCEPT ![name] = <<>>]
      <4>1. \A n \in HostFiles \ {name} : published'[n] = published[n]
        BY <3>4
      <4>2. published'[name] = <<>>
        BY <3>4 DEF DiskInv, RawTypeOK
      <4>3. publishedOK'
        BY <2>0, <3>1, <3>2, <4>1, <4>2, RewritesKeepsContent
      <4>4. active # NoFile => published'[active.name] = <<>>
        <5>1. active # NoFile => active.name \in HostFiles
          BY DEF SessionInv, DiskInv, RawTypeOK
        <5> QED BY <2>p, <3>3, <4>1, <5>1
      <4>5. activeOK'
        BY <2>0, <3>1, <3>2, <3>3, <4>4, RewritesKeepsContent
      <4> QED BY <3>3, <4>3, <4>5
    <3>5. CASE UNCHANGED <<disk, published>>
      BY <2>p, <3>3, <3>5 DEF disk, Exists, Contents
    <3> QED BY <2>6, <3>4, <3>5 DEF Delete
  <2>7. ASSUME NEW name \in HostFiles, Read(name) PROVE readingOK' /\ activeOK' /\ publishedOK'
    BY <2>p, <2>7 DEF Read, ReadCache, disk, host, Exists, Contents
  <2>8. CASE OpenBook
    BY <2>p, <2>8 DEF OpenBook, Forgotten, disk, host, Exists, Contents
  <2>9. ASSUME NEW name \in Names \ HostFiles, NEW value \in Datum,
               \/ HalfReplaced(name) /\ reading' = NoFile
               \/ Replaced(name, value) /\ reading' = [name |-> name, clusters |-> files'[name]],
               active = NoFile, UNCHANGED <<active, host>>
        PROVE  readingOK' /\ activeOK' /\ publishedOK'
    <3>1. Rewrites(name)
      BY <2>9, ReplacedRewrites, HalfReplacedRewrites DEF DiskInv
    <3>2. publishedOK'
      BY <2>0, <2>9, <3>1, RewritesKeepsContent DEF host
    <3> QED BY <2>9, <3>2
  <2>10. CASE SaveIndex
    <3>1. Value("index", 0, 0) \in Datum
      BY DEF Value, Datum
    <3> QED BY <2>9, <2>10, <3>1, NameType DEF SaveIndex, MayBegin, Forgotten
  <2>11. CASE ChangeState
    BY <2>p, <2>11 DEF ChangeState, disk, host, Exists, Contents
  <2>12. CASE SaveState
    <3>1. Value("state", state, loaded.generation + 1) \in Datum
      BY DEF Value, Datum, DiskInv, RawTypeOK
    <3>2. Target \in Names \ HostFiles
      BY NameType
    <3> QED BY <2>9, <2>12, <3>1, <3>2 DEF SaveState, MayBegin, Forgotten
  <2>13. ASSUME NEW unread \in SUBSET StateSlots, Boot(unread)
         PROVE  readingOK' /\ activeOK' /\ publishedOK'
    BY <2>p, <2>13 DEF Boot, disk, Exists, Contents
  <2>14. CASE UNCHANGED rawVars
    BY <2>p, <2>14 DEF rawVars, disk, rawBounds, Exists, Contents
  <2> QED
    BY <2>1, <2>2, <2>3, <2>4, <2>5, <2>6, <2>7, <2>8, <2>10, <2>11, <2>12, <2>13, <2>14
    DEF RawNext, Commands, Reader
<1> QED BY <1>1, <1>2, DiskInvariant, SessionInvariant, PTL DEF RawSpec

(* A slot that is left alone is read as before.                            *)
LEMMA SlotKept ==
    ASSUME RawTypeOK, NEW s \in StateSlots, Keeps(s)
    PROVE  /\ Valid(s)' = Valid(s)
           /\ Valid(s) => RecordIn(s)' = RecordIn(s)
<1>1. files'[s] = files[s] /\ Exists(s)' = Exists(s)
  BY DEF Keeps, Exists
<1>2. Exists(s) => Contents(s)' = Contents(s)
  BY DEF Keeps
<1>3. Valid(s)' = Valid(s)
  BY <1>1, <1>2 DEF Valid
<1>4. ASSUME Valid(s) PROVE RecordIn(s)' = RecordIn(s)
  <2>1. files[s] \in Seq(Clusters) /\ Len(files[s]) = 1 /\ Contents(s)[1] = RecordIn(s) /\ Exists(s)
    BY <1>4, ValidType DEF Valid
  <2>2. 1 \in DOMAIN files'[s]
    BY <1>1, <2>1
  <2>3. Contents(s)'[1] = data'[files'[s][1]]
    BY <2>2 DEF Contents
  <2> QED BY <1>2, <2>1, <2>3 DEF RecordIn
<1> QED BY <1>3, <1>4

(* The slot that is saved.                                                 *)
LEMMA SlotReplaced ==
    ASSUME RawTypeOK, NEW s \in StateSlots, NEW value \in Datum, value.by = "state",
           Replaced(s, value)
    PROVE  Valid(s)' /\ RecordIn(s)' = value
<1>1. s \in Names
  BY NameType
<1>2. files'[s] \in Seq(Clusters) /\ Len(files'[s]) = 1 /\ data'[files'[s][1]] = value
  BY <1>1, ReplacedRewrites
<1>3. 1 \in DOMAIN files'[s] /\ files'[s] # Absent
  BY <1>2, AbsentIsNone
<1>4. Contents(s)'[1] = value
  BY <1>2, <1>3 DEF Contents
<1> QED BY <1>2, <1>3, <1>4 DEF Valid, Exists, RecordIn

LEMMA SlotHalfReplaced ==
    ASSUME RawTypeOK, NEW s \in StateSlots, HalfReplaced(s)
    PROVE  ~ Valid(s)'
<1>1. s \in Names
  BY NameType
<1>2. SUFFICES ASSUME Exists(s)', Len(files'[s]) = 1
               PROVE  Contents(s)'[1].by # "state"
  BY DEF Valid
<1>3. /\ files'[s] \in Seq(Clusters)
      /\ \A i \in DOMAIN files'[s] : data'[files'[s][i]] = Zero
  BY <1>1, <1>2, HalfReplacedRewrites DEF Exists
<1>4. Contents(s)'[1] = Zero
  BY <1>2, <1>3 DEF Contents
<1> QED BY <1>4 DEF Zero, Value

(* What a boot loads, from what the slots hold.                            *)
LEMMA BootLoads ==
    ASSUME RawTypeOK, StateInv, ~orphan, ~misled
    PROVE  /\ Newest = IF Valid(Target)
                          /\ RecordIn(Target).generation = loaded.generation + 1
                       THEN Target ELSE loaded.slot
           /\ Loadable.n >= promised
<1>1. /\ Target = IF loaded.slot = "A" THEN "B" ELSE "A"
      /\ loaded.slot \in {"A", "B", None} /\ loaded.generation \in Nat /\ promised \in Nat
  BY DEF Target, RawTypeOK, StateSlots
<1>2. \A s \in StateSlots : Valid(s) => RecordIn(s).generation \in Nat /\ RecordIn(s).n \in Nat
  BY ValidType DEF Datum
<1>3. None \notin StateSlots
  BY DEF None, StateSlots
<1>4. CASE loaded.slot = None
  <2>1. /\ loaded.generation = 0 /\ promised = 0 /\ ~ Valid("B") /\ Target = "A"
        /\ Valid("A") => RecordIn("A").generation = loaded.generation + 1
    BY <1>1, <1>4 DEF StateInv, None
  <2>2. Newest = IF Valid("A") THEN "A" ELSE None
    BY <2>1, NewestCases
  <2> QED BY <1>4, <2>1, <2>2, LoadableType
<1>5. ASSUME NEW s \in StateSlots, NEW t \in StateSlots, loaded.slot = s, t = Target,
             {s, t} = {"A", "B"}
      PROVE  /\ Newest = IF Valid(t) /\ RecordIn(t).generation = loaded.generation + 1
                         THEN t ELSE s
             /\ Loadable.n >= promised
  <2>1. /\ Valid(s) /\ RecordIn(s).generation = loaded.generation /\ RecordIn(s).n = promised
        /\ Valid(t) => \/ RecordIn(t).generation = loaded.generation + 1 /\ RecordIn(t).n >= promised
                       \/ RecordIn(t).generation < loaded.generation
    BY <1>3, <1>5 DEF StateInv
  <2>2. (s = "A" /\ t = "B") \/ (s = "B" /\ t = "A")
    BY <1>1, <1>5
  <2>3. Newest = IF Valid(t) /\ RecordIn(t).generation = loaded.generation + 1 THEN t ELSE s
    BY <1>1, <1>2, <2>1, <2>2, NewestCases
  <2>4. Newest \in {s, t} /\ Newest # None /\ Loadable = RecordIn(Newest)
    BY <1>3, <2>3, LoadableType
  <2> QED BY <1>1, <2>1, <2>3, <2>4
<1> QED BY <1>1, <1>4, <1>5 DEF StateSlots

(* An upload whose file was deleted under it is never forgotten.           *)
LEMMA OrphanStays == ASSUME [RawNext]_rawVars, orphan PROVE orphan'
BY DEF RawNext, Commands, Reader, UploadBegin, UploadWrite, UploadCommit, UploadAbort,
       HostDies, Delete, Read, OpenBook, SaveIndex, ChangeState, SaveState, Boot, rawVars,
       host, reader

(* The newest of the slots is not older than the other one.                *)
LEMMA NewestIsNewest ==
    ASSUME NEW s \in StateSlots, NEW o \in StateSlots, o # s
    PROVE  RawTypeOK /\ Newest = s /\ Valid(o) =>
              /\ RecordIn(o).generation \in Nat
              /\ RecordIn(o).generation <= RecordIn(s).generation
<1> SUFFICES ASSUME RawTypeOK, Newest = s, Valid(o)
             PROVE  /\ RecordIn(o).generation \in Nat
                    /\ RecordIn(o).generation <= RecordIn(s).generation
  OBVIOUS
<1>1. \A r \in StateSlots : Valid(r) => RecordIn(r).generation \in Nat
  BY ValidType DEF Datum
<1>2. Valid(s)
  BY LoadableType DEF StateSlots, None
<1> QED BY <1>1, <1>2, NewestCases DEF StateSlots

LEMMA NewestIsNewestNext ==
    ASSUME NEW s \in StateSlots, NEW o \in StateSlots, o # s
    PROVE  (RawTypeOK /\ Newest = s /\ Valid(o) =>
               /\ RecordIn(o).generation \in Nat
               /\ RecordIn(o).generation <= RecordIn(s).generation)'
<1>1. RawTypeOK /\ Newest = s /\ Valid(o) =>
         /\ RecordIn(o).generation \in Nat
         /\ RecordIn(o).generation <= RecordIn(s).generation
  BY NewestIsNewest
<1> QED BY <1>1, PTL

(* What a step does to the slots.                                          *)
LEMMA SlotSteps ==
    ASSUME DiskInv, SessionInv, ContentInv, ~orphan, [RawNext]_rawVars
    PROVE  \/ /\ \A s \in StateSlots : /\ Valid(s)' = Valid(s)
                                       /\ Valid(s) => RecordIn(s)' = RecordIn(s)
              /\ UNCHANGED <<loaded, promised, misled>> /\ state' >= state
           \/ SaveState
           \/ \E unread \in SUBSET StateSlots : Boot(unread)
<1> DEFINE Left == /\ \A s \in StateSlots : /\ Valid(s)' = Valid(s)
                                            /\ Valid(s) => RecordIn(s)' = RecordIn(s)
                   /\ UNCHANGED <<loaded, promised, misled>> /\ state' >= state
<1>t. state \in Nat /\ RawTypeOK
  BY DEF DiskInv, RawTypeOK
<1>1. ASSUME \A s \in StateSlots : Keeps(s), UNCHANGED <<loaded, promised, misled>>,
             state' = state \/ state' = state + 1
      PROVE  Left
  BY <1>t, <1>1, SlotKept
<1>2. ASSUME NEW name \in Names \ StateSlots, Rewrites(name) \/ UNCHANGED disk
      PROVE  \A s \in StateSlots : Keeps(s)
  BY <1>2, RewritesKeepsContent, NameType
<1>3. ASSUME NEW name \in HostFiles, NEW size \in 1 .. MaxSize, UploadBegin(name, size)
      PROVE  Left
  <2>1. name \in Names \ StateSlots /\ size \in Nat
    BY NameType, RawAssumption
  <2>2. PICK s \in Nat : Fresh(name, s)
    BY <1>3, <2>1 DEF UploadBegin
  <2>3. Rewrites(name)
    BY <1>t, <2>1, <2>2, FreshRewrites
  <2> QED BY <1>1, <1>2, <1>3, <2>1, <2>3 DEF UploadBegin, reader
<1>4. ASSUME UploadWrite PROVE Left
  <2>1. active.name \in HostFiles
    <3>1. session # NoSession /\ active.name = session.name
      BY <1>4 DEF UploadWrite, NoSession
    <3> QED BY <3>1 DEF DiskInv, RawTypeOK
  <2>2. \A s \in StateSlots : Keeps(s)
    BY <1>4, <2>1, WriteKeeps, NameType
  <2> QED BY <1>1, <1>4, <2>2 DEF UploadWrite, reader
<1>5. ASSUME UploadAbort PROVE Left
  <2>1. session.name \in Names \ StateSlots
    <3>1. session # NoSession
      BY <1>5 DEF UploadAbort, NoSession
    <3> QED BY <3>1, NameType DEF DiskInv, RawTypeOK
  <2>2. Rewrites(session.name) \/ UNCHANGED disk
    BY <1>t, <1>5, <2>1, RemovedRewrites DEF UploadAbort
  <2> QED BY <1>1, <1>2, <1>5, <2>1, <2>2 DEF UploadAbort, reader
<1>6. ASSUME NEW name \in HostFiles, Delete(name) PROVE Left
  <2>1. name \in Names \ StateSlots
    BY NameType
  <2>2. Rewrites(name) \/ UNCHANGED disk
    BY <1>t, <1>6, <2>1, RemovedRewrites DEF Delete
  <2> QED BY <1>1, <1>2, <1>6, <2>1, <2>2 DEF Delete, reader
<1>7. ASSUME UNCHANGED <<disk, loaded, promised, misled>>, state' = state \/ state' = state + 1
      PROVE  Left
  <2>1. \A s \in StateSlots : Keeps(s)
    BY <1>7 DEF Keeps, disk, Contents
  <2> QED BY <1>1, <1>7, <2>1
<1>8. ASSUME NEW name \in HostFiles, Read(name) PROVE Left
  BY <1>7, <1>8 DEF Read, reader
<1>9. ASSUME UploadCommit \/ HostDies \/ OpenBook \/ ChangeState PROVE Left
  BY <1>7, <1>9 DEF UploadCommit, HostDies, OpenBook, ChangeState, reader
<1>10. ASSUME SaveIndex PROVE Left
  <2>1. Value("index", 0, 0) \in Datum
    BY DEF Value, Datum
  <2>2. Rewrites("index") /\ "index" \in Names \ StateSlots
    BY <1>t, <1>10, <2>1, NameType, ReplacedRewrites, HalfReplacedRewrites DEF SaveIndex
  <2> QED BY <1>1, <1>2, <1>10, <2>2 DEF SaveIndex, reader
<1>11. ASSUME UNCHANGED rawVars PROVE Left
  BY <1>7, <1>11 DEF rawVars
<1> HIDE DEF Left
<1>12. CASE Commands
  <2>1. Left
    BY <1>3, <1>4, <1>5, <1>6, <1>8, <1>9, <1>12 DEF Commands
  <2> QED BY <2>1 DEF Left
<1>13. CASE Reader
  <2>1. CASE OpenBook \/ ChangeState \/ SaveIndex
    <3>1. Left
      BY <1>9, <1>10, <2>1
    <3> QED BY <3>1 DEF Left
  <2> QED BY <1>13, <2>1 DEF Reader
<1>14. CASE UNCHANGED rawVars
  <2>1. Left
    BY <1>11, <1>14
  <2> QED BY <2>1 DEF Left
<1> QED BY <1>12, <1>13, <1>14 DEF RawNext

(* What a save does to them.                                               *)
LEMMA SaveOnSlots ==
    ASSUME DiskInv, SessionInv, ContentInv, ~orphan, SaveState, NEW t \in StateSlots, t = Target
    PROVE  /\ \A s \in StateSlots \ {t} : /\ Valid(s)' = Valid(s)
                                          /\ Valid(s) => RecordIn(s)' = RecordIn(s)
           /\ Valid(t)' => RecordIn(t)' = Value("state", state, loaded.generation + 1)
           /\ state' = state
           /\ \/ /\ Valid(t)'
                 /\ loaded' = [slot |-> t, generation |-> loaded.generation + 1]
                 /\ promised' = state
                 /\ misled' = (misled /\ Newest' # t)
              \/ UNCHANGED <<loaded, promised, misled>>
<1> DEFINE value == Value("state", state, loaded.generation + 1)
<1>t. state \in Nat /\ loaded.generation \in Nat /\ RawTypeOK
  BY DEF DiskInv, RawTypeOK
<1>1. value \in Datum /\ value.by = "state"
  BY <1>t DEF Value, Datum
<1>2. t \in Names
  BY NameType
<1>3. \/ /\ Replaced(t, value) /\ promised' = state /\ misled' = (misled /\ Newest' # t)
         /\ loaded' = [slot |-> t, generation |-> loaded.generation + 1]
      \/ /\ Replaced(t, value) \/ HalfReplaced(t)
         /\ UNCHANGED <<loaded, promised, misled>>
  BY DEF SaveState
<1>4. Rewrites(t)
  BY <1>t, <1>1, <1>2, <1>3, ReplacedRewrites, HalfReplacedRewrites
<1>5. \A s \in StateSlots \ {t} : Keeps(s)
  BY <1>2, <1>4, RewritesKeepsContent, NameType
<1>6. \A s \in StateSlots \ {t} :
         Valid(s)' = Valid(s) /\ (Valid(s) => RecordIn(s)' = RecordIn(s))
  BY <1>t, <1>5, SlotKept
<1>7. Replaced(t, value) => Valid(t)' /\ RecordIn(t)' = value
  BY <1>t, <1>1, SlotReplaced
<1>8. HalfReplaced(t) => ~ Valid(t)'
  BY <1>t, SlotHalfReplaced
<1>9. state' = state
  BY DEF SaveState
<1> QED BY <1>3, <1>6, <1>7, <1>8, <1>9

LEMMA OddInAInvariant == RawSpec => []OddInA
<1>1. RawInit => OddInA
  BY NameType DEF RawInit, OddInA, Valid, Exists, StateSlots, None
<1>2. /\ DiskInv /\ DiskInv' /\ SessionInv /\ ContentInv /\ OddInA /\ [RawNext]_rawVars
      => OddInA'
  <2> SUFFICES ASSUME DiskInv, DiskInv', SessionInv, ContentInv, OddInA, [RawNext]_rawVars,
                      ~ orphan'
               PROVE  OddInA'
    BY DEF OddInA
  <2>0. ~ orphan
    BY OrphanStays
  <2>t. loaded.generation \in Nat /\ RawTypeOK /\ RawTypeOK'
    BY DEF DiskInv, RawTypeOK
  <2>i. /\ \A s \in StateSlots : Valid(s) => (RecordIn(s).generation % 2 = 1 <=> s = "A")
        /\ loaded.generation % 2 = 1 <=> loaded.slot = "A"
    BY <2>0 DEF OddInA
  <2>1. ASSUME \A s \in StateSlots : Valid(s)' = Valid(s) /\ (Valid(s) => RecordIn(s)' = RecordIn(s)),
               UNCHANGED loaded
        PROVE  OddInA'
    BY <2>i, <2>1 DEF OddInA
  <2>2. CASE SaveState
    <3>1. PICK t \in StateSlots : t = Target
      BY NameType
    <3>2. t = IF loaded.slot = "A" THEN "B" ELSE "A"
      BY <3>1 DEF Target
    <3>3. /\ \A s \in StateSlots \ {t} : /\ Valid(s)' = Valid(s)
                                         /\ Valid(s) => RecordIn(s)' = RecordIn(s)
          /\ Valid(t)' => RecordIn(t)' = Value("state", state, loaded.generation + 1)
          /\ \/ loaded' = [slot |-> t, generation |-> loaded.generation + 1]
             \/ UNCHANGED loaded
      BY <2>0, <2>2, <3>1, SaveOnSlots
    <3>4. (loaded.generation + 1) % 2 = 1 <=> t = "A"
      BY <2>i, <2>t, <3>2
    <3>5. Valid(t)' => RecordIn(t)'.generation = loaded.generation + 1
      BY <3>3 DEF Value
    <3>6. \A s \in StateSlots : Valid(s)' => (RecordIn(s)'.generation % 2 = 1 <=> s = "A")
      BY <2>i, <3>3, <3>4, <3>5
    <3>7. loaded'.generation % 2 = 1 <=> loaded'.slot = "A"
      BY <2>i, <3>3, <3>4
    <3> QED BY <3>6, <3>7 DEF OddInA
  <2>3. ASSUME NEW unread \in SUBSET StateSlots, Boot(unread) PROVE OddInA'
    <3>1. PICK found : found = NewestBut(unread)
      OBVIOUS
    <3>2. /\ found # None => found \in StateSlots /\ Valid(found) /\ StateIn(found) = RecordIn(found)
          /\ found = None => StateIn(found) = Zero
      BY <2>t, <3>1, FoundType
    <3>3. loaded' = [slot |-> found, generation |-> StateIn(found).generation] /\ UNCHANGED disk
      BY <2>3, <3>1 DEF Boot
    <3>4. \A s \in StateSlots : Keeps(s)
      BY <3>3 DEF Keeps, disk, Contents
    <3>5. \A s \in StateSlots : Valid(s)' = Valid(s) /\ (Valid(s) => RecordIn(s)' = RecordIn(s))
      BY <2>t, <3>4, SlotKept
    <3>6. loaded'.generation % 2 = 1 <=> loaded'.slot = "A"
      <4>1. CASE found = None
        <5>1. loaded'.generation = 0 /\ loaded'.slot # "A"
          BY <3>2, <3>3, <4>1 DEF Zero, Value, None
        <5> QED BY <5>1
      <4>2. CASE found # None
        BY <2>i, <3>2, <3>3, <4>2
      <4> QED BY <4>1, <4>2
    <3> QED BY <2>i, <3>5, <3>6 DEF OddInA
  <2> QED BY <2>0, <2>1, <2>2, <2>3, SlotSteps
<1> QED BY <1>1, <1>2, DiskInvariant, SessionInvariant, ContentInvariant, PTL DEF RawSpec

LEMMA StateInvariant == RawSpec => []StateInv
<1>1. RawInit => StateInv
  <2> SUFFICES ASSUME RawInit PROVE StateInv
    OBVIOUS
  <2>1. \A s \in StateSlots : ~ Valid(s)
    BY NameType DEF RawInit, Valid, Exists
  <2> QED BY <2>1, NameType DEF RawInit, StateInv, StateSlots
<1>2. /\ DiskInv /\ DiskInv' /\ SessionInv /\ ContentInv /\ OddInA /\ OddInA' /\ StateInv
      /\ [RawNext]_rawVars
      => StateInv'
  <2> SUFFICES ASSUME DiskInv, DiskInv', SessionInv, ContentInv, OddInA, OddInA', StateInv,
                      [RawNext]_rawVars, ~ orphan', ~ misled'
               PROVE  StateInv'
    BY DEF StateInv
  <2>0. ~ orphan
    BY OrphanStays
  <2>t. /\ state \in Nat /\ promised \in Nat /\ loaded.generation \in Nat
        /\ loaded.slot \in StateSlots \cup {None} /\ RawTypeOK /\ RawTypeOK'
    BY DEF DiskInv, RawTypeOK
  <2>i. ~ misled =>
        /\ state >= promised
        /\ IF loaded.slot = None
           THEN loaded.generation = 0 /\ promised = 0 /\ ~ Valid("B")
           ELSE /\ Valid(loaded.slot)
                /\ RecordIn(loaded.slot).generation = loaded.generation
                /\ RecordIn(loaded.slot).n = promised
        /\ Valid(Target) =>
              \/ /\ RecordIn(Target).generation = loaded.generation + 1
                 /\ RecordIn(Target).n >= promised
              \/ loaded.slot # None /\ RecordIn(Target).generation < loaded.generation
    BY <2>0 DEF StateInv
  <2>1. CASE /\ \A s \in StateSlots : /\ Valid(s)' = Valid(s)
                                      /\ Valid(s) => RecordIn(s)' = RecordIn(s)
             /\ UNCHANGED <<loaded, promised, misled>> /\ state' >= state
    <3>0. ~ misled
      BY <2>1
    <3>1. \A s \in StateSlots : Valid(s)' = Valid(s) /\ (Valid(s) => RecordIn(s)' = RecordIn(s))
      BY <2>1
    <3>2. Target' = Target /\ Target \in StateSlots
      BY <2>1, NameType DEF Target
    <3>3. PICK t \in StateSlots : t = Target
      BY <3>2
    <3>4. /\ Valid(Target)' = Valid(t)' /\ RecordIn(Target)' = RecordIn(t)'
          /\ loaded.slot # None => Valid(loaded.slot)' = Valid(loaded.slot)
                                   /\ RecordIn(loaded.slot)' = RecordIn(loaded.slot)
      <4>1. Valid(Target)' = Valid(t)' /\ RecordIn(Target)' = RecordIn(t)'
        BY <3>2, <3>3
      <4>2. ASSUME loaded.slot # None
            PROVE  /\ Valid(loaded.slot)' = Valid(loaded.slot)
                   /\ RecordIn(loaded.slot)' = RecordIn(loaded.slot)
        <5>1. PICK s \in StateSlots : s = loaded.slot
          BY <2>t, <4>2
        <5>2. Valid(loaded.slot)' = Valid(s)' /\ RecordIn(loaded.slot)' = RecordIn(s)'
          BY <2>1, <5>1
        <5> QED BY <2>i, <3>0, <3>1, <4>2, <5>1, <5>2
      <4> QED BY <4>1, <4>2
    <3>5. Valid("B")' = Valid("B")
      BY <3>1 DEF StateSlots
    <3>6. state' >= promised
      <4>1. state >= promised /\ state' >= state /\ state' \in Nat
        BY <2>i, <2>1, <3>0 DEF DiskInv, RawTypeOK
      <4> QED BY <2>t, <4>1
    <3> QED BY <2>i, <2>1, <3>0, <3>1, <3>3, <3>4, <3>5, <3>6 DEF StateInv
  <2>2. CASE SaveState
    <3> DEFINE value == Value("state", state, loaded.generation + 1)
    <3>1. value.n = state /\ value.generation = loaded.generation + 1
      BY DEF Value
    <3>2. PICK t \in StateSlots : t = Target
      BY NameType
    <3>3. t = IF loaded.slot = "A" THEN "B" ELSE "A"
      BY <3>2 DEF Target
    <3>4. /\ \A s \in StateSlots \ {t} : /\ Valid(s)' = Valid(s)
                                         /\ Valid(s) => RecordIn(s)' = RecordIn(s)
          /\ Valid(t)' => RecordIn(t)' = value
          /\ state' = state
          /\ \/ /\ Valid(t)'
                /\ loaded' = [slot |-> t, generation |-> loaded.generation + 1]
                /\ promised' = state
                /\ misled' = (misled /\ Newest' # t)
             \/ UNCHANGED <<loaded, promised, misled>>
      BY <2>0, <2>2, <3>2, SaveOnSlots
    <3>5. CASE /\ Valid(t)'
               /\ loaded' = [slot |-> t, generation |-> loaded.generation + 1]
               /\ promised' = state
               /\ misled' = (misled /\ Newest' # t)
      <4>1. PICK o \in StateSlots : o # t /\ {o, t} = {"A", "B"}
        BY DEF StateSlots
      <4>2. Target' = o /\ loaded'.slot = t /\ loaded'.slot # None
            /\ loaded'.generation = loaded.generation + 1
        BY <3>5, <4>1 DEF Target, StateSlots, None
      <4>3. Valid(loaded.slot)' /\ RecordIn(loaded.slot)' = value
        <5>1. Valid(loaded.slot)' = Valid(t)' /\ RecordIn(loaded.slot)' = RecordIn(t)'
          BY <4>2
        <5> QED BY <3>4, <3>5, <5>1
      <4>4. Valid(o)' => RecordIn(o)'.generation < loaded.generation + 1
        <5> SUFFICES ASSUME Valid(o)' PROVE RecordIn(o)'.generation < loaded.generation + 1
          OBVIOUS
        <5>1. CASE ~ misled
          <6>1. Valid(o) /\ RecordIn(o)' = RecordIn(o)
            BY <3>4, <4>1
          <6>2. loaded.slot = o /\ RecordIn(o).generation = loaded.generation
            BY <2>i, <2>t, <3>3, <4>1, <5>1, <6>1 DEF StateSlots, None
          <6> QED BY <2>t, <6>1, <6>2
        <5>2. CASE misled
          <6>1. Newest' = t
            BY <3>5, <5>2
          <6>2. RecordIn(t)'.generation = loaded.generation + 1
            BY <3>1, <3>4, <3>5
          <6>3. RecordIn(o)'.generation <= RecordIn(t)'.generation
            BY <2>t, <4>1, <6>1, NewestIsNewestNext
          <6>4. RecordIn(o)'.generation \in Nat
            BY <2>t, <4>1, <6>1, NewestIsNewestNext
          <6>5. RecordIn(o)'.generation # RecordIn(t)'.generation
            BY <3>5, <4>1 DEF OddInA, StateSlots
          <6> QED BY <2>t, <6>2, <6>3, <6>4, <6>5
        <5> QED BY <5>1, <5>2
      <4>5. Valid(Target)' => RecordIn(Target)'.generation < loaded'.generation
        <5>1. Valid(Target)' = Valid(o)' /\ RecordIn(Target)' = RecordIn(o)'
          BY <4>2
        <5> QED BY <4>2, <4>4, <5>1
      <4> QED BY <2>t, <3>1, <3>4, <3>5, <4>2, <4>3, <4>5 DEF StateInv
    <3>6. CASE UNCHANGED <<loaded, promised, misled>>
      <4>0. ~ misled /\ state >= promised
        BY <2>i, <3>6
      <4>1. Target' = t
        BY <3>2, <3>6 DEF Target
      <4>2. Valid(Target)' = Valid(t)' /\ RecordIn(Target)' = RecordIn(t)'
        BY <4>1
      <4>3. Valid(t)' => RecordIn(t)' = value
        BY <3>4
      <4>4. loaded.slot # None => /\ Valid(loaded.slot)' = Valid(loaded.slot)
                                  /\ RecordIn(loaded.slot)' = RecordIn(loaded.slot)
        <5> SUFFICES ASSUME loaded.slot # None
                     PROVE  /\ Valid(loaded.slot)' = Valid(loaded.slot)
                            /\ RecordIn(loaded.slot)' = RecordIn(loaded.slot)
          OBVIOUS
        <5>1. PICK s \in StateSlots : s = loaded.slot /\ s # t
          BY <2>t, <3>3
        <5>2. Valid(loaded.slot)' = Valid(s)' /\ RecordIn(loaded.slot)' = RecordIn(s)'
          BY <3>6, <5>1
        <5> QED BY <2>i, <3>4, <4>0, <5>1, <5>2
      <4>5. loaded.slot = None => Valid("B")' = Valid("B")
        BY <3>3, <3>4 DEF StateSlots, None
      <4> QED BY <2>i, <3>1, <3>4, <3>6, <4>0, <4>2, <4>3, <4>4, <4>5 DEF StateInv
    <3> QED BY <3>4, <3>5, <3>6
  <2>3. ASSUME NEW unread \in SUBSET StateSlots, Boot(unread) PROVE StateInv'
    <3>0. NewestBut(unread) = Newest
      BY <2>3 DEF Boot
    <3>1. /\ state' = Loadable.n /\ promised' = Loadable.n
          /\ loaded' = [slot |-> Newest, generation |-> Loadable.generation]
          /\ UNCHANGED disk
      BY <2>3, <3>0 DEF Boot, Loadable
    <3>2. \A s \in StateSlots : Keeps(s)
      BY <3>1 DEF Keeps, disk, Contents
    <3>3. \A s \in StateSlots : Valid(s)' = Valid(s) /\ (Valid(s) => RecordIn(s)' = RecordIn(s))
      BY <2>t, <3>2, SlotKept
    <3>4. \A s \in StateSlots : Valid(s) => RecordIn(s).generation \in Nat /\ RecordIn(s).n \in Nat
      BY <2>t, ValidType DEF Datum
    <3>5. /\ Newest \in StateSlots \cup {None}
          /\ Newest # None => Valid(Newest) /\ Loadable = RecordIn(Newest)
          /\ Newest = None => Loadable.n = 0 /\ Loadable.generation = 0
          /\ Loadable.n \in Nat
      BY <2>t, LoadableType DEF Zero, Value
    <3>6. None \notin StateSlots
      BY DEF None, StateSlots
    <3>7. CASE Newest = None
      <4>1. ~ Valid("A") /\ ~ Valid("B")
        BY <2>t, <3>6, <3>7, NewestCases DEF StateSlots
      <4>2. loaded'.slot = None /\ loaded'.generation = 0 /\ promised' = 0 /\ state' = 0
        BY <3>1, <3>5, <3>7
      <4>3. Target' = "A"
        BY <4>2 DEF Target, None
      <4>4. Valid(Target)' = Valid("A")'
        BY <4>3
      <4>5. ~ Valid("B")' /\ ~ Valid(Target)'
        BY <3>3, <4>1, <4>4 DEF StateSlots
      <4> QED BY <4>2, <4>5 DEF StateInv
    <3>8. ASSUME NEW s \in StateSlots, Newest = s PROVE StateInv'
      <4>1. PICK o \in StateSlots : o # s /\ {o, s} = {"A", "B"}
        BY DEF StateSlots
      <4>2. /\ Valid(s) /\ Loadable = RecordIn(s) /\ s # None
            /\ loaded'.slot = s /\ loaded'.generation = RecordIn(s).generation
            /\ promised' = RecordIn(s).n /\ state' = RecordIn(s).n
        BY <3>1, <3>5, <3>6, <3>8
      <4>3. Target' = o
        BY <4>1, <4>2 DEF Target, StateSlots
      <4>4. /\ Valid(loaded.slot)' = Valid(s)' /\ RecordIn(loaded.slot)' = RecordIn(s)'
            /\ Valid(Target)' = Valid(o)' /\ RecordIn(Target)' = RecordIn(o)'
        BY <4>2, <4>3
      <4>5. Valid(o) => RecordIn(o).generation < RecordIn(s).generation
        <5> SUFFICES ASSUME Valid(o) PROVE RecordIn(o).generation < RecordIn(s).generation
          OBVIOUS
        <5>1. RecordIn(o).generation # RecordIn(s).generation
          BY <2>0, <4>1, <4>2 DEF OddInA, StateSlots
        <5>2. RecordIn(o).generation <= RecordIn(s).generation
          BY <2>t, <3>4, <3>8, <4>1, <4>2, NewestCases DEF StateSlots
        <5> QED BY <3>4, <4>2, <5>1, <5>2
      <4>6. Valid(o)' => RecordIn(o)' = RecordIn(o) /\ Valid(o)
        BY <3>3
      <4>7. Valid(s)' /\ RecordIn(s)' = RecordIn(s)
        BY <3>3, <4>2
      <4> QED BY <3>4, <4>2, <4>4, <4>5, <4>6, <4>7 DEF StateInv
    <3> QED BY <3>5, <3>7, <3>8
  <2> QED BY <2>0, <2>1, <2>2, <2>3, SlotSteps
<1> QED
  BY <1>1, <1>2, DiskInvariant, SessionInvariant, ContentInvariant, OddInAInvariant, PTL DEF RawSpec

(***************************************************************************)
(* The theorems.                                                           *)
(***************************************************************************)
(* The one upload slot, the session that owns it, the cached clusters and  *)
(* the files the host has committed are consistent, on every card and      *)
(* after any number of failures and resets (SdStorage, FilesystemStorage). *)
THEOREM UploadsAreSound == RawSpec => []UploadsSound
<1>1. DiskInv /\ SessionInv /\ ContentInv => UploadsSound
  <2> SUFFICES ASSUME DiskInv, SessionInv, ContentInv PROVE UploadsSound
    OBVIOUS
  <2>1. ClustersAreCurrent
    BY DEF ContentInv, ClustersAreCurrent
  <2>2. CommittedWhole
    BY DEF ContentInv, CommittedWhole
  <2>3. UploadHasSession
    BY DEF SessionInv, UploadHasSession
  <2> QED BY <2>1, <2>2, <2>3 DEF UploadsSound
<1> QED BY <1>1, DiskInvariant, SessionInvariant, ContentInvariant, PTL

(* However many saves fail, before or after the record is on the card, the *)
(* slots hold no state older than the last save or boot reported, and      *)
(* after a boot that could not read the newest slot they do so again from  *)
(* the first save that is the newest (StateSlots::load and save,           *)
(* prepare_save, select_generation).                                       *)
THEOREM StateAlwaysSurvives == RawSpec => []StateSurvives
<1>1. DiskInv /\ StateInv => StateSurvives
  BY BootLoads DEF DiskInv, StateSurvives
<1> QED BY <1>1, DiskInvariant, StateInvariant, PTL

(***************************************************************************)
(* The write-back cache.                                                   *)
(***************************************************************************)
BlockContents == [Parts -> Int]
Line == [block : Blocks \cup {Nothing}, parts : BlockContents, dirty : BOOLEAN]

StreamTypeOK ==
    /\ card \in [Blocks -> BlockContents]
    /\ wanted \in [Blocks -> BlockContents]
    /\ durable \in [Blocks -> BlockContents]
    /\ cached \in [Slots -> Line]
    /\ victim \in Slots
    /\ garbled \subseteq Blocks
    /\ writes \in Nat

(* One content of a block is the other, or no older, but for garbage if    *)
(* the block is in spoiled.                                                *)
Matches(b, x, y, spoiled) ==
    \A p \in Parts : x[p] = y[p] \/ (b \in spoiled /\ x[p] = Garbage)

NoOlder(b, x, y, spoiled) ==
    \A p \in Parts : x[p] >= y[p] \/ (b \in spoiled /\ x[p] = Garbage)

(* A block is in one slot at most, and what is there is what was written   *)
(* last; so is what the card has of a block that no slot has changed.      *)
OneSlot ==
    \A s, t \in Slots :
        cached[s].block = cached[t].block /\ cached[s].block # Nothing => s = t

CacheAgrees ==
    \A s \in Slots :
        /\ cached[s].block \in Blocks =>
               Matches(cached[s].block, cached[s].parts, wanted[cached[s].block], garbled)
        /\ cached[s].block = Nothing => ~cached[s].dirty

CardAgrees ==
    \A b \in Blocks : (\A s \in Slots : cached[s].block = b => ~cached[s].dirty) =>
        Matches(b, card[b], wanted[b], garbled)

(* What was flushed is not newer than what is on the card and what was     *)
(* written last.                                                           *)
Ordered ==
    \A b \in Blocks :
        /\ NoOlder(b, card[b], durable[b], garbled)
        /\ NoOlder(b, wanted[b], durable[b], garbled)
        /\ \A p \in Parts : durable[b][p] <= writes /\ card[b][p] <= writes /\ wanted[b][p] <= writes

StreamInv == StreamTypeOK /\ OneSlot /\ CacheAgrees /\ CardAgrees /\ Ordered

LEMMA NothingIsNoBlock == Nothing \notin Blocks
BY StreamAssumption DEF Nothing, Blocks

(* What matches something no older than z is no older than z.              *)
LEMMA MatchesNoOlder ==
    ASSUME NEW b, NEW x, NEW y, NEW z, NEW spoiled,
           Matches(b, x, y, spoiled), NoOlder(b, y, z, spoiled)
    PROVE  NoOlder(b, x, z, spoiled)
BY DEF Matches, NoOlder

(* What is spoiled excuses more when it grows.                             *)
LEMMA SpoiledGrows ==
    ASSUME NEW b, NEW x, NEW y, NEW spoiled, NEW more, spoiled \subseteq more
    PROVE  /\ Matches(b, x, y, spoiled) => Matches(b, x, y, more)
           /\ NoOlder(b, x, y, spoiled) => NoOlder(b, x, y, more)
BY DEF Matches, NoOlder

(***************************************************************************)
(* The slots.                                                              *)
(***************************************************************************)
(* The slot of a block that is cached is the only one.                     *)
LEMMA HitIsTheSlot ==
    ASSUME StreamInv, NEW s \in Slots, cached[s].block \in Blocks
    PROVE  Hits(cached[s].block) = {s}
BY NothingIsNoBlock DEF StreamInv, OneSlot, Hits

(* The write-back of some slots brings their blocks to what was written    *)
(* last, and leaves the other blocks alone.                                *)
LEMMA WriteBackIs ==
    ASSUME StreamInv, NEW slots \in SUBSET Slots
    PROVE  /\ WrittenBack(slots) \in [Blocks -> BlockContents]
           /\ \A b \in Blocks : \/ WrittenBack(slots)[b] = card[b]
                                \/ Matches(b, WrittenBack(slots)[b], wanted[b], garbled)
           /\ \A s \in slots : cached[s].block \in Blocks =>
                  Matches(cached[s].block, WrittenBack(slots)[cached[s].block],
                          wanted[cached[s].block], garbled)
           /\ \A b \in Blocks : (\A s \in slots : cached[s].block # b) =>
                  WrittenBack(slots)[b] = card[b]
<1> DEFINE Back == WrittenBack(slots)
<1>1. ASSUME NEW b \in Blocks, \A s \in slots : cached[s].block # b
      PROVE  Back[b] = card[b]
  <2>1. Hits(b) \cap Dirty(slots) = {}
    BY <1>1 DEF Hits, Dirty
  <2> QED
    BY <2>1 DEF WrittenBack
<1>2. ASSUME NEW s \in slots, cached[s].block \in Blocks
      PROVE  /\ Back[cached[s].block] \in {card[cached[s].block], cached[s].parts}
             /\ Matches(cached[s].block, Back[cached[s].block], wanted[cached[s].block], garbled)
  <2>1. Hits(cached[s].block) = {s}
    BY <1>2, HitIsTheSlot
  <2>2. CASE cached[s].dirty
    <3>1. Hits(cached[s].block) \cap Dirty(slots) = {s}
      BY <2>1, <2>2 DEF Dirty
    <3>2. (CHOOSE t \in Hits(cached[s].block) : TRUE) = s
      BY <2>1
    <3>3. Back[cached[s].block] = cached[s].parts
      BY <1>2, <3>1, <3>2 DEF WrittenBack
    <3> QED
      BY <1>2, <3>3 DEF StreamInv, CacheAgrees
  <2>3. CASE ~cached[s].dirty
    <3>1. Hits(cached[s].block) \cap Dirty(slots) = {}
      BY <2>1, <2>3 DEF Dirty
    <3>2. Back[cached[s].block] = card[cached[s].block]
      BY <1>2, <3>1 DEF WrittenBack
    <3>3. \A t \in Slots : cached[t].block = cached[s].block => ~cached[t].dirty
      BY <2>1, <2>3 DEF Hits
    <3> QED
      BY <1>2, <3>2, <3>3 DEF StreamInv, CardAgrees
  <2> QED
    BY <2>2, <2>3
<1>3. \A b \in Blocks : Back[b] = card[b] \/ Matches(b, Back[b], wanted[b], garbled)
  BY <1>1, <1>2
<1>4. Back \in [Blocks -> BlockContents]
  <2>1. \A s \in Slots : cached[s].parts \in BlockContents
    BY DEF StreamInv, StreamTypeOK, Line
  <2>2. \A b \in Blocks : Back[b] \in BlockContents
    BY <1>1, <1>2, <2>1 DEF StreamInv, StreamTypeOK
  <2>3. Back = [b \in Blocks |-> Back[b]]
    BY DEF WrittenBack
  <2> QED
    BY <2>2, <2>3
<1> QED
  BY <1>1, <1>2, <1>3, <1>4

(* What the card has after it is as new as before.                         *)
LEMMA WriteBackOrdered ==
    ASSUME StreamInv, NEW slots \in SUBSET Slots, NEW b \in Blocks
    PROVE  /\ NoOlder(b, WrittenBack(slots)[b], durable[b], garbled)
           /\ \A p \in Parts : WrittenBack(slots)[b][p] <= writes
<1>1. \/ WrittenBack(slots)[b] = card[b]
      \/ Matches(b, WrittenBack(slots)[b], wanted[b], garbled)
  BY WriteBackIs
<1>2. /\ NoOlder(b, card[b], durable[b], garbled) /\ NoOlder(b, wanted[b], durable[b], garbled)
      /\ \A p \in Parts : card[b][p] <= writes /\ wanted[b][p] <= writes
  BY DEF StreamInv, Ordered
<1>3. Garbage <= writes
  BY DEF Garbage, StreamInv, StreamTypeOK
<1> QED
  BY <1>1, <1>2, <1>3, MatchesNoOlder DEF Matches

(* A nonempty set of naturals has a least element.                         *)
LEMMA LeastSlot ==
    ASSUME NEW T \in SUBSET Nat, T # {}
    PROVE  \E x \in T : \A y \in T : x <= y
<1>1. PICK x \in T : \A y \in T : ~ (<<y, x>> \in OpToRel(<, Nat))
  BY NatLessThanWellFounded, WFMin
<1>2. \A y \in T : ~ (y < x)
  BY <1>1 DEF OpToRel
<1> QED
  BY <1>2

LEMMA SlotForIsASlot ==
    ASSUME StreamInv
    PROVE  SlotFor \in Slots
<1>1. Slots \subseteq Nat /\ victim \in Slots
  BY DEF Slots, StreamInv, StreamTypeOK
<1>2. Hits(Nothing) \in SUBSET Nat
  BY <1>1 DEF Hits
<1>3. CASE Hits(Nothing) # {}
  <2>1. \E s \in Hits(Nothing) : \A t \in Hits(Nothing) : s <= t
    BY <1>2, <1>3, LeastSlot
  <2> QED
    BY <1>3, <2>1 DEF SlotFor, Hits
<1> QED
  BY <1>1, <1>3 DEF SlotFor

(***************************************************************************)
(* The steps.                                                              *)
(***************************************************************************)
(* Slots are written back, and then clean or dropped, or one of them is    *)
(* spoiled: nothing that was written is lost but there.  When all are      *)
(* written back, all is on the card.                                       *)
LEMMA WriteBackKeeps ==
    ASSUME StreamInv, NEW slots \in SUBSET Slots,
           card' = WrittenBack(slots),
           \/ (cached' = Clean(slots) \/ cached' = Dropped(slots)) /\ garbled' = garbled
           \/ \E slot \in Slots : slots = {slot} /\ GarbageIn(slot),
           wanted' = wanted, victim' \in Slots, writes' \in Nat, writes <= writes',
           durable' = durable \/ (slots = Slots /\ durable' = wanted)
    PROVE  StreamInv'
<1>1. /\ card' \in [Blocks -> BlockContents]
      /\ \A s \in slots : cached[s].block \in Blocks =>
            Matches(cached[s].block, card'[cached[s].block], wanted[cached[s].block], garbled)
      /\ \A b \in Blocks : (\A s \in slots : cached[s].block # b) => card'[b] = card[b]
  BY WriteBackIs
<1>2. garbled \subseteq garbled' /\ garbled' \subseteq Blocks
  BY DEF GarbageIn, StreamInv, StreamTypeOK
<1>3. ASSUME NEW s \in Slots
      PROVE  /\ cached'[s] \in Line
             /\ s \in slots => ~cached'[s].dirty
             /\ s \notin slots => cached'[s] = cached[s]
             /\ cached'[s].block # Nothing =>
                  /\ cached'[s].block = cached[s].block
                  /\ \/ cached'[s].parts = cached[s].parts
                     \/ cached[s].block \in garbled' /\ \A p \in Parts : cached'[s].parts[p] = Garbage
  <2>1. cached[s] \in Line /\ [cached[s] EXCEPT !.dirty = FALSE] \in Line
    BY DEF Line, StreamInv, StreamTypeOK
  <2>2. CASE cached' = Clean(slots)
    <3>1. cached'[s] = IF s \in slots THEN [cached[s] EXCEPT !.dirty = FALSE] ELSE cached[s]
      BY <2>2 DEF Clean
    <3> QED
      BY <2>1, <3>1 DEF Line
  <2>3. CASE cached' = Dropped(slots)
    <3>1. cached'[s] = IF s \in slots THEN Empty ELSE cached[s]
      BY <2>3 DEF Dropped
    <3> QED
      BY <2>1, <3>1 DEF Empty, Line, BlockContents
  <2>4. ASSUME NEW slot \in Slots, slots = {slot}, GarbageIn(slot)
        PROVE  /\ cached'[s] \in Line
               /\ s \in slots => ~cached'[s].dirty
               /\ s \notin slots => cached'[s] = cached[s]
               /\ cached'[s].block # Nothing =>
                    /\ cached'[s].block = cached[s].block
                    /\ \/ cached'[s].parts = cached[s].parts
                       \/ cached[s].block \in garbled' /\ \A p \in Parts : cached'[s].parts[p] = Garbage
    <3>1. cached' = [Clean({slot}) EXCEPT ![slot].parts = [p \in Parts |-> Garbage]]
      BY <2>4 DEF GarbageIn
    <3>2. CASE s # slot
      <4>1. cached'[s] = cached[s]
        BY <3>1, <3>2 DEF Clean
      <4> QED
        BY <2>1, <2>4, <3>2, <4>1
    <3>3. CASE s = slot
      <4>1. cached'[s] = [[cached[s] EXCEPT !.dirty = FALSE] EXCEPT !.parts = [p \in Parts |-> Garbage]]
        BY <3>1, <3>3 DEF Clean
      <4>2. [p \in Parts |-> Garbage] \in BlockContents
        BY DEF Garbage, BlockContents
      <4>3. cached[s].block \in Blocks => cached[s].block \in garbled'
        BY <2>4, <3>3 DEF GarbageIn
      <4>4. cached'[s] = [block |-> cached[s].block, parts |-> [p \in Parts |-> Garbage], dirty |-> FALSE]
        BY <2>1, <4>1 DEF Line
      <4>5. cached[s].block \in Blocks \cup {Nothing}
        BY <2>1 DEF Line
      <4>6. cached'[s] \in Line
        BY <4>2, <4>4, <4>5 DEF Line
      <4> QED
        BY <2>4, <3>3, <4>3, <4>4, <4>5, <4>6
    <3> QED
      BY <3>2, <3>3
  <2> QED
    BY <2>2, <2>3, <2>4
<1>4. StreamTypeOK'
  <2>1. cached' = [s \in Slots |-> cached'[s]]
    BY DEF Clean, Dropped, GarbageIn
  <2>2. cached' \in [Slots -> Line]
    BY <1>3, <2>1
  <2> QED
    BY <1>1, <1>2, <2>2 DEF StreamInv, StreamTypeOK
<1>5. OneSlot'
  BY <1>3 DEF StreamInv, OneSlot
<1>6. CacheAgrees'
  <2> SUFFICES ASSUME NEW s \in Slots
               PROVE  /\ cached'[s].block \in Blocks =>
                            Matches(cached'[s].block, cached'[s].parts, wanted[cached'[s].block], garbled')
                      /\ cached'[s].block = Nothing => ~cached'[s].dirty
    BY DEF CacheAgrees
  <2>1. cached'[s].block = Nothing => ~cached'[s].dirty
    BY <1>3 DEF StreamInv, CacheAgrees
  <2>2. ASSUME cached'[s].block \in Blocks
        PROVE  Matches(cached'[s].block, cached'[s].parts, wanted[cached'[s].block], garbled')
    <3>1. cached'[s].block = cached[s].block /\ cached[s].block \in Blocks
      BY <1>3, <2>2, NothingIsNoBlock
    <3>2. CASE cached'[s].parts = cached[s].parts
      <4>1. Matches(cached[s].block, cached[s].parts, wanted[cached[s].block], garbled)
        BY <3>1 DEF StreamInv, CacheAgrees
      <4> QED
        BY <1>2, <3>1, <3>2, <4>1, SpoiledGrows
    <3>3. CASE cached[s].block \in garbled' /\ \A p \in Parts : cached'[s].parts[p] = Garbage
      BY <3>1, <3>3 DEF Matches
    <3> QED
      BY <1>3, <2>2, <3>2, <3>3, NothingIsNoBlock
  <2> QED
    BY <2>1, <2>2
<1>7. CardAgrees'
  <2> SUFFICES ASSUME NEW b \in Blocks, \A s \in Slots : cached'[s].block = b => ~cached'[s].dirty
               PROVE  Matches(b, card'[b], wanted[b], garbled')
    BY DEF CardAgrees
  <2>1. CASE \E s \in slots : cached[s].block = b
    BY <1>1, <1>2, <2>1, SpoiledGrows
  <2>2. CASE \A s \in slots : cached[s].block # b
    <3>1. \A s \in Slots : cached[s].block = b => ~cached[s].dirty
      BY <1>3, <2>2
    <3>2. Matches(b, card[b], wanted[b], garbled) /\ card'[b] = card[b]
      BY <1>1, <2>2, <3>1 DEF StreamInv, CardAgrees
    <3> QED
      BY <1>2, <3>2, SpoiledGrows
  <2> QED
    BY <2>1, <2>2
<1>8. slots = Slots => \A b \in Blocks : Matches(b, card'[b], wanted[b], garbled)
  BY <1>1 DEF StreamInv, CardAgrees
<1>9. Ordered'
  <2> SUFFICES ASSUME NEW b \in Blocks
               PROVE  /\ NoOlder(b, card'[b], durable'[b], garbled')
                      /\ NoOlder(b, wanted[b], durable'[b], garbled')
                      /\ \A p \in Parts : /\ durable'[b][p] <= writes' /\ card'[b][p] <= writes'
                                          /\ wanted[b][p] <= writes'
    BY DEF Ordered
  <2>1. /\ \A p \in Parts : /\ card'[b][p] \in Int /\ wanted[b][p] \in Int /\ durable[b][p] \in Int
                            /\ durable[b][p] <= writes /\ wanted[b][p] <= writes
      /\ writes \in Int
    BY <1>1 DEF StreamInv, StreamTypeOK, BlockContents, Ordered
  <2>2. NoOlder(b, card'[b], durable[b], garbled) /\ (\A p \in Parts : card'[b][p] <= writes)
    BY WriteBackOrdered
  <2>3. NoOlder(b, wanted[b], durable[b], garbled)
    BY DEF StreamInv, Ordered
  <2>4. NoOlder(b, wanted[b], wanted[b], garbled)
    BY <2>1 DEF NoOlder
  <2>5. durable' = wanted /\ slots = Slots => NoOlder(b, card'[b], wanted[b], garbled)
    BY <1>8, <2>4, MatchesNoOlder
  <2>6. NoOlder(b, card'[b], durable'[b], garbled) /\ NoOlder(b, wanted[b], durable'[b], garbled)
    BY <2>2, <2>3, <2>4, <2>5
  <2>7. \A p \in Parts : durable'[b][p] <= writes' /\ card'[b][p] <= writes' /\ wanted[b][p] <= writes'
    <3>1. \A p \in Parts : durable'[b][p] = durable[b][p] \/ durable'[b][p] = wanted[b][p]
      OBVIOUS
    <3> QED
      BY <2>1, <2>2, <3>1
  <2> QED
    BY <1>2, <2>6, <2>7, SpoiledGrows
<1> QED
  BY <1>4, <1>5, <1>6, <1>7, <1>9 DEF StreamInv

(* Whole blocks are written directly, after the cached copies of them were *)
(* written back and dropped, and nobody relies on what a failure left.     *)
LEMMA DirectWriteKeeps ==
    ASSUME StreamInv, NEW run \in SUBSET Blocks, NEW complete \in SUBSET run,
           card' = [b \in Blocks |-> IF b \in complete THEN [p \in Parts |-> writes + 1]
                                     ELSE WrittenBack(Overlapping(run))[b]],
           cached' = Dropped(Overlapping(run)),
           wanted' = [b \in Blocks |-> IF b \in run THEN card'[b] ELSE wanted[b]],
           UNCHANGED <<victim, durable, garbled>>, writes' = writes + 1
    PROVE  StreamInv'
<1> DEFINE Over == Overlapping(run)
<1>0. /\ Over \in SUBSET Slots
      /\ \A s \in Slots : s \in Over <=> cached[s].block \in run
  BY DEF Overlapping
<1>1. /\ WrittenBack(Over) \in [Blocks -> BlockContents]
      /\ \A b \in Blocks \ run : WrittenBack(Over)[b] = card[b]
  BY <1>0, WriteBackIs
<1>2. /\ card' \in [Blocks -> BlockContents] /\ wanted' \in [Blocks -> BlockContents]
  BY <1>1 DEF StreamInv, StreamTypeOK, BlockContents
<1>3. \A s \in Slots : cached'[s] = IF s \in Over THEN Empty ELSE cached[s]
  BY DEF Dropped
<1>4. StreamTypeOK'
  BY <1>2, <1>3 DEF StreamInv, StreamTypeOK, Dropped, Empty, Line, BlockContents
<1>5. \A s \in Slots : cached'[s].block # Nothing => cached'[s] = cached[s] /\ s \notin Over
  BY <1>3 DEF Empty
<1>6. OneSlot'
  BY <1>5 DEF StreamInv, OneSlot
<1>7. \A b \in Blocks : b \notin run => card'[b] = card[b] /\ wanted'[b] = wanted[b]
  BY <1>1
<1>8. CacheAgrees'
  <2> SUFFICES ASSUME NEW s \in Slots
               PROVE  /\ cached'[s].block \in Blocks =>
                            Matches(cached'[s].block, cached'[s].parts, wanted'[cached'[s].block], garbled)
                      /\ cached'[s].block = Nothing => ~cached'[s].dirty
    BY DEF CacheAgrees
  <2>1. CASE s \in Over
    BY <1>3, <2>1, NothingIsNoBlock DEF Empty
  <2>2. CASE s \notin Over
    <3>1. cached'[s] = cached[s] /\ cached[s].block \notin run
      BY <1>0, <1>3, <2>2
    <3> QED
      BY <1>7, <3>1 DEF StreamInv, CacheAgrees
  <2> QED
    BY <2>1, <2>2
<1>9. CardAgrees'
  <2> SUFFICES ASSUME NEW b \in Blocks, \A s \in Slots : cached'[s].block = b => ~cached'[s].dirty
               PROVE  Matches(b, card'[b], wanted'[b], garbled)
    BY DEF CardAgrees
  <2>1. CASE b \in run
    <3>1. wanted'[b] = card'[b]
      BY <2>1
    <3> QED
      BY <3>1 DEF Matches
  <2>2. CASE b \notin run
    <3>1. \A s \in Slots : cached[s].block = b => ~cached[s].dirty
      BY <1>0, <1>3, <2>2
    <3> QED
      BY <1>7, <2>2, <3>1 DEF StreamInv, CardAgrees
  <2> QED
    BY <2>1, <2>2
<1>10. Ordered'
  <2> SUFFICES ASSUME NEW b \in Blocks
               PROVE  /\ NoOlder(b, card'[b], durable[b], garbled)
                      /\ NoOlder(b, wanted'[b], durable[b], garbled)
                      /\ \A p \in Parts : /\ durable[b][p] <= writes + 1 /\ card'[b][p] <= writes + 1
                                          /\ wanted'[b][p] <= writes + 1
    BY DEF Ordered
  <2>1. /\ \A p \in Parts : /\ card'[b][p] \in Int /\ wanted[b][p] \in Int /\ durable[b][p] \in Int
                            /\ durable[b][p] <= writes /\ wanted[b][p] <= writes
        /\ writes \in Int
    BY <1>2 DEF StreamInv, StreamTypeOK, BlockContents, Ordered
  <2>2. NoOlder(b, wanted[b], durable[b], garbled)
    BY DEF StreamInv, Ordered
  <2>3. NoOlder(b, card'[b], durable[b], garbled) /\ (\A p \in Parts : card'[b][p] <= writes + 1)
    <3>1. CASE b \in complete
      <4>1. \A p \in Parts : card'[b][p] = writes + 1
        BY <3>1
      <4> QED
        BY <2>1, <4>1 DEF NoOlder
    <3>2. CASE b \notin complete
      <4>1. card'[b] = WrittenBack(Over)[b]
        BY <3>2
      <4>2. NoOlder(b, card'[b], durable[b], garbled) /\ \A p \in Parts : card'[b][p] <= writes
        BY <1>0, <4>1, WriteBackOrdered
      <4> QED
        BY <2>1, <4>2
    <3> QED
      BY <3>1, <3>2
  <2>4. wanted'[b] = card'[b] \/ wanted'[b] = wanted[b]
    OBVIOUS
  <2> QED
    BY <2>1, <2>2, <2>3, <2>4
<1> QED
  BY <1>4, <1>6, <1>8, <1>9, <1>10 DEF StreamInv

(* A block that is not cached gets a slot, whose old block was written     *)
(* back: what the card has of it is what was written last.                 *)
LEMMA LoadKeeps ==
    ASSUME StreamInv, NEW block \in Blocks, Load(block)
    PROVE  StreamInv'
<1> DEFINE slot == SlotFor
<1>1. slot \in Slots
  BY SlotForIsASlot
<1>2. victim' \in Slots
  BY StreamAssumption DEF Load, StreamInv, StreamTypeOK, Slots
<1>3. writes \in Nat /\ wanted' = wanted /\ durable' = durable /\ writes' = writes
  BY DEF Load, StreamInv, StreamTypeOK
<1>4. CASE card' = WrittenBack({slot}) /\ garbled' = garbled
           /\ cached' = [cached EXCEPT ![slot] = [block |-> block, parts |-> card[block], dirty |-> FALSE]]
  <2>1. /\ card' \in [Blocks -> BlockContents]
        /\ cached[slot].block \in Blocks =>
              Matches(cached[slot].block, card'[cached[slot].block], wanted[cached[slot].block], garbled)
        /\ \A b \in Blocks : cached[slot].block # b => card'[b] = card[b]
    BY <1>1, <1>4, WriteBackIs
  <2>2. \A s \in Slots : cached[s].block # block
    BY DEF Load, Hits
  <2>3. Matches(block, card[block], wanted[block], garbled) /\ card[block] \in BlockContents
    BY <2>2 DEF StreamInv, CardAgrees, StreamTypeOK
  <2>4. /\ cached'[slot] = [block |-> block, parts |-> card[block], dirty |-> FALSE]
        /\ \A s \in Slots : s # slot => cached'[s] = cached[s]
    BY <1>1, <1>4 DEF StreamInv, StreamTypeOK
  <2>5. cached' \in [Slots -> Line]
    BY <1>1, <1>4, <2>3 DEF StreamInv, StreamTypeOK, Line
  <2>6. StreamTypeOK'
    BY <1>2, <1>3, <1>4, <2>1, <2>5 DEF StreamInv, StreamTypeOK
  <2>7. OneSlot'
    BY <2>2, <2>4 DEF StreamInv, OneSlot
  <2>8. CacheAgrees'
    <3> SUFFICES ASSUME NEW s \in Slots
                 PROVE  /\ cached'[s].block \in Blocks =>
                              Matches(cached'[s].block, cached'[s].parts, wanted[cached'[s].block], garbled)
                        /\ cached'[s].block = Nothing => ~cached'[s].dirty
      BY <1>3, <1>4 DEF CacheAgrees
    <3> QED
      BY <2>3, <2>4 DEF StreamInv, CacheAgrees
  <2>9. CardAgrees'
    <3> SUFFICES ASSUME NEW b \in Blocks, \A s \in Slots : cached'[s].block = b => ~cached'[s].dirty
                 PROVE  Matches(b, card'[b], wanted[b], garbled)
      BY <1>3, <1>4 DEF CardAgrees
    <3>1. CASE cached[slot].block = b
      BY <2>1, <3>1
    <3>2. CASE cached[slot].block # b
      <4>1. \A s \in Slots : cached[s].block = b => ~cached[s].dirty
        BY <2>4, <3>2
      <4> QED
        BY <2>1, <3>2, <4>1 DEF StreamInv, CardAgrees
    <3> QED
      BY <3>1, <3>2
  <2>10. Ordered'
    <3> SUFFICES ASSUME NEW b \in Blocks
                 PROVE  /\ NoOlder(b, card'[b], durable[b], garbled)
                        /\ NoOlder(b, wanted[b], durable[b], garbled)
                        /\ \A p \in Parts : durable[b][p] <= writes /\ card'[b][p] <= writes
                                            /\ wanted[b][p] <= writes
      BY <1>3, <1>4 DEF Ordered
    <3>1. NoOlder(b, card'[b], durable[b], garbled) /\ (\A p \in Parts : card'[b][p] <= writes)
      BY <1>1, <1>4, WriteBackOrdered
    <3> QED
      BY <3>1 DEF StreamInv, Ordered
  <2> QED
    BY <2>6, <2>7, <2>8, <2>9, <2>10 DEF StreamInv
<1>5. CASE UNCHANGED <<card, cached, garbled>>
  BY <1>2, <1>3, <1>5
  DEF StreamInv, StreamTypeOK, OneSlot, CacheAgrees, CardAgrees, Ordered
<1>6. CASE /\ card' = WrittenBack({slot})
           /\ (cached' = Clean({slot}) /\ garbled' = garbled) \/ GarbageIn(slot)
  BY <1>1, <1>2, <1>3, <1>6, WriteBackKeeps
<1> QED
  BY <1>4, <1>5, <1>6 DEF Load

LEMMA WritePartKeeps ==
    ASSUME StreamInv, NEW block \in Blocks, NEW part \in Parts, WritePart(block, part)
    PROVE  StreamInv'
<1>1. PICK slot \in Hits(block) :
        cached' = [cached EXCEPT ![slot].parts[part] = writes + 1, ![slot].dirty = TRUE]
  BY DEF WritePart
<1>2. /\ slot \in Slots /\ cached[slot].block = block
      /\ \A s \in Slots : s # slot => cached[s].block # block
  BY <1>1, NothingIsNoBlock DEF Hits, StreamInv, OneSlot
<1>3. /\ cached[slot] \in Line /\ writes \in Nat /\ cached[slot].parts \in BlockContents
      /\ wanted[block] \in BlockContents
      /\ Matches(block, cached[slot].parts, wanted[block], garbled)
  BY <1>2 DEF StreamInv, StreamTypeOK, CacheAgrees, Line
<1>4. /\ cached'[slot] = [block |-> block, parts |-> [cached[slot].parts EXCEPT ![part] = writes + 1],
                          dirty |-> TRUE]
      /\ \A s \in Slots : s # slot => cached'[s] = cached[s]
      /\ cached' = [s \in Slots |-> cached'[s]]
  BY <1>1, <1>2, <1>3 DEF StreamInv, StreamTypeOK, Line
<1>5. /\ wanted'[block] = [wanted[block] EXCEPT ![part] = writes + 1]
      /\ \A b \in Blocks : b # block => wanted'[b] = wanted[b]
      /\ wanted' = [b \in Blocks |-> wanted'[b]]
  BY <1>3 DEF WritePart, StreamInv, StreamTypeOK
<1>6. /\ [cached[slot].parts EXCEPT ![part] = writes + 1] \in BlockContents
      /\ [wanted[block] EXCEPT ![part] = writes + 1] \in BlockContents
  BY <1>3 DEF BlockContents
<1>7. /\ card' = card /\ durable' = durable /\ victim' = victim /\ garbled' = garbled
      /\ writes' = writes + 1
  BY DEF WritePart
<1>8. StreamTypeOK'
  <2>0. cached'[slot] \in Line
    BY <1>4, <1>6 DEF Line
  <2>1. \A s \in Slots : cached'[s] \in Line
    BY <1>4, <2>0 DEF StreamInv, StreamTypeOK
  <2>2. \A b \in Blocks : wanted'[b] \in BlockContents
    BY <1>5, <1>6 DEF StreamInv, StreamTypeOK
  <2> QED
    BY <1>3, <1>4, <1>5, <1>7, <2>1, <2>2 DEF StreamInv, StreamTypeOK
<1>9. \A s \in Slots : cached'[s].block = cached[s].block
  BY <1>2, <1>4
<1>10. OneSlot'
  BY <1>9 DEF StreamInv, OneSlot
<1>11. CacheAgrees'
  <2> SUFFICES ASSUME NEW s \in Slots
               PROVE  /\ cached'[s].block \in Blocks =>
                            Matches(cached'[s].block, cached'[s].parts, wanted'[cached'[s].block], garbled)
                      /\ cached'[s].block = Nothing => ~cached'[s].dirty
    BY <1>7 DEF CacheAgrees
  <2>1. CASE s = slot
    <3>1. Matches(block, [cached[slot].parts EXCEPT ![part] = writes + 1],
                  [wanted[block] EXCEPT ![part] = writes + 1], garbled)
      BY <1>3 DEF Matches, BlockContents
    <3> QED
      BY <1>4, <1>5, <2>1, <3>1, NothingIsNoBlock
  <2>2. CASE s # slot
    BY <1>2, <1>4, <1>5, <2>2 DEF StreamInv, CacheAgrees
  <2> QED
    BY <2>1, <2>2
<1>12. CardAgrees'
  <2> SUFFICES ASSUME NEW b \in Blocks, \A s \in Slots : cached'[s].block = b => ~cached'[s].dirty
               PROVE  Matches(b, card[b], wanted'[b], garbled)
    BY <1>7 DEF CardAgrees
  <2>1. b # block
    BY <1>2, <1>4
  <2>2. \A s \in Slots : cached[s].block = b => ~cached[s].dirty
    BY <1>2, <1>4, <2>1
  <2> QED
    BY <1>5, <2>1, <2>2 DEF StreamInv, CardAgrees
<1>13. Ordered'
  <2> SUFFICES ASSUME NEW b \in Blocks
               PROVE  /\ NoOlder(b, card[b], durable[b], garbled)
                      /\ NoOlder(b, wanted'[b], durable[b], garbled)
                      /\ \A p \in Parts : /\ durable[b][p] <= writes + 1 /\ card[b][p] <= writes + 1
                                          /\ wanted'[b][p] <= writes + 1
    BY <1>7 DEF Ordered
  <2>1. \A p \in Parts : card[b][p] \in Int /\ wanted[b][p] \in Int /\ durable[b][p] \in Int
    BY DEF StreamInv, StreamTypeOK, BlockContents
  <2>2. /\ NoOlder(b, card[b], durable[b], garbled) /\ NoOlder(b, wanted[b], durable[b], garbled)
        /\ \A p \in Parts : durable[b][p] <= writes /\ card[b][p] <= writes /\ wanted[b][p] <= writes
    BY DEF StreamInv, Ordered
  <2>3. \A p \in Parts : wanted'[b][p] = wanted[b][p] \/ wanted'[b][p] = writes + 1
    BY <1>3, <1>5 DEF BlockContents
  <2>4. NoOlder(b, wanted'[b], durable[b], garbled)
    BY <1>3, <2>1, <2>2, <2>3 DEF NoOlder
  <2>5. \A p \in Parts : /\ durable[b][p] <= writes + 1 /\ card[b][p] <= writes + 1
                         /\ wanted'[b][p] <= writes + 1
    BY <1>3, <2>1, <2>2, <2>3
  <2> QED
    BY <2>2, <2>4, <2>5
<1> QED
  BY <1>8, <1>10, <1>11, <1>12, <1>13 DEF StreamInv

LEMMA ReadWholeKeeps ==
    ASSUME StreamInv, NEW run \in Batches, ReadWhole(run)
    PROVE  StreamInv'
<1>1. /\ wanted' = wanted /\ victim' \in Slots /\ writes' \in Nat /\ writes <= writes'
      /\ durable' = durable /\ garbled' = garbled
  BY DEF ReadWhole, StreamInv, StreamTypeOK
<1>2. ASSUME NEW slots \in SUBSET Overlapping(run),
             card' = WrittenBack(slots \cap BackBefore(run)), cached' = Dropped(slots)
      PROVE  StreamInv'
  <2>1. slots \cap BackBefore(run) = slots /\ slots \in SUBSET Slots
    BY DEF BackBefore, Overlapping
  <2> QED
    BY <1>1, <1>2, <2>1, WriteBackKeeps
<1>3. Overlapping(run) \cap BackBefore(run) = BackBefore(run)
  BY DEF BackBefore
<1>4. CASE card' = WrittenBack(BackBefore(run)) /\ cached' = Dropped(Overlapping(run))
  BY <1>2, <1>3, <1>4
<1>5. CASE \E s \in Dirty(Overlapping(run)) :
             LET before == {t \in Overlapping(run) : t < s}
             IN card' = WrittenBack(before \cap BackBefore(run)) /\ cached' = Dropped(before)
  BY <1>2, <1>5
<1> QED
  BY <1>4, <1>5 DEF ReadWhole

LEMMA WriteWholeKeeps ==
    ASSUME StreamInv, NEW run \in Batches, WriteWhole(run)
    PROVE  StreamInv'
<1>1. run \in SUBSET Blocks
  BY StreamAssumption DEF Batches, Runs, Blocks
<1>2. /\ victim' = victim /\ durable' = durable /\ garbled' = garbled
      /\ writes' = writes + 1 /\ writes \in Nat /\ victim \in Slots
  BY DEF WriteWhole, StreamInv, StreamTypeOK
<1> DEFINE Filled(done) == [b \in Blocks |-> IF b \in done THEN [p \in Parts |-> writes + 1]
                                             ELSE WrittenBack(BackBefore(run))[b]]
<1>3. ASSUME NEW done \in SUBSET run, card' = Filled(done), cached' = Dropped(Overlapping(run)),
             wanted' = [b \in Blocks |-> IF b \in run THEN card'[b] ELSE wanted[b]]
      PROVE  StreamInv'
  BY <1>1, <1>2, <1>3, DirectWriteKeeps DEF BackBefore
<1>4. CASE /\ card' = Filled(run)
           /\ cached' = Dropped(Overlapping(run))
           /\ wanted' = [b \in Blocks |-> IF b \in run THEN card'[b] ELSE wanted[b]]
  BY <1>3, <1>4
<1>5. CASE /\ \E last \in run : card' = Filled({b \in run : b < last})
           /\ cached' = Dropped(Overlapping(run))
           /\ wanted' = [b \in Blocks |-> IF b \in run THEN card'[b] ELSE wanted[b]]
  BY <1>3, <1>5
<1>6. ASSUME NEW slots \in SUBSET Overlapping(run), wanted' = wanted,
             card' = WrittenBack(slots \cap BackBefore(run)), cached' = Dropped(slots)
      PROVE  StreamInv'
  <2>1. slots \cap BackBefore(run) = slots /\ slots \in SUBSET Slots
    BY DEF BackBefore, Overlapping
  <2> QED
    BY <1>2, <1>6, <2>1, WriteBackKeeps
<1>7. CASE /\ wanted' = wanted
           /\ \E s \in Dirty(Overlapping(run)) :
                LET before == {t \in Overlapping(run) : t < s}
                IN card' = WrittenBack(before \cap BackBefore(run)) /\ cached' = Dropped(before)
  BY <1>6, <1>7
<1> QED
  BY <1>4, <1>5, <1>7 DEF WriteWhole

LEMMA FlushKeeps ==
    ASSUME StreamInv, Flush
    PROVE  StreamInv'
<1>1. /\ wanted' = wanted /\ victim' \in Slots /\ writes' \in Nat /\ writes <= writes'
      /\ garbled' = garbled
  BY DEF Flush, StreamInv, StreamTypeOK
<1>2. CASE card' = WrittenBack(Slots) /\ cached' = Clean(Slots) /\ durable' = wanted
  BY <1>1, <1>2, WriteBackKeeps
<1>3. CASE /\ durable' = durable
           /\ \E s \in Dirty(Slots) :
                LET before == {t \in Slots : t < s}
                IN card' = WrittenBack(before) /\ cached' = Clean(before)
  BY <1>1, <1>3, WriteBackKeeps
<1> QED
  BY <1>2, <1>3 DEF Flush, Flushed

LEMMA ResetKeeps ==
    ASSUME StreamInv, Reset
    PROVE  StreamInv'
<1>1. Empty \in Line /\ 0 \in Slots
  BY StreamAssumption DEF Empty, Line, BlockContents, Slots
<1>2. StreamTypeOK'
  BY <1>1 DEF Reset, StreamInv, StreamTypeOK
<1>3. \A s \in Slots : cached'[s] = Empty
  BY DEF Reset
<1>4. OneSlot' /\ CacheAgrees'
  BY <1>3, NothingIsNoBlock DEF OneSlot, CacheAgrees, Empty
<1>5. CardAgrees'
  BY DEF Reset, CardAgrees, Matches
<1>6. Ordered'
  BY DEF Reset, Ordered, StreamInv
<1> QED
  BY <1>2, <1>4, <1>5, <1>6 DEF StreamInv

LEMMA StreamInvInit == StreamInit => StreamInv
<1> SUFFICES ASSUME StreamInit PROVE StreamInv
  OBVIOUS
<1>1. Empty \in Line /\ 0 \in Slots
  BY StreamAssumption DEF Empty, Line, BlockContents, Slots
<1>2. StreamTypeOK
  BY <1>1 DEF StreamInit, StreamTypeOK, BlockContents
<1>3. OneSlot /\ CacheAgrees
  BY NothingIsNoBlock DEF StreamInit, OneSlot, CacheAgrees, Empty
<1>4. CardAgrees /\ Ordered
  BY DEF StreamInit, CardAgrees, Ordered, Matches, NoOlder
<1> QED
  BY <1>2, <1>3, <1>4 DEF StreamInv

LEMMA StreamInvNext == StreamInv /\ [StreamNext]_streamVars => StreamInv'
<1> SUFFICES ASSUME StreamInv, [StreamNext]_streamVars PROVE StreamInv'
  OBVIOUS
<1>1. CASE UNCHANGED streamVars
  BY <1>1 DEF streamVars, StreamInv, StreamTypeOK, OneSlot, CacheAgrees, CardAgrees, Ordered
<1> QED
  BY <1>1, LoadKeeps, WritePartKeeps, ReadWholeKeeps, WriteWholeKeeps, FlushKeeps, ResetKeeps
  DEF StreamNext

LEMMA StreamInvMeans == StreamInv => CacheSound
<1> SUFFICES ASSUME StreamInv PROVE CacheSound
  OBVIOUS
<1>1. ASSUME NEW b \in Blocks PROVE Matches(b, Seen(b), wanted[b], garbled)
  <2>1. CASE Hits(b) = {}
    BY <2>1 DEF Hits, Seen, StreamInv, CardAgrees
  <2>2. CASE Hits(b) # {}
    <3>1. PICK s \in Hits(b) : s = CHOOSE t \in Hits(b) : TRUE
      BY <2>2
    <3>2. s \in Slots /\ cached[s].block = b /\ Seen(b) = cached[s].parts
      BY <2>2, <3>1 DEF Hits, Seen
    <3> QED
      BY <3>2 DEF StreamInv, CacheAgrees
  <2> QED
    BY <2>1, <2>2
<1>2. \A b \in Blocks : NoOlder(b, card[b], durable[b], garbled)
  BY DEF StreamInv, Ordered
<1> QED
  BY <1>1, <1>2 DEF CacheSound, ReadsLatest, FlushedSurvives, Matches, NoOlder

(* Reads through the two-block cache return what was written last, and     *)
(* what was flushed stays on the card, for a card and a cache of any size, *)
(* any number of writes, failures and resets; a read that fails spoils no  *)
(* block but the one whose slot it was to take (block_stream.rs).          *)
THEOREM CacheAlwaysSound == StreamSpec => []CacheSound
<1>1. StreamSpec => []StreamInv
  BY StreamInvInit, StreamInvNext, PTL DEF StreamSpec
<1> QED
  BY StreamInvMeans, <1>1, PTL
=============================================================================
