------------------------- MODULE StorageOwnerProofs -------------------------
(***************************************************************************)
(* Proofs about StorageOwner, for every capacity, every number of requests *)
(* in flight, chunks, uploads and faults.                                  *)
(***************************************************************************)
EXTENDS StorageOwner, SequenceTheorems, FunctionTheorems, FiniteSetTheorems,
        WellFoundedInduction, TLAPS

(***************************************************************************)
(* The mailbox: which request comes next.                                  *)
(***************************************************************************)
\* A nonempty set of naturals has a least element.
LEMMA LeastNatural ==
    ASSUME NEW T \in SUBSET Nat, T # {}
    PROVE  \E x \in T : \A y \in T : x <= y
  <1>1. PICK x \in T : \A y \in T : ~ (<<y, x>> \in OpToRel(<, Nat))
    BY NatLessThanWellFounded, WFMin
  <1>2. \A y \in T : ~ (y < x)
    BY <1>1 DEF OpToRel
  <1> QED BY <1>2

\* A priority is one of four.
LEMMA PriorityType == \A r : Priority(r) \in 0 .. 3
  BY DEF Priority

\* Among eligible requests one has the highest priority, and of those of that
\* priority one is the oldest; that is the one the owner takes.
LEMMA NextIndexExists ==
    ASSUME mailbox \in Seq(Request), Eligible # {}
    PROVE  /\ NextIndex \in 1 .. Len(mailbox) /\ NextIndex \in Eligible
           /\ \A j \in Eligible :
                 \/ Priority(mailbox[NextIndex]) > Priority(mailbox[j])
                 \/ Priority(mailbox[NextIndex]) = Priority(mailbox[j]) /\ NextIndex <= j
  <1> DEFINE Of(p) == {i \in Eligible : Priority(mailbox[i]) = p}
  <1>1. Eligible \subseteq 1 .. Len(mailbox) /\ Len(mailbox) \in Nat
    BY DEF Eligible
  <1>2. \E p \in 0 .. 3 : Of(p) # {} /\ \A q \in 0 .. 3 : q > p => Of(q) = {}
    <2>1. PICK i \in Eligible : TRUE
      OBVIOUS
    <2>2. Priority(mailbox[i]) \in 0 .. 3 /\ i \in Of(Priority(mailbox[i]))
      BY PriorityType
    <2>3. PICK q \in 0 .. 3 : i \in Of(q)
      BY <2>2
    <2> HIDE DEF Of
    <2>4. q = 0 \/ q = 1 \/ q = 2 \/ q = 3
      BY <2>3
    <2>5. Of(0) # {} \/ Of(1) # {} \/ Of(2) # {} \/ Of(3) # {}
      BY <2>3, <2>4
    <2>6. CASE Of(3) # {}
      BY <2>6
    <2>7. CASE Of(3) = {} /\ Of(2) # {}
      <3>1. \A r \in 0 .. 3 : r > 2 => r = 3
        OBVIOUS
      <3> QED BY <2>7, <3>1
    <2>8. CASE Of(3) = {} /\ Of(2) = {} /\ Of(1) # {}
      <3>1. \A r \in 0 .. 3 : r > 1 => r = 2 \/ r = 3
        OBVIOUS
      <3> QED BY <2>8, <3>1
    <2>9. CASE Of(3) = {} /\ Of(2) = {} /\ Of(1) = {}
      <3>1. \A r \in 0 .. 3 : r > 0 => r = 1 \/ r = 2 \/ r = 3
        OBVIOUS
      <3>2. Of(0) # {}
        BY <2>5, <2>9
      <3>3. \A r \in 0 .. 3 : r > 0 => Of(r) = {}
        BY <2>9, <3>1
      <3> WITNESS 0 \in 0 .. 3
      <3> QED BY <3>2, <3>3
    <2> QED BY <2>6, <2>7, <2>8, <2>9
  <1>3. PICK p \in 0 .. 3 : Of(p) # {} /\ \A q \in 0 .. 3 : q > p => Of(q) = {}
    BY <1>2
  <1>4. Of(p) \in SUBSET Nat
    <2>1. Eligible \subseteq Nat
      BY <1>1
    <2>2. Of(p) \subseteq Eligible
      OBVIOUS
    <2> HIDE DEF Of
    <2> QED BY <2>1, <2>2
  <1>5. PICK i \in Of(p) : \A j \in Of(p) : i <= j
    <2> HIDE DEF Of
    <2> QED BY <1>3, <1>4, LeastNatural
  <1>6. \A j \in Eligible :
            \/ Priority(mailbox[i]) > Priority(mailbox[j])
            \/ Priority(mailbox[i]) = Priority(mailbox[j]) /\ i <= j
    <2> SUFFICES ASSUME NEW j \in Eligible
                 PROVE  \/ Priority(mailbox[i]) > Priority(mailbox[j])
                        \/ Priority(mailbox[i]) = Priority(mailbox[j]) /\ i <= j
      OBVIOUS
    <2>1. Priority(mailbox[j]) \in 0 .. 3 /\ j \in Of(Priority(mailbox[j]))
      BY PriorityType
    <2>2. ~ (Priority(mailbox[j]) > p)
      BY <1>3, <2>1
    <2> QED BY <1>5, <2>1, <2>2
  <1>7. /\ NextIndex \in Eligible
        /\ \A j \in Eligible :
              \/ Priority(mailbox[NextIndex]) > Priority(mailbox[j])
              \/ Priority(mailbox[NextIndex]) = Priority(mailbox[j]) /\ NextIndex <= j
    BY <1>5, <1>6 DEF NextIndex
  <1> QED BY <1>1, <1>7

\* Taking one request out of a mailbox leaves the others.
LEMMA RemoveAtProperties ==
    ASSUME NEW S, NEW s \in Seq(S), NEW i \in 1 .. Len(s)
    PROVE  RemoveAt(s, i) \in Seq(S) /\ Len(RemoveAt(s, i)) = Len(s) - 1
  <1> DEFINE a == SubSeq(s, 1, i - 1)
             b == SubSeq(s, i + 1, Len(s))
  <1>1. a \in Seq(S) /\ Len(a) = i - 1
    BY SubSeqProperties
  <1>2. b \in Seq(S) /\ Len(b) = Len(s) - i
    BY SubSeqProperties
  <1>3. RemoveAt(s, i) = a \o b
    BY DEF RemoveAt
  <1> HIDE DEF a, b
  <1>4. a \o b \in Seq(S) /\ Len(a \o b) = Len(a) + Len(b)
    BY <1>1, <1>2, ConcatProperties
  <1>5. Len(s) \in Nat /\ i \in Nat
    BY LenProperties
  <1> QED BY <1>1, <1>2, <1>3, <1>4, <1>5

(***************************************************************************)
(* Types.                                                                  *)
(***************************************************************************)
\* Sending appends one well-formed request.
LEMMA SendType ==
    ASSUME TypeOK, NEW t \in Task, NEW client \in Client, NEW kind \in Kind,
           NEW lends \in BOOLEAN, NEW chunk \in Nat,
           Send(t, client, kind, lends, chunk)
    PROVE  /\ requests' \in Seq(Request)
           /\ Len(requests') = Len(requests) + 1
           /\ holds' \in [Task -> SUBSET Lease]
           /\ awaits' \in [Task -> Client]
           /\ flight' \in [Task -> Nat]
  <1> DEFINE lease == IF lends THEN CHOOSE b \in holds[t] : TRUE ELSE NoLease
             r == [task |-> t, client |-> client, kind |-> kind, lease |-> lease,
                   id |-> IF kind \in {"write", "commit", "abort"}
                          THEN known[t] ELSE NoUpload,
                   chunk |-> chunk]
  <1>1. lease \in Lease \cup {NoLease}
    BY DEF Send, TypeOK
  <1>2. (IF kind \in {"write", "commit", "abort"} THEN known[t] ELSE NoUpload) \in Nat
    BY DEF TypeOK, NoUpload
  <1>3. r \in Request
    <2> HIDE DEF lease
    <2> QED BY <1>1, <1>2 DEF Request
  <1>4. requests' = Append(requests, r) /\ holds' = [holds EXCEPT ![t] = @ \ {lease}]
    BY DEF Send
  <1>5. requests' \in Seq(Request) /\ Len(requests') = Len(requests) + 1
    <2> HIDE DEF r
    <2> QED BY <1>3, <1>4, AppendProperties DEF TypeOK
  <1>6. holds' \in [Task -> SUBSET Lease]
    <2> HIDE DEF lease
    <2> QED BY <1>4 DEF TypeOK
  <1> QED BY <1>5, <1>6 DEF Send, TypeOK

\* Executing a request keeps the owner's types and prepares one response.
LEMMA PerformType ==
    ASSUME TypeOK, NEW r \in Request, Perform(r)
    PROVE  /\ answer' \in Answer
           /\ upload' \in Nat /\ nextUpload' \in Nat \ {0}
           /\ uploadClient' \in Client \cup {NoClient}
           /\ session' \in BOOLEAN /\ applied' \in Seq(Nat)
           /\ faults' \in Nat /\ published' \in SUBSET Seq(Nat)
  <1> DEFINE Typed ==
        /\ answer' \in Answer
        /\ upload' \in Nat /\ nextUpload' \in Nat \ {0}
        /\ uploadClient' \in Client \cup {NoClient}
        /\ session' \in BOOLEAN /\ applied' \in Seq(Nat)
        /\ faults' \in Nat /\ published' \in SUBSET Seq(Nat)
  <1> USE DEF NoUpload
  <1>1. \A o \in Outcome, i \in Nat : AnswerWith(r, o, i) => answer' \in Answer
    BY DEF AnswerWith, Answer, Request
  <1>2. r.id \in Nat /\ r.chunk \in Nat /\ r.client \in Client
    BY DEF Request
  <1>3. /\ "ok" \in Outcome /\ "Busy" \in Outcome
        /\ "Stale" \in Outcome /\ "Backend" \in Outcome
    BY DEF Outcome
  <1>4. (Works \/ Fails(r)) => faults' \in Nat
    BY DEF Works, Fails, TypeOK
  <1>5. /\ << >> \in Seq(Nat)
        /\ Append(applied, r.chunk) \in Seq(Nat)
    BY <1>2, AppendProperties, EmptySeq DEF TypeOK
  <1>6. CASE Access(r)
    BY <1>1, <1>2, <1>3, <1>4, <1>6 DEF Access, TypeOK, owner
  <1>7. CASE BeginUpload(r)
    <2>1. answer' \in Answer
      BY <1>1, <1>2, <1>3, <1>7 DEF BeginUpload, TypeOK
    <2>2. faults' \in Nat
      BY <1>4, <1>7 DEF BeginUpload
    <2>3. /\ upload' \in Nat /\ nextUpload' \in Nat \ {0}
          /\ uploadClient' \in Client \cup {NoClient}
          /\ session' \in BOOLEAN /\ applied' \in Seq(Nat)
      <3>1. upload' \in Nat /\ nextUpload' \in Nat \ {0}
        BY <1>7 DEF BeginUpload, TypeOK, owner
      <3>2. uploadClient' \in Client \cup {NoClient}
        BY <1>2, <1>7 DEF BeginUpload, TypeOK, owner
      <3>3. session' \in BOOLEAN
        BY <1>7 DEF BeginUpload, TypeOK, owner
      <3>4. applied' \in Seq(Nat)
        BY <1>5, <1>7 DEF BeginUpload, TypeOK, owner
      <3> QED BY <3>1, <3>2, <3>3, <3>4
    <2>4. published' \in SUBSET Seq(Nat)
      BY <1>7 DEF BeginUpload, TypeOK
    <2> QED BY <2>1, <2>2, <2>3, <2>4
  <1>8. CASE WriteUpload(r)
    BY <1>1, <1>2, <1>3, <1>4, <1>5, <1>8 DEF WriteUpload, TypeOK, owner
  <1>9. CASE CommitUpload(r)
    <2>1. answer' \in Answer
      BY <1>1, <1>2, <1>3, <1>9 DEF CommitUpload, TypeOK
    <2>2. faults' \in Nat
      BY <1>4, <1>9 DEF CommitUpload
    <2>3. /\ upload' \in Nat /\ nextUpload' \in Nat \ {0}
          /\ uploadClient' \in Client \cup {NoClient}
          /\ session' \in BOOLEAN /\ applied' \in Seq(Nat)
      <3>1. upload' \in Nat /\ nextUpload' \in Nat \ {0}
        BY <1>9 DEF CommitUpload, TypeOK, owner
      <3>2. uploadClient' \in Client \cup {NoClient}
        BY <1>2, <1>9 DEF CommitUpload, TypeOK, owner
      <3>3. session' \in BOOLEAN
        BY <1>9 DEF CommitUpload, TypeOK, owner
      <3>4. applied' \in Seq(Nat)
        BY <1>5, <1>9 DEF CommitUpload, TypeOK, owner
      <3> QED BY <3>1, <3>2, <3>3, <3>4
    <2>4. published' \in SUBSET Seq(Nat)
      BY <1>9 DEF CommitUpload, TypeOK
    <2> QED BY <2>1, <2>2, <2>3, <2>4
  <1>10. CASE AbortUpload(r)
    <2>1. answer' \in Answer
      BY <1>1, <1>2, <1>3, <1>10 DEF AbortUpload, TypeOK
    <2>2. faults' \in Nat
      BY <1>4, <1>10 DEF AbortUpload
    <2>3. /\ upload' \in Nat /\ nextUpload' \in Nat \ {0}
          /\ uploadClient' \in Client \cup {NoClient}
          /\ session' \in BOOLEAN /\ applied' \in Seq(Nat)
      <3>1. upload' \in Nat /\ nextUpload' \in Nat \ {0}
        BY <1>10 DEF AbortUpload, TypeOK, owner
      <3>2. uploadClient' \in Client \cup {NoClient}
        BY <1>2, <1>10 DEF AbortUpload, TypeOK, owner
      <3>3. session' \in BOOLEAN
        BY <1>10 DEF AbortUpload, TypeOK, owner
      <3>4. applied' \in Seq(Nat)
        BY <1>5, <1>10 DEF AbortUpload, TypeOK, owner
      <3> QED BY <3>1, <3>2, <3>3, <3>4
    <2>4. published' \in SUBSET Seq(Nat)
      BY <1>10 DEF AbortUpload, TypeOK
    <2> QED BY <2>1, <2>2, <2>3, <2>4
  <1> QED BY <1>6, <1>7, <1>8, <1>9, <1>10 DEF Perform

\* The owner never gets a mailbox entry that is not a request.
LEMMA MailboxEntryType ==
    ASSUME TypeOK, Eligible # {}
    PROVE  /\ mailbox[NextIndex] \in Request
           /\ RemoveAt(mailbox, NextIndex) \in Seq(Request)
           /\ Len(RemoveAt(mailbox, NextIndex)) = Len(mailbox) - 1
  <1>1. mailbox \in Seq(Request) /\ NextIndex \in 1 .. Len(mailbox)
    BY NextIndexExists DEF TypeOK
  <1>2. mailbox[NextIndex] \in Request
    BY <1>1, ElementOfSeq
  <1> QED BY <1>1, <1>2, RemoveAtProperties

\* What one receive and the drain after it put into the mailbox.
LEMMA CollectType ==
    ASSUME TypeOK, Collect
    PROVE  /\ requests' \in Seq(Request) /\ Len(requests') <= QueueCapacity
           /\ mailbox' \in Seq(Request) /\ Len(mailbox') <= QueueCapacity
           /\ pc' \in {"overflow", "run", "panic"}
  <1>1. /\ requests \in Seq(Request) /\ mailbox \in Seq(Request)
        /\ QueueCapacity \in Nat
        /\ Len(requests) \in Nat /\ Len(mailbox) \in Nat
        /\ Room \in Nat /\ Len(mailbox) + Room = QueueCapacity
        /\ Len(requests) <= QueueCapacity
    BY ConstantsAssumption, LenProperties DEF TypeOK, Room
  <1>2. CASE Room = 0
    BY <1>1, <1>2 DEF Collect
  <1>3. CASE Len(requests) <= Room /\ Room > 0
    <2>1. /\ mailbox \o requests \in Seq(Request)
          /\ Len(mailbox \o requests) = Len(mailbox) + Len(requests)
      BY <1>1, ConcatProperties
    <2>2. << >> \in Seq(Request) /\ Len(<< >>) = 0
      BY EmptySeq
    <2>3. mailbox' = mailbox \o requests /\ requests' = << >> /\ pc' = "run"
      BY <1>1, <1>3 DEF Collect
    <2> QED BY <1>1, <1>3, <2>1, <2>2, <2>3
  <1>4. CASE Room > 0 /\ Len(requests) > Room
    <2>1. /\ mailbox' = mailbox \o SubSeq(requests, 1, Room)
          /\ requests' = SubSeq(requests, Room + 1, Len(requests))
          /\ pc' = "overflow"
      BY <1>1, <1>4 DEF Collect
    <2>2. \A i \in 1 .. Len(requests) : requests[i] \in Request
      BY <1>1, ElementOfSeq
    <2>3. /\ SubSeq(requests, 1, Room) \in Seq(Request)
          /\ Len(SubSeq(requests, 1, Room)) = Room
      BY <1>1, <1>4, <2>2, SubSeqProperties
    <2>4. /\ SubSeq(requests, Room + 1, Len(requests)) \in Seq(Request)
          /\ Len(SubSeq(requests, Room + 1, Len(requests))) = Len(requests) - Room
      BY <1>1, <1>4, <2>2, SubSeqProperties
    <2> QED BY <1>1, <1>4, <2>1, <2>3, <2>4, ConcatProperties
  <1> QED BY <1>1, <1>2, <1>3, <1>4

\* Routing a response appends it to one channel, then drains the requests.
LEMMA RouteType ==
    ASSUME TypeOK, Route
    PROVE  /\ requests' \in Seq(Request) /\ Len(requests') <= QueueCapacity
           /\ mailbox' \in Seq(Request) /\ Len(mailbox') <= QueueCapacity
           /\ pc' \in {"overflow", "run", "panic"}
           /\ responses' \in [Client -> Seq(Answer)]
           /\ answer' \in Answer
  <1>1. /\ requests \in Seq(Request) /\ mailbox \in Seq(Request)
        /\ QueueCapacity \in Nat
        /\ Len(requests) \in Nat /\ Len(mailbox) \in Nat
        /\ Room \in Nat /\ Len(mailbox) + Room = QueueCapacity
        /\ Len(requests) <= QueueCapacity
    BY ConstantsAssumption, LenProperties DEF TypeOK, Room
  <1>2. /\ mailbox \o requests \in Seq(Request)
        /\ Len(mailbox \o requests) = Len(mailbox) + Len(requests)
        /\ << >> \in Seq(Request) /\ Len(<< >>) = 0
    BY <1>1, ConcatProperties, EmptySeq
  <1>3. answer.client \in Client
    BY DEF TypeOK, Answer
  <1>4. Append(responses[answer.client], answer) \in Seq(Answer)
    BY <1>3, AppendProperties DEF TypeOK
  <1>5. responses' \in [Client -> Seq(Answer)]
    BY <1>4 DEF Route, TypeOK
  <1>6. answer' \in Answer
    BY DEF Route, NoAnswer, Answer, Task, Client, Kind, Outcome, NoUpload
  <1>7. CASE pc = "routeOverflow"
    BY <1>1, <1>5, <1>6, <1>7 DEF Route
  <1>8. CASE pc = "route"
    <2>1. CASE Len(requests) <= Room
      <3>1. mailbox' = mailbox \o requests /\ requests' = << >> /\ pc' = "run"
        BY <1>8, <2>1 DEF Route
      <3> QED BY <1>1, <1>2, <1>5, <1>6, <2>1, <3>1
    <2>2. CASE ~(Len(requests) <= Room)
      <3>1. UNCHANGED <<requests, mailbox>> /\ pc' = "panic"
        BY <1>8, <2>2 DEF Route
      <3> QED BY <1>1, <1>5, <1>6, <3>1
    <2> QED BY <2>1, <2>2
  <1> QED BY <1>7, <1>8 DEF Route

\* Taking a response off a channel.
LEMMA ReceiveType ==
    ASSUME TypeOK, NEW t \in Task, Receive(t)
    PROVE  /\ responses' \in [Client -> Seq(Answer)]
           /\ \A c \in Client : Len(responses'[c]) =
                 IF c = awaits[t] THEN Len(responses[c]) - 1 ELSE Len(responses[c])
           /\ holds' \in [Task -> SUBSET Lease]
           /\ stage' \in [Task -> {"none", "opening", "open", "closing", "aborting"}]
           /\ failed' \in [Task -> BOOLEAN]
           /\ sent' \in [Task -> Nat]
           /\ known' \in [Task -> Nat]
           /\ flight' \in [Task -> Nat]
           /\ awaits' \in [Task -> Client]
  <1> DEFINE r == Head(responses[awaits[t]])
  <1>1. /\ awaits[t] \in Client
        /\ responses[awaits[t]] \in Seq(Answer)
        /\ responses[awaits[t]] # << >>
    BY DEF TypeOK, Receive
  <1>2. /\ r \in Answer
        /\ Tail(responses[awaits[t]]) \in Seq(Answer)
        /\ Len(Tail(responses[awaits[t]])) = Len(responses[awaits[t]]) - 1
    BY <1>1, HeadTailProperties
  <1>3. responses' = [responses EXCEPT ![awaits[t]] = Tail(responses[awaits[t]])]
    BY DEF Receive
  <1>4. /\ responses' \in [Client -> Seq(Answer)]
        /\ \A c \in Client : Len(responses'[c]) =
              IF c = awaits[t] THEN Len(responses[c]) - 1 ELSE Len(responses[c])
    BY <1>1, <1>2, <1>3 DEF TypeOK
  <1>5. /\ holds' = [holds EXCEPT ![t] = @ \cup ({r.lease} \ {NoLease})]
        /\ stage' = [stage EXCEPT ![t] = StageAfter(t, r)]
        /\ failed' = [failed EXCEPT ![t] =
              stage'[t] = "open" /\ (@ \/ r.outcome # "ok")]
        /\ sent' = [sent EXCEPT ![t] = IF stage'[t] = "none" THEN 0 ELSE @]
        /\ known' = [known EXCEPT ![t] =
              CASE stage'[t] = "none" -> NoUpload
                [] stage[t] = "opening" /\ stage'[t] = "open" -> r.id
                [] OTHER -> @]
    BY DEF Receive
  <1>6. r.lease \in Lease \cup {NoLease} /\ r.id \in Nat
    BY <1>2 DEF Answer
  <1> HIDE DEF r
  <1>7. holds' \in [Task -> SUBSET Lease]
    BY <1>5, <1>6 DEF TypeOK
  <1>8. stage' \in [Task -> {"none", "opening", "open", "closing", "aborting"}]
    BY <1>5 DEF TypeOK, StageAfter
  <1>9. failed' \in [Task -> BOOLEAN]
    BY <1>5 DEF TypeOK
  <1>10. sent' \in [Task -> Nat]
    BY <1>5 DEF TypeOK
  <1>11. known' \in [Task -> Nat]
    BY <1>5, <1>6 DEF TypeOK, NoUpload
  <1>12. flight' \in [Task -> Nat]
    BY DEF TypeOK, Receive
  <1>13. awaits' \in [Task -> Client]
    <2>1. UploadsAs \in [Task -> Client]
      BY DEF UploadsAs, Task, Client
    <2> QED BY <2>1 DEF TypeOK, Receive
  <1> QED BY <1>4, <1>7, <1>8, <1>9, <1>10, <1>11, <1>12, <1>13

(* Every variable of the owner and of its tasks keeps its type, and no     *)
(* queue exceeds its capacity.                                             *)
THEOREM TypeCorrect == Spec => []TypeOK
<1>1. Init => TypeOK
  <2> SUFFICES ASSUME Init PROVE TypeOK
    OBVIOUS
  <2>1. /\ << >> \in Seq(Request) /\ << >> \in Seq(Answer) /\ << >> \in Seq(Nat)
        /\ Len(<< >>) = 0
    BY EmptySeq
  <2>2. NoAnswer \in Answer
    BY DEF NoAnswer, Answer, Task, Client, Kind, Outcome, NoUpload
  <2>3. UploadsAs \in [Task -> Client]
    BY DEF UploadsAs, Task, Client
  <2>4. Buffers \in [Task -> SUBSET Lease]
    BY ConstantsAssumption DEF Lease
  <2>5. /\ responses \in [Client -> Seq(Answer)]
        /\ answer \in Answer /\ holds \in [Task -> SUBSET Lease]
        /\ awaits \in [Task -> Client]
    BY <2>1, <2>2, <2>3, <2>4 DEF Init
  <2>6. /\ requests \in Seq(Request) /\ Len(requests) <= QueueCapacity
        /\ mailbox \in Seq(Request) /\ Len(mailbox) <= QueueCapacity
        /\ applied \in Seq(Nat)
    BY <2>1, ConstantsAssumption DEF Init
  <2>7. /\ flight \in [Task -> Nat] /\ failed \in [Task -> BOOLEAN]
        /\ sent \in [Task -> Nat] /\ known \in [Task -> Nat]
        /\ stage \in [Task -> {"none", "opening", "open", "closing", "aborting"}]
    BY DEF Init, NoUpload
  <2>8. /\ upload \in Nat /\ nextUpload \in Nat \ {0}
        /\ uploadClient \in Client \cup {NoClient}
        /\ faults \in Nat
    BY DEF Init, NoUpload
  <2>9. /\ session \in BOOLEAN
        /\ published \in SUBSET Seq(Nat)
        /\ pc \in {"receive", "overflow", "routeOverflow", "run", "route", "panic"}
    BY DEF Init
  <2> QED BY <2>5, <2>6, <2>7, <2>8, <2>9 DEF TypeOK
<1>2. TypeOK /\ [Next]_vars => TypeOK'
  <2> SUFFICES ASSUME TypeOK, [Next]_vars PROVE TypeOK'
    OBVIOUS
  <2> USE DEF owner, tasks, queues
  <2>1. CASE Collect
    BY <2>1, CollectType DEF Collect, TypeOK
  <2>2. CASE ExecuteImmediate
    <3>1. /\ Head(requests) \in Request
          /\ Tail(requests) \in Seq(Request)
          /\ Len(Tail(requests)) = Len(requests) - 1
      BY <2>2, HeadTailProperties DEF ExecuteImmediate, TypeOK
    <3>2. Len(requests') <= QueueCapacity
      BY <2>2, <3>1, ConstantsAssumption, LenProperties DEF ExecuteImmediate, TypeOK
    <3> QED BY <2>2, <3>1, <3>2, PerformType DEF ExecuteImmediate, TypeOK
  <2>3. CASE ExecuteNext
    <3>1. CASE Eligible = {}
      BY <2>3, <3>1 DEF ExecuteNext, TypeOK
    <3>2. CASE Eligible # {}
      <4>1. Len(mailbox') <= QueueCapacity
        BY <2>3, <3>2, MailboxEntryType, ConstantsAssumption, LenProperties
        DEF ExecuteNext, TypeOK
      <4> QED BY <2>3, <3>2, <4>1, MailboxEntryType, PerformType
          DEF ExecuteNext, TypeOK
    <3> QED BY <3>1, <3>2
  <2>4. CASE Route
    BY <2>4, RouteType DEF Route, TypeOK
  <2>5. ASSUME NEW t \in Task, NEW client \in Client, NEW kind \in Kind,
               NEW lends \in BOOLEAN, NEW chunk \in Nat,
               Send(t, client, kind, lends, chunk),
               stage' \in [Task -> {"none", "opening", "open", "closing", "aborting"}],
               sent' \in [Task -> Nat], UNCHANGED <<failed, known>>
        PROVE  TypeOK'
    <3>1. Len(requests') <= QueueCapacity
      BY <2>5, SendType, ConstantsAssumption, LenProperties DEF Send, TypeOK
    <3>2. UNCHANGED <<mailbox, pc, answer, responses, owner, faults, published>>
      BY <2>5 DEF Send
    <3>3. /\ requests' \in Seq(Request)
          /\ holds' \in [Task -> SUBSET Lease]
          /\ awaits' \in [Task -> Client]
          /\ flight' \in [Task -> Nat]
      BY <2>5, SendType
    <3> QED BY <2>5, <3>1, <3>2, <3>3 DEF TypeOK
  <2>6. \A t \in Task : UploadsAs[t] \in Client
    BY DEF UploadsAs, Task, Client
  <2>7. /\ "Library" \in Client /\ "refresh" \in Task /\ 0 \in Nat
        /\ "read" \in Kind /\ "scan" \in Kind /\ "begin" \in Kind
        /\ "write" \in Kind /\ "commit" \in Kind /\ "abort" \in Kind
        /\ TRUE \in BOOLEAN /\ FALSE \in BOOLEAN
    BY DEF Client, Task, Kind
  <2>8. ASSUME NEW t \in Task, NEW c \in Client, Read(t, c) PROVE TypeOK'
    <3>1. Send(t, c, "read", TRUE, 0) /\ UNCHANGED <<stage, failed, sent, known>>
      BY <2>8 DEF Read
    <3> QED BY <2>5, <2>7, <3>1 DEF TypeOK
  <2>9. ASSUME NEW lends \in BOOLEAN, Scan(lends) PROVE TypeOK'
    <3>1. Send("refresh", "Library", "scan", lends, 0)
          /\ UNCHANGED <<stage, failed, sent, known>>
      BY <2>9 DEF Scan
    <3>2. /\ stage' \in [Task -> {"none", "opening", "open", "closing", "aborting"}]
          /\ sent' \in [Task -> Nat] /\ UNCHANGED <<failed, known>>
      BY <3>1 DEF TypeOK
    <3> QED BY <2>5, <2>7, <3>1, <3>2
  <2>10. ASSUME NEW t \in Task, Begin(t) PROVE TypeOK'
    BY <2>5, <2>6, <2>7, <2>10 DEF Begin, TypeOK
  <2>11. ASSUME NEW t \in Task, Write(t) PROVE TypeOK'
    <3>1. /\ Send(t, UploadsAs[t], "write", TRUE, sent[t] + 1)
          /\ sent' = [sent EXCEPT ![t] = @ + 1]
          /\ UNCHANGED <<stage, failed, known>>
      BY <2>11 DEF Write
    <3>2. sent[t] + 1 \in Nat /\ UploadsAs[t] \in Client
      BY <2>6 DEF TypeOK
    <3>3. /\ stage' \in [Task -> {"none", "opening", "open", "closing", "aborting"}]
          /\ sent' \in [Task -> Nat]
      BY <3>1, <3>2 DEF TypeOK
    <3> QED BY <2>5, <2>7, <3>1, <3>2, <3>3
  <2>12. ASSUME NEW t \in Task, Commit(t) PROVE TypeOK'
    BY <2>5, <2>6, <2>7, <2>12 DEF Commit, TypeOK
  <2>13. ASSUME NEW t \in Task, Abort(t) PROVE TypeOK'
    BY <2>5, <2>6, <2>7, <2>13 DEF Abort, TypeOK
  <2>14. ASSUME NEW t \in Task, Receive(t) PROVE TypeOK'
    BY <2>14, ReceiveType DEF Receive, TypeOK
  <2>15. CASE UNCHANGED vars
    BY <2>15 DEF vars, TypeOK
  <2> QED BY <2>1, <2>2, <2>3, <2>4, <2>8, <2>9, <2>10, <2>11, <2>12, <2>13,
             <2>14, <2>15 DEF Next
<1> QED BY <1>1, <1>2, PTL DEF Spec

(***************************************************************************)
(* The mailbox never overflows.                                            *)
(***************************************************************************)
\* The sizes that are added up are numbers.
LEMMA CountType ==
    ASSUME TypeOK
    PROVE  /\ Len(requests) \in Nat /\ Len(mailbox) \in Nat
           /\ \A c \in Client : Len(responses[c]) \in Nat
           /\ Answers \in Nat /\ Routing \in {0, 1}
  <1>1. /\ Len(requests) \in Nat /\ Len(mailbox) \in Nat
        /\ \A c \in Client : Len(responses[c]) \in Nat
    BY LenProperties DEF TypeOK
  <1>2. /\ Len(responses["Reader"]) \in Nat /\ Len(responses["State"]) \in Nat
        /\ Len(responses["Diagnostic"]) \in Nat /\ Len(responses["Library"]) \in Nat
    BY <1>1 DEF Client
  <1>3. Answers \in Nat
    <2> DEFINE a == Len(responses["Reader"])
               b == Len(responses["State"])
               c == Len(responses["Diagnostic"])
               e == Len(responses["Library"])
    <2>1. a \in Nat /\ b \in Nat /\ c \in Nat /\ e \in Nat /\ Answers = a + b + c + e
      BY <1>2 DEF Answers
    <2> HIDE DEF a, b, c, e
    <2> QED BY <2>1
  <1>4. Routing \in {0, 1}
    BY DEF Routing
  <1> QED BY <1>1, <1>3, <1>4

\* One channel that grows or shrinks changes the sum by as much.
LEMMA AnswersChange ==
    ASSUME TypeOK, NEW d \in Int, NEW k \in Client,
           \A c \in Client : Len(responses'[c]) =
               IF c = k THEN Len(responses[c]) + d ELSE Len(responses[c])
    PROVE  Answers' = Answers + d
  <1> DEFINE a == Len(responses["Reader"])
             b == Len(responses["State"])
             c == Len(responses["Diagnostic"])
             e == Len(responses["Library"])
             a2 == Len(responses'["Reader"])
             b2 == Len(responses'["State"])
             c2 == Len(responses'["Diagnostic"])
             e2 == Len(responses'["Library"])
  <1>1. a \in Nat /\ b \in Nat /\ c \in Nat /\ e \in Nat
    BY CountType DEF Client
  <1>2. Answers = a + b + c + e /\ Answers' = a2 + b2 + c2 + e2
    BY DEF Answers
  <1>3. /\ a2 = IF k = "Reader" THEN a + d ELSE a
        /\ b2 = IF k = "State" THEN b + d ELSE b
        /\ c2 = IF k = "Diagnostic" THEN c + d ELSE c
        /\ e2 = IF k = "Library" THEN e + d ELSE e
    BY DEF Client
  <1>4. k \in {"Reader", "State", "Diagnostic", "Library"}
    BY DEF Client
  <1> HIDE DEF a, b, c, e, a2, b2, c2, e2
  <1> QED BY <1>1, <1>2, <1>3, <1>4

\* One task more or fewer requests in flight, within its limit.
LEMMA InFlightChange ==
    ASSUME TypeOK, CountInv, NEW t \in Task, NEW d \in Int,
           \A u \in Task : flight'[u] =
               IF u = t THEN flight[u] + d ELSE flight[u],
           flight[t] + d <= Limit[t]
    PROVE  InFlight' = InFlight + d /\ \A u \in Task : flight'[u] <= Limit[u]
  <1>1. flight \in [Task -> Nat]
    BY DEF TypeOK
  <1>2. /\ flight'["display"] = IF t = "display" THEN flight["display"] + d
                                                ELSE flight["display"]
        /\ flight'["refresh"] = IF t = "refresh" THEN flight["refresh"] + d
                                                ELSE flight["refresh"]
        /\ flight'["diagnostic"] = IF t = "diagnostic" THEN flight["diagnostic"] + d
                                                      ELSE flight["diagnostic"]
        /\ flight["display"] \in Nat /\ flight["refresh"] \in Nat
        /\ flight["diagnostic"] \in Nat
    BY <1>1 DEF Task
  <1>3. InFlight' = InFlight + d
    <2>1. CASE t = "display"
      BY <1>2, <2>1 DEF InFlight
    <2>2. CASE t = "refresh"
      BY <1>2, <2>2 DEF InFlight
    <2>3. CASE t = "diagnostic"
      BY <1>2, <2>3 DEF InFlight
    <2> QED BY <2>1, <2>2, <2>3 DEF Task
  <1>4. ASSUME NEW u \in Task PROVE flight'[u] <= Limit[u]
    <2>1. CASE u = t
      BY <1>1, <2>1
    <2>2. CASE u # t
      BY <1>1, <2>2 DEF CountInv
    <2> QED BY <2>1, <2>2
  <1> QED BY <1>3, <1>4

\* All that is in flight fits, so what is queued leaves room for itself.
LEMMA RequestsFit ==
    ASSUME TypeOK, CountInv, InFlightFits
    PROVE  Len(requests) + Routing <= Room /\ Room \in Nat
  <1>1. /\ flight["display"] <= Limit["display"] /\ flight["refresh"] <= Limit["refresh"]
        /\ flight["diagnostic"] <= Limit["diagnostic"]
    BY DEF CountInv, Task
  <1>2. /\ flight["display"] \in Nat /\ flight["refresh"] \in Nat
        /\ flight["diagnostic"] \in Nat /\ Limit["display"] \in Nat
        /\ Limit["refresh"] \in Nat /\ Limit["diagnostic"] \in Nat
        /\ QueueCapacity \in Nat
    BY ConstantsAssumption DEF TypeOK, Task
  <1>3. InFlight <= QueueCapacity
    BY <1>1, <1>2 DEF InFlight, InFlightFits
  <1>4. Len(requests) + Len(mailbox) + Routing + Answers <= QueueCapacity
    BY <1>3 DEF CountInv, Pending
  <1>5. Routing \in Nat
    BY CountType
  <1> QED BY <1>2, <1>4, <1>5, CountType DEF Room

\* Receiving takes one response off one of the four channels.
LEMMA ReceiveCount ==
    ASSUME TypeOK, CountInv, NEW t \in Task, Receive(t)
    PROVE  CountInv'
  <1>1. /\ awaits[t] \in Client
        /\ \A c \in Client : Len(responses'[c]) =
              IF c = awaits[t] THEN Len(responses[c]) + (-1) ELSE Len(responses[c])
    BY ReceiveType, CountType DEF TypeOK
  <1>2. Answers' = Answers + (-1)
    BY <1>1, AnswersChange
  <1>3. UNCHANGED <<requests, mailbox, pc>>
    BY DEF Receive
  <1>4. Pending' = Pending - 1
    <2>1. Routing' = Routing
      BY <1>3 DEF Routing
    <2> QED BY <1>2, <1>3, <2>1, CountType DEF Pending
  <1>5. /\ flight[t] \in Nat /\ Limit[t] \in Nat /\ flight[t] <= Limit[t]
        /\ \A u \in Task : flight'[u] = IF u = t THEN flight[u] + (-1) ELSE flight[u]
    BY ConstantsAssumption DEF Receive, TypeOK, CountInv
  <1>6. InFlight' = InFlight + (-1) /\ \A u \in Task : flight'[u] <= Limit[u]
    <2>1. flight[t] + (-1) <= Limit[t]
      BY <1>5
    <2> QED BY <1>5, <2>1, InFlightChange
  <1>7. Pending = InFlight /\ Pending \in Int
    BY CountType DEF CountInv, Pending
  <1> QED BY <1>3, <1>4, <1>6, <1>7 DEF CountInv, MailboxNeverOverflows

\* Sending adds one request, and one to what its task has in flight.
LEMMA SendCount ==
    ASSUME TypeOK, CountInv, NEW t \in Task, NEW client \in Client, NEW kind \in Kind,
           NEW lends \in BOOLEAN, NEW chunk \in Nat,
           Send(t, client, kind, lends, chunk)
    PROVE  CountInv'
  <1>1. Len(requests') = Len(requests) + 1
    BY SendType
  <1>2. UNCHANGED <<mailbox, pc, responses>>
    BY DEF Send
  <1>3. Pending' = Pending + 1
    <2>1. Routing' = Routing /\ Answers' = Answers
      BY <1>2 DEF Routing, Answers
    <2> QED BY <1>1, <1>2, <2>1, CountType DEF Pending
  <1>4. /\ flight[t] \in Nat /\ Limit[t] \in Nat /\ flight[t] < Limit[t]
        /\ \A u \in Task : flight'[u] = IF u = t THEN flight[u] + 1 ELSE flight[u]
    BY ConstantsAssumption DEF Send, TypeOK
  <1>5. InFlight' = InFlight + 1 /\ \A u \in Task : flight'[u] <= Limit[u]
    <2>1. flight[t] + 1 <= Limit[t]
      BY <1>4
    <2> QED BY <1>4, <2>1, InFlightChange
  <1> QED BY <1>2, <1>3, <1>5 DEF CountInv, MailboxNeverOverflows

\* Routing moves the answer to the end of one channel and the new requests to
\* the mailbox, where they fit.
LEMMA RouteCount ==
    ASSUME TypeOK, CountInv, InFlightFits, Route
    PROVE  CountInv'
  <1>1. pc = "route" /\ Routing = 1
    BY DEF Route, CountInv, MailboxNeverOverflows, Routing
  <1>2. Len(requests) <= Room
    <2>1. Len(requests) \in Nat
      BY CountType
    <2> QED BY <1>1, <2>1, RequestsFit
  <1>3. /\ mailbox' = mailbox \o requests /\ requests' = << >> /\ pc' = "run"
        /\ UNCHANGED flight
    BY <1>1, <1>2 DEF Route, tasks
  <1>4. Len(mailbox') = Len(mailbox) + Len(requests) /\ Len(requests') = 0
    BY <1>3, ConcatProperties, EmptySeq DEF TypeOK
  <1>5. answer.client \in Client /\ answer \in Answer
    BY DEF TypeOK, Answer
  <1>6. \A c \in Client : Len(responses'[c]) =
           IF c = answer.client THEN Len(responses[c]) + 1 ELSE Len(responses[c])
    <2>1. responses' = [responses EXCEPT
              ![answer.client] = Append(responses[answer.client], answer)]
      BY DEF Route
    <2>2. Len(Append(responses[answer.client], answer)) = Len(responses[answer.client]) + 1
      BY <1>5, AppendProperties DEF TypeOK
    <2> QED BY <1>5, <2>1, <2>2 DEF TypeOK
  <1>7. Answers' = Answers + 1
    BY <1>5, <1>6, AnswersChange
  <1>8. Pending' = Pending
    <2>1. Routing' = 0
      BY <1>3 DEF Routing
    <2> QED BY <1>1, <1>4, <1>7, <2>1, CountType DEF Pending
  <1> QED BY <1>3, <1>8 DEF CountInv, MailboxNeverOverflows, InFlight

\* Collecting moves every request to the mailbox.
LEMMA CollectCount ==
    ASSUME TypeOK, CountInv, InFlightFits, Collect
    PROVE  CountInv'
  <1>1. Routing = 0 /\ Len(requests) \in Nat /\ Len(requests) # 0
    BY CountType, EmptySeq DEF Collect, Routing, TypeOK
  <1>2. Len(requests) <= Room /\ Room > 0
    BY <1>1, RequestsFit
  <1>3. /\ mailbox' = mailbox \o requests /\ requests' = << >> /\ pc' = "run"
        /\ UNCHANGED <<flight, responses>>
    BY <1>2 DEF Collect, tasks
  <1>4. Len(mailbox') = Len(mailbox) + Len(requests) /\ Len(requests') = 0
    BY <1>3, ConcatProperties, EmptySeq DEF TypeOK
  <1>5. Pending' = Pending
    <2>1. Routing' = 0 /\ Answers' = Answers
      BY <1>3 DEF Routing, Answers
    <2> QED BY <1>1, <1>4, <2>1, CountType DEF Pending
  <1> QED BY <1>3, <1>5 DEF CountInv, MailboxNeverOverflows, InFlight

\* Executing takes one request out of the mailbox and has its answer to send.
LEMMA ExecuteCount ==
    ASSUME TypeOK, CountInv, ExecuteNext
    PROVE  CountInv'
  <1>1. UNCHANGED <<requests, responses, flight>> /\ pc = "run"
    BY DEF ExecuteNext, tasks
  <1>2. Answers' = Answers /\ Routing = 0
    BY <1>1 DEF Answers, Routing
  <1>3. Pending' = Pending /\ pc' \in {"receive", "route"}
    <2>1. CASE Eligible = {}
      <3>1. pc' = "receive" /\ mailbox' = mailbox /\ Routing' = 0
        BY <2>1 DEF ExecuteNext, Routing
      <3> QED BY <1>1, <1>2, <3>1 DEF Pending
    <2>2. CASE Eligible # {}
      <3>1. mailbox' = RemoveAt(mailbox, NextIndex) /\ pc' = "route" /\ Routing' = 1
        BY <2>2 DEF ExecuteNext, Routing
      <3>2. Len(mailbox') = Len(mailbox) - 1
        BY <2>2, <3>1, MailboxEntryType
      <3> QED BY <1>1, <1>2, <3>1, <3>2, CountType DEF Pending
    <2> QED BY <2>1, <2>2
  <1> QED BY <1>1, <1>3 DEF CountInv, MailboxNeverOverflows, InFlight

(* When what the tasks keep in flight fits into the mailbox, the owner     *)
(* never reaches its unreachable!() nor the path around its priorities.    *)
THEOREM NeverOverflows ==
    ASSUME InFlightFits
    PROVE  Spec => []MailboxNeverOverflows
<1>1. Init => CountInv
  <2> SUFFICES ASSUME Init PROVE CountInv
    OBVIOUS
  <2>1. Len(<< >>) = 0
    BY EmptySeq
  <2>2. Pending = 0
    <3>1. Answers = 0 /\ Routing = 0
      BY <2>1 DEF Init, Answers, Routing, Client
    <3> QED BY <2>1, <3>1 DEF Init, Pending
  <2>3. InFlight = 0
    BY DEF Init, InFlight, Task
  <2>4. \A t \in Task : flight[t] <= Limit[t]
    BY ConstantsAssumption DEF Init
  <2> QED BY <2>2, <2>3, <2>4 DEF Init, CountInv, MailboxNeverOverflows
<1>2. TypeOK /\ CountInv /\ [Next]_vars => CountInv'
  <2> SUFFICES ASSUME TypeOK, CountInv, [Next]_vars PROVE CountInv'
    OBVIOUS
  <2>1. CASE Collect
    BY <2>1, CollectCount
  <2>2. CASE ExecuteImmediate
    BY <2>2 DEF ExecuteImmediate, CountInv, MailboxNeverOverflows
  <2>3. CASE ExecuteNext
    BY <2>3, ExecuteCount
  <2>4. CASE Route
    BY <2>4, RouteCount
  <2>5. /\ \A t \in Task : UploadsAs[t] \in Client
        /\ "Library" \in Client /\ "refresh" \in Task /\ 0 \in Nat
        /\ "read" \in Kind /\ "scan" \in Kind /\ "begin" \in Kind
        /\ "write" \in Kind /\ "commit" \in Kind /\ "abort" \in Kind
        /\ TRUE \in BOOLEAN /\ FALSE \in BOOLEAN
    BY DEF UploadsAs, Client, Task, Kind
  <2>6. ASSUME NEW t \in Task, NEW c \in Client, Read(t, c) PROVE CountInv'
    BY <2>5, <2>6, SendCount DEF Read
  <2>7. ASSUME NEW lends \in BOOLEAN, Scan(lends) PROVE CountInv'
    BY <2>5, <2>7, SendCount DEF Scan
  <2>8. ASSUME NEW t \in Task, Begin(t) PROVE CountInv'
    BY <2>5, <2>8, SendCount DEF Begin
  <2>9. ASSUME NEW t \in Task, Write(t) PROVE CountInv'
    <3>1. sent[t] + 1 \in Nat
      BY DEF TypeOK
    <3> QED BY <2>5, <2>9, <3>1, SendCount DEF Write
  <2>10. ASSUME NEW t \in Task, Commit(t) PROVE CountInv'
    BY <2>5, <2>10, SendCount DEF Commit
  <2>11. ASSUME NEW t \in Task, Abort(t) PROVE CountInv'
    BY <2>5, <2>11, SendCount DEF Abort
  <2>12. ASSUME NEW t \in Task, Receive(t) PROVE CountInv'
    BY <2>12, ReceiveCount
  <2>13. CASE UNCHANGED vars
    BY <2>13 DEF vars, queues, tasks, CountInv, Pending, Answers, Routing,
               InFlight, MailboxNeverOverflows
  <2> QED BY <2>1, <2>2, <2>3, <2>4, <2>6, <2>7, <2>8, <2>9, <2>10, <2>11, <2>12,
             <2>13 DEF Next
<1>3. CountInv => MailboxNeverOverflows
  BY DEF CountInv
<1> QED BY <1>1, <1>2, <1>3, TypeCorrect, PTL DEF Spec

(***************************************************************************)
(* Counting the members of a queue that belong to a set.                   *)
(***************************************************************************)
Places(P, s) == {i \in DOMAIN s : s[i] \in P}
Count(P, s) == Cardinality(Places(P, s))

LEMMA CountIsNat ==
    ASSUME NEW P, NEW S, NEW s \in Seq(S)
    PROVE  /\ IsFiniteSet(Places(P, s)) /\ Count(P, s) \in Nat
           /\ Count(P, s) = 0 => \A i \in 1 .. Len(s) : s[i] \notin P
<1>1. Len(s) \in Nat /\ DOMAIN s = 1 .. Len(s)
  BY LenProperties
<1>2. IsFiniteSet(1 .. Len(s))
  BY <1>1, FS_Interval
<1>3. IsFiniteSet(Places(P, s)) /\ Count(P, s) \in Nat
  BY <1>1, <1>2, FS_Subset, FS_CardinalityType DEF Places, Count
<1>4. Count(P, s) = 0 => Places(P, s) = {}
  BY <1>3, FS_EmptySet DEF Count
<1> QED
  BY <1>1, <1>3, <1>4 DEF Places

\* The count of two queues, one behind the other.
LEMMA CountConcat ==
    ASSUME NEW P, NEW S, NEW s \in Seq(S), NEW t \in Seq(S)
    PROVE  Count(P, s \o t) = Count(P, s) + Count(P, t)
<1> DEFINE m == Len(s)
           n == Len(t)
           A == Places(P, s)
           B == Places(P, t)
           C == {i \in (m + 1) .. (m + n) : t[i - m] \in P}
           f == [i \in B |-> i + m]
<1>1. m \in Nat /\ n \in Nat /\ DOMAIN s = 1 .. m /\ DOMAIN t = 1 .. n
  BY LenProperties
<1>2. /\ s \o t \in Seq(S) /\ Len(s \o t) = m + n
      /\ \A i \in 1 .. m + n : (s \o t)[i] = IF i <= m THEN s[i] ELSE t[i - m]
  BY ConcatProperties
<1>3. DOMAIN (s \o t) = 1 .. m + n
  BY <1>2, LenProperties
<1>4. Places(P, s \o t) = A \cup C
  <2> HIDE DEF m, n
  <2> QED
    BY <1>1, <1>2, <1>3 DEF Places
<1>5. A \cap C = {}
  <2> HIDE DEF m, n
  <2> QED
    BY <1>1 DEF Places
<1>6. f \in Bijection(B, C)
  <2>1. B = {i \in 1 .. n : t[i] \in P}
    BY <1>1 DEF Places
  <2> HIDE DEF m, n, B
  <2>2. \A i \in B : i + m \in C
    BY <1>1, <2>1
  <2>3. f \in [B -> C]
    BY <2>2
  <2>4. \A i, j \in B : f[i] = f[j] => i = j
    BY <1>1, <2>1
  <2>5. \A c \in C : c - m \in B /\ f[c - m] = c
    BY <1>1, <2>1
  <2> HIDE DEF f, C
  <2>6. \A c \in C : \E i \in B : f[i] = c
    BY <2>5
  <2> QED
    BY <2>3, <2>4, <2>6, Fun_IsBij
<1>7. IsFiniteSet(A) /\ IsFiniteSet(B)
  BY CountIsNat
<1>8. IsFiniteSet(C) /\ Cardinality(C) = Cardinality(B)
  <2>1. ExistsBijection(B, C)
    BY <1>6 DEF ExistsBijection
  <2> HIDE DEF B, C
  <2> QED
    BY <1>7, <2>1, FS_Bijection
<1> HIDE DEF A, B, C
<1>9. Cardinality(A \cup C) = Cardinality(A) + Cardinality(C)
  <2>1. Cardinality(A) \in Nat /\ Cardinality(C) \in Nat
    BY <1>7, <1>8, FS_CardinalityType
  <2>2. Cardinality(A \cup C) = Cardinality(A) + Cardinality(C) - Cardinality({})
    BY <1>5, <1>7, <1>8, FS_Union
  <2> QED
    BY <2>1, <2>2, FS_EmptySet
<1> QED
  BY <1>4, <1>8, <1>9 DEF A, B, Count

LEMMA CountFew ==
    ASSUME NEW P, NEW x
    PROVE  /\ Count(P, << >>) = 0
           /\ Count(P, <<x>>) = IF x \in P THEN 1 ELSE 0
<1>1. Places(P, << >>) = {}
  BY DEF Places
<1>2. Places(P, <<x>>) = IF x \in P THEN {1} ELSE {}
  BY DEF Places
<1> QED
  BY <1>1, <1>2, FS_EmptySet, FS_Singleton DEF Count

LEMMA CountAppend ==
    ASSUME NEW P, NEW S, NEW s \in Seq(S), NEW x \in S
    PROVE  Count(P, Append(s, x)) = Count(P, s) + (IF x \in P THEN 1 ELSE 0)
<1>1. Append(s, x) = s \o <<x>> /\ <<x>> \in Seq(S)
  BY AppendIsConcat
<1>2. Count(P, s \o <<x>>) = Count(P, s) + Count(P, <<x>>)
  BY <1>1, CountConcat
<1>3. Count(P, <<x>>) = IF x \in P THEN 1 ELSE 0
  BY CountFew
<1> QED
  BY <1>1, <1>2, <1>3

\* Cutting a queue in two.
LEMMA CountSplit ==
    ASSUME NEW P, NEW S, NEW s \in Seq(S), NEW n \in 0 .. Len(s)
    PROVE  /\ SubSeq(s, 1, n) \in Seq(S) /\ SubSeq(s, n + 1, Len(s)) \in Seq(S)
           /\ s = SubSeq(s, 1, n) \o SubSeq(s, n + 1, Len(s))
           /\ Count(P, s) = Count(P, SubSeq(s, 1, n)) + Count(P, SubSeq(s, n + 1, Len(s)))
<1> DEFINE a == SubSeq(s, 1, n)
           b == SubSeq(s, n + 1, Len(s))
<1>1. Len(s) \in Nat /\ n \in Nat /\ n <= Len(s)
  BY LenProperties
<1>2. \A i \in 1 .. Len(s) : s[i] \in S
  BY ElementOfSeq
<1>3. /\ a \in Seq(S) /\ Len(a) = n
      /\ \A i \in 1 .. n : a[i] = s[i]
  <2>1. \A i \in 1 .. n : s[i] \in S
    BY <1>1, <1>2
  <2>2. 1 \in Int /\ n \in Int
    BY <1>1
  <2>3. /\ a \in Seq(S) /\ Len(a) = (IF 1 <= n THEN n - 1 + 1 ELSE 0)
        /\ \A i \in 1 .. n - 1 + 1 : a[i] = s[1 + i - 1]
    BY <2>1, <2>2, SubSeqProperties
  <2> HIDE DEF a
  <2> QED
    BY <1>1, <2>3
<1>4. /\ b \in Seq(S) /\ Len(b) = Len(s) - n
      /\ \A i \in 1 .. Len(s) - n : b[i] = s[n + i]
  <2>1. \A i \in n + 1 .. Len(s) : s[i] \in S
    BY <1>1, <1>2
  <2>2. n + 1 \in Int /\ Len(s) \in Int
    BY <1>1
  <2>3. /\ b \in Seq(S) /\ Len(b) = (IF n + 1 <= Len(s) THEN Len(s) - (n + 1) + 1 ELSE 0)
        /\ \A i \in 1 .. Len(s) - (n + 1) + 1 : b[i] = s[n + 1 + i - 1]
    BY <2>1, <2>2, SubSeqProperties
  <2> HIDE DEF b
  <2> QED
    BY <1>1, <2>3
<1> HIDE DEF a, b
<1>5. /\ a \o b \in Seq(S) /\ Len(a \o b) = Len(s)
      /\ \A i \in 1 .. Len(s) : (a \o b)[i] = s[i]
  <2>1. /\ a \o b \in Seq(S) /\ Len(a \o b) = Len(a) + Len(b)
        /\ \A i \in 1 .. Len(a) + Len(b) : (a \o b)[i] = IF i <= Len(a) THEN a[i] ELSE b[i - Len(a)]
    BY <1>3, <1>4, ConcatProperties
  <2>2. Len(a) + Len(b) = Len(s)
    BY <1>1, <1>3, <1>4
  <2>3. ASSUME NEW i \in 1 .. Len(s) PROVE (a \o b)[i] = s[i]
    <3>1. (a \o b)[i] = IF i <= n THEN a[i] ELSE b[i - n]
      BY <1>3, <2>1, <2>2
    <3>2. CASE i <= n
      BY <1>3, <3>1, <3>2
    <3>3. CASE ~(i <= n)
      <4>1. i - n \in 1 .. Len(s) - n /\ n + (i - n) = i
        BY <1>1, <3>3
      <4>2. b[i - n] = s[n + (i - n)]
        BY <1>4, <4>1
      <4> QED
        BY <3>1, <3>3, <4>1, <4>2
    <3> QED
      BY <3>2, <3>3
  <2> QED
    BY <2>1, <2>2, <2>3
<1>6. s = a \o b
  BY <1>5, SeqEqual
<1>7. Count(P, s) = Count(P, a) + Count(P, b)
  BY <1>3, <1>4, <1>6, CountConcat
<1> QED
  BY <1>3, <1>4, <1>6, <1>7 DEF a, b

LEMMA CountTail ==
    ASSUME NEW P, NEW S, NEW s \in Seq(S), s # << >>
    PROVE  /\ Tail(s) \in Seq(S) /\ Head(s) \in S
           /\ Count(P, s) = (IF Head(s) \in P THEN 1 ELSE 0) + Count(P, Tail(s))
<1>1. Tail(s) \in Seq(S) /\ Head(s) \in S /\ <<Head(s)>> \in Seq(S)
  BY HeadTailProperties
<1>2. s = <<Head(s)>> \o Tail(s)
  <2>1. 1 \in 1 .. Len(s) /\ Len(s) \in 1 .. Len(s)
    BY EmptySeq
  <2>2. SubSeq(s, 1, Len(s)) = <<s[1]>> \o SubSeq(s, 1 + 1, Len(s))
    BY <2>1, SubSeqRecursiveFirst
  <2>3. Head(s) = s[1] /\ Tail(s) = SubSeq(s, 2, Len(s)) /\ SubSeq(s, 1, Len(s)) = s
    BY TailIsSubSeq, SubSeqFull
  <2> QED
    BY <2>2, <2>3
<1>3. Count(P, s) = Count(P, <<Head(s)>>) + Count(P, Tail(s))
  BY <1>1, <1>2, CountConcat
<1>4. Count(P, <<Head(s)>>) = IF Head(s) \in P THEN 1 ELSE 0
  BY CountFew
<1> QED
  BY <1>1, <1>3, <1>4

LEMMA CountRemove ==
    ASSUME NEW P, NEW S, NEW s \in Seq(S), NEW i \in 1 .. Len(s)
    PROVE  Count(P, s) = Count(P, RemoveAt(s, i)) + (IF s[i] \in P THEN 1 ELSE 0)
<1>1. Len(s) \in Nat /\ i - 1 \in 0 .. Len(s) /\ i \in 0 .. Len(s) /\ s[i] \in S
  BY ElementOfSeq
<1> DEFINE a == SubSeq(s, 1, i - 1)
           b == SubSeq(s, i + 1, Len(s))
<1>2. /\ a \in Seq(S) /\ SubSeq(s, i, Len(s)) \in Seq(S)
      /\ Count(P, s) = Count(P, a) + Count(P, SubSeq(s, i, Len(s)))
  <2>1. (i - 1) + 1 = i
    BY <1>1
  <2> DEFINE n == i - 1
  <2>2. n \in 0 .. Len(s) /\ n + 1 = i
    BY <1>1, <2>1
  <2> HIDE DEF n
  <2>3. /\ SubSeq(s, 1, n) \in Seq(S) /\ SubSeq(s, n + 1, Len(s)) \in Seq(S)
        /\ Count(P, s) = Count(P, SubSeq(s, 1, n)) + Count(P, SubSeq(s, n + 1, Len(s)))
    BY <2>2, CountSplit
  <2> QED
    BY <2>2, <2>3 DEF n
<1>3. b \in Seq(S)
  BY <1>1, CountSplit
<1>4. SubSeq(s, i, Len(s)) = <<s[i]>> \o b
  <2>1. Len(s) \in i .. Len(s)
    BY <1>1
  <2> QED
    BY <2>1, SubSeqRecursiveFirst
<1> HIDE DEF a, b
<1>5. Count(P, <<s[i]>> \o b) = (IF s[i] \in P THEN 1 ELSE 0) + Count(P, b)
  <2>1. <<s[i]>> \in Seq(S)
    BY <1>1
  <2>2. Count(P, <<s[i]>> \o b) = Count(P, <<s[i]>>) + Count(P, b)
    BY <1>3, <2>1, CountConcat
  <2>3. Count(P, <<s[i]>>) = IF s[i] \in P THEN 1 ELSE 0
    BY CountFew
  <2> QED
    BY <2>2, <2>3
<1>6. Count(P, a \o b) = Count(P, a) + Count(P, b)
  BY <1>2, <1>3, CountConcat
<1>7. Count(P, a) \in Nat /\ Count(P, b) \in Nat
  BY <1>2, <1>3, CountIsNat
<1> QED
  BY <1>2, <1>4, <1>5, <1>6, <1>7 DEF a, b, RemoveAt

(***************************************************************************)
(* Where the requests are, and how many: what each step moves.             *)
(***************************************************************************)
\* Requests that the owner has not executed, and answers that no task has received.
Asked == Range(requests) \cup Range(mailbox)
Answered == Range(Sending) \cup UNION {Range(responses[c]) : c \in Client}

\* What belongs to a task, with a kind in K.
Of(t, K) == {r \in Request \cup Answer : r.task = t /\ r.kind \in K}

CountAnswers(P) ==
    Count(P, responses["Reader"]) + Count(P, responses["State"])
    + Count(P, responses["Diagnostic"]) + Count(P, responses["Library"])
Total(P) == Count(P, requests) + Count(P, mailbox) + Count(P, Sending) + CountAnswers(P)

LEMMA QueueTypes ==
    ASSUME TypeOK
    PROVE  /\ requests \in Seq(Request) /\ mailbox \in Seq(Request) /\ Sending \in Seq(Answer)
           /\ \A c \in Client : responses[c] \in Seq(Answer)
<1>1. answer \in Answer
  BY DEF TypeOK
<1>2. Sending \in Seq(Answer)
  BY <1>1, EmptySeq DEF Sending
<1> QED
  BY <1>2 DEF TypeOK

\* The members of a queue after its ends have changed.
LEMMA RangeChanges ==
    ASSUME NEW S, NEW s \in Seq(S)
    PROVE  /\ \A x \in S : Range(Append(s, x)) = Range(s) \cup {x}
           /\ s # << >> => /\ Head(s) \in Range(s)
                           /\ Range(s) = Range(Tail(s)) \cup {Head(s)}
           /\ \A i \in 1 .. Len(s) : /\ s[i] \in Range(s)
                                    /\ Range(s) = Range(RemoveAt(s, i)) \cup {s[i]}
           /\ Range(s) \in SUBSET S
<1>1. \A x \in S : Range(<<x>>) = {x} /\ <<x>> \in Seq(S)
  BY DEF Range
<1>2. ASSUME NEW x \in S PROVE Range(Append(s, x)) = Range(s) \cup {x}
  <2>1. <<x>> \in Seq(S) /\ Range(<<x>>) = {x} /\ Append(s, x) = s \o <<x>>
    BY <1>1, AppendIsConcat
  <2> DEFINE w == <<x>>
  <2> HIDE DEF w
  <2>2. Range(s \o w) = Range(s) \cup Range(w)
    <3>1. w \in Seq(S)
      BY <2>1 DEF w
    <3> QED
      BY <3>1, RangeConcatenation
  <2> QED
    BY <2>1, <2>2 DEF w
<1>3. ASSUME s # << >>
      PROVE  Head(s) \in Range(s) /\ Range(s) = Range(Tail(s)) \cup {Head(s)}
  <2>1. Head(s) \in S /\ Tail(s) \in Seq(S)
    BY <1>3, HeadTailProperties
  <2>2. s = <<Head(s)>> \o Tail(s)
    <3>1. 1 \in 1 .. Len(s) /\ Len(s) \in 1 .. Len(s)
      BY <1>3, EmptySeq
    <3>2. SubSeq(s, 1, Len(s)) = <<s[1]>> \o SubSeq(s, 1 + 1, Len(s))
      BY <3>1, SubSeqRecursiveFirst
    <3>3. Head(s) = s[1] /\ Tail(s) = SubSeq(s, 2, Len(s)) /\ SubSeq(s, 1, Len(s)) = s
      BY <1>3, TailIsSubSeq, SubSeqFull
    <3> QED
      BY <3>2, <3>3
  <2>3. Range(<<Head(s)>> \o Tail(s)) = {Head(s)} \cup Range(Tail(s))
    <3>1. <<Head(s)>> \in Seq(S) /\ Range(<<Head(s)>>) = {Head(s)}
      BY <1>1, <2>1
    <3> DEFINE w == <<Head(s)>>
    <3>2. w \in Seq(S)
      BY <3>1
    <3> DEFINE v == Tail(s)
    <3>3. v \in Seq(S)
      BY <2>1
    <3> HIDE DEF w, v
    <3>4. Range(w \o v) = Range(w) \cup Range(v)
      BY <3>2, <3>3, RangeConcatenation
    <3> QED
      BY <3>1, <3>4 DEF w, v
  <2> QED
    BY <2>2, <2>3
<1>4. ASSUME NEW i \in 1 .. Len(s)
      PROVE  s[i] \in Range(s) /\ Range(s) = Range(RemoveAt(s, i)) \cup {s[i]}
  <2> DEFINE a == SubSeq(s, 1, i - 1)
             b == SubSeq(s, i + 1, Len(s))
             c == SubSeq(s, i, Len(s))
  <2>1. Len(s) \in Nat /\ s[i] \in S /\ Len(s) \in i .. Len(s)
    BY ElementOfSeq
  <2>2. a \in Seq(S) /\ c \in Seq(S) /\ s = a \o c
    <3> DEFINE n == i - 1
    <3>1. n \in 0 .. Len(s) /\ n + 1 = i
      BY <2>1
    <3> HIDE DEF n
    <3>2. /\ SubSeq(s, 1, n) \in Seq(S) /\ SubSeq(s, n + 1, Len(s)) \in Seq(S)
          /\ s = SubSeq(s, 1, n) \o SubSeq(s, n + 1, Len(s))
      BY <3>1, CountSplit
    <3> QED
      BY <3>1, <3>2 DEF n
  <2>3. b \in Seq(S)
    <3>1. i \in 0 .. Len(s)
      BY <2>1
    <3> QED
      BY <3>1, CountSplit
  <2>4. c = <<s[i]>> \o b
    BY <2>1, SubSeqRecursiveFirst
  <2>5. RemoveAt(s, i) = a \o b
    BY DEF RemoveAt
  <2> HIDE DEF a, b, c
  <2>6. Range(c) = {s[i]} \cup Range(b)
    <3>1. <<s[i]>> \in Seq(S) /\ Range(<<s[i]>>) = {s[i]}
      BY <1>1, <2>1
    <3> DEFINE w == <<s[i]>>
    <3>2. w \in Seq(S)
      BY <3>1
    <3> HIDE DEF w
    <3>3. Range(w \o b) = Range(w) \cup Range(b)
      BY <2>3, <3>2, RangeConcatenation
    <3> QED
      BY <2>4, <3>1, <3>3 DEF w
  <2>7. Range(s) = Range(a) \cup Range(c)
    BY <2>2, RangeConcatenation
  <2>8. Range(a \o b) = Range(a) \cup Range(b)
    BY <2>2, <2>3, RangeConcatenation
  <2> QED
    BY <2>5, <2>6, <2>7, <2>8
<1> QED
  BY <1>2, <1>3, <1>4, RangeOfSeq

LEMMA ItemTypes ==
    ASSUME TypeOK
    PROVE  Asked \subseteq Request /\ Answered \subseteq Answer
<1>1. \A c \in Client : Range(responses[c]) \subseteq Answer
  BY QueueTypes, RangeOfSeq
<1>2. Range(requests) \subseteq Request /\ Range(mailbox) \subseteq Request /\ Range(Sending) \subseteq Answer
  BY QueueTypes, RangeOfSeq
<1> QED
  BY <1>1, <1>2 DEF Asked, Answered

\* What is counted is there, and what is there is counted.
LEMMA TotalIsNat ==
    ASSUME TypeOK, NEW P
    PROVE  /\ Total(P) \in Nat /\ CountAnswers(P) \in Nat
           /\ Count(P, requests) \in Nat /\ Count(P, mailbox) \in Nat /\ Count(P, Sending) \in Nat
           /\ \A c \in Client : Count(P, responses[c]) \in Nat
           /\ \A r \in Asked \cup Answered : r \in P => Total(P) > 0
<1>1. /\ Count(P, requests) \in Nat /\ Count(P, mailbox) \in Nat /\ Count(P, Sending) \in Nat
      /\ \A c \in Client : Count(P, responses[c]) \in Nat
  BY QueueTypes, CountIsNat
<1>2. /\ Count(P, responses["Reader"]) \in Nat /\ Count(P, responses["State"]) \in Nat
      /\ Count(P, responses["Diagnostic"]) \in Nat /\ Count(P, responses["Library"]) \in Nat
  BY <1>1 DEF Client
<1>3. Total(P) \in Nat /\ CountAnswers(P) \in Nat
  BY <1>1, <1>2 DEF Total, CountAnswers
<1>4. ASSUME Total(P) = 0, NEW r \in Asked \cup Answered, r \in P
      PROVE  FALSE
  <2>1. /\ Count(P, requests) = 0 /\ Count(P, mailbox) = 0 /\ Count(P, Sending) = 0
        /\ Count(P, responses["Reader"]) = 0 /\ Count(P, responses["State"]) = 0
        /\ Count(P, responses["Diagnostic"]) = 0 /\ Count(P, responses["Library"]) = 0
    <3> DEFINE a1 == Count(P, requests)
               a2 == Count(P, mailbox)
               a3 == Count(P, Sending)
               b1 == Count(P, responses["Reader"])
               b2 == Count(P, responses["State"])
               b3 == Count(P, responses["Diagnostic"])
               b4 == Count(P, responses["Library"])
    <3>1. a1 + a2 + a3 + (b1 + b2 + b3 + b4) = 0
      BY <1>4 DEF Total, CountAnswers
    <3>2. a1 \in Nat /\ a2 \in Nat /\ a3 \in Nat /\ b1 \in Nat /\ b2 \in Nat /\ b3 \in Nat /\ b4 \in Nat
      BY <1>1, <1>2
    <3> HIDE DEF a1, a2, a3, b1, b2, b3, b4
    <3>3. a1 = 0 /\ a2 = 0 /\ a3 = 0 /\ b1 = 0 /\ b2 = 0 /\ b3 = 0 /\ b4 = 0
      BY <3>1, <3>2
    <3> QED
      BY <3>3 DEF a1, a2, a3, b1, b2, b3, b4
  <2>2. \A c \in Client : Count(P, responses[c]) = 0
    BY <2>1 DEF Client
  <2>3. ASSUME NEW S, NEW s \in Seq(S), Count(P, s) = 0, r \in Range(s) PROVE FALSE
    <3>1. \A i \in 1 .. Len(s) : s[i] \notin P
      BY <2>3, CountIsNat
    <3>2. PICK i \in 1 .. Len(s) : r = s[i]
      BY <2>3, RangeEquality
    <3> QED
      BY <1>4, <3>1, <3>2
  <2>4. r \notin Asked
    BY <2>1, <2>3, QueueTypes DEF Asked
  <2>5. r \notin Range(Sending)
    BY <2>1, <2>3, QueueTypes
  <2>6. \A c \in Client : r \notin Range(responses[c])
    BY <2>2, <2>3, QueueTypes
  <2> QED
    BY <1>4, <2>4, <2>5, <2>6 DEF Answered
<1> QED
  BY <1>1, <1>3, <1>4

\* One of the four channels changes.
LEMMA CountAnswersChange ==
    ASSUME TypeOK, NEW P, NEW k \in Client, NEW d \in Int,
           \A c \in Client : Count(P, responses'[c]) =
                IF c = k THEN Count(P, responses[c]) + d ELSE Count(P, responses[c])
    PROVE  CountAnswers(P)' = CountAnswers(P) + d
<1>1. /\ Count(P, responses["Reader"]) \in Nat /\ Count(P, responses["State"]) \in Nat
      /\ Count(P, responses["Diagnostic"]) \in Nat /\ Count(P, responses["Library"]) \in Nat
  BY TotalIsNat DEF Client
<1>2. \A c \in {"Reader", "State", "Diagnostic", "Library"} : Count(P, responses'[c]) =
                IF c = k THEN Count(P, responses[c]) + d ELSE Count(P, responses[c])
  BY DEF Client
<1>3. k \in {"Reader", "State", "Diagnostic", "Library"}
  BY DEF Client
<1> QED
  BY <1>1, <1>2, <1>3 DEF CountAnswers

LEMMA OfContains ==
    ASSUME NEW t, NEW K, NEW r \in Request \cup Answer
    PROVE  r \in Of(t, K) <=> r.task = t /\ r.kind \in K
BY DEF Of

\* What a task sends is asked, and counted.
LEMMA SendEffect ==
    ASSUME TypeOK, NEW t \in Task, NEW client \in Client, NEW kind \in Kind,
           NEW lends \in BOOLEAN, NEW chunk \in Nat,
           Send(t, client, kind, lends, chunk)
    PROVE  \E r \in Request :
             /\ r.task = t /\ r.client = client /\ r.kind = kind /\ r.chunk = chunk
             /\ r.id = IF kind \in {"write", "commit", "abort"} THEN known[t] ELSE NoUpload
             /\ r.lease \in holds[t] \cup {NoLease}
             /\ holds' = [holds EXCEPT ![t] = @ \ {r.lease}]
             /\ requests' = Append(requests, r)
             /\ Asked' = Asked \cup {r} /\ Answered' = Answered
             /\ \A P : Total(P)' = Total(P) + (IF r \in P THEN 1 ELSE 0)
<1> DEFINE lease == IF lends THEN CHOOSE b \in holds[t] : TRUE ELSE NoLease
           id == IF kind \in {"write", "commit", "abort"} THEN known[t] ELSE NoUpload
           r == [task |-> t, client |-> client, kind |-> kind, lease |-> lease, id |-> id,
                 chunk |-> chunk]
<1>1. lease \in holds[t] \cup {NoLease} /\ lease \in Lease \cup {NoLease}
  BY DEF Send, TypeOK
<1>2. id \in Nat
  BY DEF TypeOK, NoUpload
<1>3. requests' = Append(requests, r) /\ holds' = [holds EXCEPT ![t] = @ \ {lease}]
      /\ UNCHANGED <<mailbox, pc, answer, responses>>
  BY DEF Send
<1> HIDE DEF lease, id
<1>4. r \in Request
  BY <1>1, <1>2 DEF Request
<1>5. /\ r.task = t /\ r.client = client /\ r.kind = kind /\ r.chunk = chunk
      /\ r.id = id /\ r.lease = lease
  OBVIOUS
<1> HIDE DEF r
<1>6. Sending' = Sending /\ Answered' = Answered
  BY <1>3 DEF Sending, Answered
<1>7. Asked' = Asked \cup {r}
  <2>1. Range(Append(requests, r)) = Range(requests) \cup {r}
    BY <1>4, QueueTypes, RangeChanges
  <2> QED
    BY <1>3, <2>1 DEF Asked
<1>8. ASSUME NEW P PROVE Total(P)' = Total(P) + (IF r \in P THEN 1 ELSE 0)
  <2>1. Count(P, requests)' = Count(P, requests) + (IF r \in P THEN 1 ELSE 0)
    BY <1>3, <1>4, QueueTypes, CountAppend
  <2>2. /\ Count(P, mailbox)' = Count(P, mailbox) /\ Count(P, Sending)' = Count(P, Sending)
        /\ CountAnswers(P)' = CountAnswers(P)
    BY <1>3, <1>6 DEF CountAnswers
  <2>3. /\ Count(P, requests) \in Nat /\ Count(P, mailbox) \in Nat /\ Count(P, Sending) \in Nat
        /\ CountAnswers(P) \in Nat
    BY TotalIsNat
  <2> QED
    BY <2>1, <2>2, <2>3 DEF Total
<1> WITNESS r \in Request
<1> QED
  BY <1>1, <1>3, <1>4, <1>5, <1>6, <1>7, <1>8 DEF id

\* An answer is like its request, but for the outcome and the id.
LEMMA PerformAnswers ==
    ASSUME TypeOK, NEW r \in Request, Perform(r)
    PROVE  /\ answer' \in Answer
           /\ answer'.task = r.task /\ answer'.client = r.client /\ answer'.kind = r.kind
           /\ answer'.lease = r.lease
<1>1. \A o, i : AnswerWith(r, o, i) => /\ answer'.task = r.task /\ answer'.client = r.client
                                     /\ answer'.kind = r.kind /\ answer'.lease = r.lease
  BY DEF AnswerWith
<1>2. \E o, i : AnswerWith(r, o, i)
  BY DEF Perform, Access, BeginUpload, WriteUpload, CommitUpload, AbortUpload
<1> QED
  BY <1>1, <1>2, PerformType

\* The owner turns one request into its answer.
LEMMA ExecuteEffect ==
    ASSUME TypeOK, ExecuteImmediate \/ (ExecuteNext /\ Eligible # {})
    PROVE  \E r \in Request :
             /\ Perform(r)
             /\ ExecuteNext => r = mailbox[NextIndex]
             /\ r \in Asked
             /\ Asked' \subseteq Asked /\ Asked \subseteq Asked' \cup {r}
             /\ Answered' = Answered \cup {answer'}
             /\ \A t, K : Total(Of(t, K))' = Total(Of(t, K))
<1> USE QueueTypes
<1>1. pc \in {"overflow", "run"} /\ pc' \in {"routeOverflow", "route"} /\ UNCHANGED responses
  BY DEF ExecuteImmediate, ExecuteNext
<1>2. Sending = << >> /\ Sending' = <<answer'>>
  BY <1>1 DEF Sending
<1>3. Range(Sending) = {} /\ Range(Sending)' = {answer'}
  BY <1>2 DEF Range
<1>4. Answered' = Answered \cup {answer'}
  BY <1>1, <1>3 DEF Answered
<1>5. \A P : CountAnswers(P)' = CountAnswers(P)
  BY <1>1 DEF CountAnswers
<1>6. ASSUME NEW r \in Request, Perform(r), NEW t, NEW K
      PROVE  /\ Count(Of(t, K), Sending) = 0
             /\ Count(Of(t, K), Sending)' = IF r \in Of(t, K) THEN 1 ELSE 0
  <2>1. answer' \in Answer /\ answer'.task = r.task /\ answer'.kind = r.kind
    BY <1>6, PerformAnswers
  <2>2. answer' \in Of(t, K) <=> r \in Of(t, K)
    BY <2>1, OfContains
  <2> QED
    BY <1>2, <2>2, CountFew
<1>7. CASE ExecuteImmediate
  <2> DEFINE r == Head(requests)
  <2>1. Perform(r) /\ requests # << >> /\ requests' = Tail(requests) /\ mailbox' = mailbox
    BY <1>7 DEF ExecuteImmediate
  <2>2. r \in Request /\ r \in Range(requests) /\ Range(requests) = Range(requests') \cup {r}
    BY <2>1, RangeChanges, HeadTailProperties
  <2>3. ASSUME NEW t, NEW K PROVE Total(Of(t, K))' = Total(Of(t, K))
    <3> DEFINE P == Of(t, K)
    <3>1. Count(P, requests) = (IF r \in P THEN 1 ELSE 0) + Count(P, requests)'
      BY <2>1, CountTail
    <3>2. Count(P, requests)' \in Nat
      BY <2>1, HeadTailProperties, CountIsNat
    <3>3. Count(P, mailbox)' = Count(P, mailbox)
      BY <2>1
    <3>4. Count(P, Sending) = 0 /\ Count(P, Sending)' = IF r \in P THEN 1 ELSE 0
      BY <1>6, <2>1, <2>2
    <3>5. CountAnswers(P) \in Nat /\ Count(P, mailbox) \in Nat
      BY TotalIsNat
    <3> HIDE DEF r, P
    <3>6. Total(P)' = Total(P)
      BY <3>1, <3>2, <3>3, <3>4, <3>5, <1>5 DEF Total
    <3> QED
      BY <3>6 DEF P
  <2>4. ExecuteNext => FALSE
    BY <1>7 DEF ExecuteImmediate, ExecuteNext
  <2>5. /\ Asked' \subseteq Asked /\ Asked \subseteq Asked' \cup {r} /\ r \in Asked
    BY <2>1, <2>2 DEF Asked
  <2> HIDE DEF r
  <2> QED
    BY <1>4, <2>1, <2>2, <2>3, <2>4, <2>5
<1>8. CASE ExecuteNext /\ Eligible # {}
  <2> DEFINE r == mailbox[NextIndex]
  <2>1. Perform(r) /\ requests' = requests /\ mailbox' = RemoveAt(mailbox, NextIndex)
    BY <1>8 DEF ExecuteNext
  <2>2. NextIndex \in 1 .. Len(mailbox) /\ r \in Request /\ mailbox' \in Seq(Request)
    BY <1>8, <2>1, NextIndexExists, MailboxEntryType
  <2>3. r \in Range(mailbox) /\ Range(mailbox) = Range(mailbox') \cup {r}
    BY <2>1, <2>2, RangeChanges
  <2>4. ASSUME NEW t, NEW K PROVE Total(Of(t, K))' = Total(Of(t, K))
    <3> DEFINE P == Of(t, K)
    <3>1. Count(P, mailbox) = Count(P, mailbox)' + (IF r \in P THEN 1 ELSE 0)
      BY <2>1, <2>2, CountRemove
    <3>2. Count(P, mailbox)' \in Nat
      BY <2>2, CountIsNat
    <3>3. Count(P, requests)' = Count(P, requests)
      BY <2>1
    <3>4. Count(P, Sending) = 0 /\ Count(P, Sending)' = IF r \in P THEN 1 ELSE 0
      BY <1>6, <2>1, <2>2
    <3>5. CountAnswers(P) \in Nat /\ Count(P, requests) \in Nat
      BY TotalIsNat
    <3> HIDE DEF r, P
    <3>6. Total(P)' = Total(P)
      BY <3>1, <3>2, <3>3, <3>4, <3>5, <1>5 DEF Total
    <3> QED
      BY <3>6 DEF P
  <2> HIDE DEF r
  <2>5. r = mailbox[NextIndex]
    BY DEF r
  <2>6. /\ Asked' \subseteq Asked /\ Asked \subseteq Asked' \cup {r} /\ r \in Asked
    BY <2>1, <2>3 DEF Asked
  <2> QED
    BY <1>4, <2>1, <2>2, <2>4, <2>5, <2>6
<1> QED
  BY <1>7, <1>8

\* Moving requests to the mailbox, and an answer to its channel, loses nothing.
LEMMA MoveEffect ==
    ASSUME TypeOK, Collect \/ Route
    PROVE  /\ Asked' = Asked /\ Answered' = Answered
           /\ \A P : Total(P)' = Total(P)
<1> USE QueueTypes
<1>1. ASSUME NEW P
      PROVE  /\ Asked' = Asked
             /\ Count(P, requests)' + Count(P, mailbox)' = Count(P, requests) + Count(P, mailbox)
             /\ Count(P, requests)' \in Nat /\ Count(P, mailbox)' \in Nat
  <2>1. Count(P, requests) \in Nat /\ Count(P, mailbox) \in Nat
    BY TotalIsNat
  <2>2. CASE UNCHANGED <<requests, mailbox>>
    BY <2>1, <2>2 DEF Asked
  <2>3. CASE mailbox' = mailbox \o requests /\ requests' = << >>
    <3>1. Count(P, mailbox)' = Count(P, mailbox) + Count(P, requests) /\ Count(P, requests)' = 0
      <4>1. Count(P, mailbox \o requests) = Count(P, mailbox) + Count(P, requests)
        BY CountConcat
      <4>2. Count(P, << >>) = 0
        BY CountFew
      <4> QED
        BY <2>3, <4>1, <4>2
    <3>2. Range(mailbox)' = Range(mailbox) \cup Range(requests)
      BY <2>3, RangeConcatenation
    <3>3. Range(requests)' = {}
      BY <2>3 DEF Range
    <3> QED
      BY <2>1, <3>1, <3>2, <3>3 DEF Asked
  <2>4. CASE /\ pc = "receive" /\ ~(Len(requests) <= Room) /\ Room # 0
             /\ mailbox' = mailbox \o SubSeq(requests, 1, Room)
             /\ requests' = SubSeq(requests, Room + 1, Len(requests))
    <3> DEFINE a == SubSeq(requests, 1, Room)
               b == SubSeq(requests, Room + 1, Len(requests))
    <3>1. Room \in 0 .. Len(requests)
      BY <2>4, ConstantsAssumption, LenProperties DEF Room, TypeOK
    <3>2. /\ a \in Seq(Request) /\ b \in Seq(Request) /\ requests = a \o b
          /\ Count(P, requests) = Count(P, a) + Count(P, b)
      BY <3>1, CountSplit
    <3>3. mailbox' = mailbox \o a /\ requests' = b
      BY <2>4
    <3> HIDE DEF a, b
    <3>4. Count(P, mailbox)' = Count(P, mailbox) + Count(P, a)
      BY <3>2, <3>3, CountConcat
    <3>5. Count(P, a) \in Nat /\ Count(P, b) \in Nat
      BY <3>2, CountIsNat
    <3>6. Range(mailbox)' = Range(mailbox) \cup Range(a) /\ Range(requests) = Range(a) \cup Range(b)
      BY <3>2, <3>3, RangeConcatenation
    <3> QED
      BY <2>1, <3>2, <3>3, <3>4, <3>5, <3>6 DEF Asked
  <2>5. Room \in Nat
    BY ConstantsAssumption, LenProperties DEF Room, TypeOK
  <2>6. CASE Collect
    <3>1. Len(requests) \in Nat
      BY LenProperties
    <3>2. CASE Room = 0
      BY <2>2, <2>6, <3>2 DEF Collect
    <3>3. CASE Len(requests) <= Room /\ Room > 0
      <4>1. mailbox' = mailbox \o requests /\ requests' = << >>
        BY <2>6, <3>3 DEF Collect
      <4> QED
        BY <2>3, <4>1
    <3>4. CASE ~(Len(requests) <= Room) /\ Room # 0
      <4>1. /\ pc = "receive" /\ mailbox' = mailbox \o SubSeq(requests, 1, Room)
            /\ requests' = SubSeq(requests, Room + 1, Len(requests))
        BY <2>6, <3>4 DEF Collect
      <4> QED
        BY <2>4, <3>4, <4>1
    <3> QED
      BY <2>5, <3>2, <3>3, <3>4
  <2>7. CASE Route
    BY <2>2, <2>3, <2>7 DEF Route
  <2> QED
    BY <2>6, <2>7
<1>2. CASE Collect
  <2>1. Sending' = Sending /\ UNCHANGED responses
    BY <1>2 DEF Collect, Sending
  <2>2. Answered' = Answered /\ \A P : CountAnswers(P)' = CountAnswers(P)
    BY <2>1 DEF Answered, CountAnswers
  <2>3. ASSUME NEW P PROVE Total(P)' = Total(P)
    <3>1. Count(P, Sending)' = Count(P, Sending)
      BY <2>1
    <3> QED
      BY <1>1, <2>2, <3>1, TotalIsNat DEF Total
  <2> QED
    BY <1>1, <2>2, <2>3
<1>3. CASE Route
  <2>1. /\ pc' \notin {"route", "routeOverflow"} /\ Sending = <<answer>> /\ answer \in Answer
        /\ answer.client \in Client
        /\ responses' = [responses EXCEPT ![answer.client] = Append(responses[answer.client], answer)]
    BY <1>3 DEF Route, Sending, TypeOK, Answer
  <2>2. Sending' = << >>
    BY <2>1 DEF Sending
  <2>3. \A c \in Client : responses'[c] = IF c = answer.client THEN Append(responses[c], answer)
                                          ELSE responses[c]
    BY <2>1 DEF TypeOK
  <2>4. Answered' = Answered
    <3>1. Range(Sending) = {answer} /\ Range(Sending)' = {}
      BY <2>1, <2>2 DEF Range
    <3>2. ASSUME NEW c \in Client
          PROVE  Range(responses'[c]) = IF c = answer.client
                    THEN Range(responses[c]) \cup {answer} ELSE Range(responses[c])
      <4>1. Range(Append(responses[c], answer)) = Range(responses[c]) \cup {answer}
        BY <2>1, RangeChanges
      <4> QED
        BY <2>3, <4>1
    <3>3. ASSUME NEW x PROVE x \in Answered' <=> x \in Answered
      <4>1. x \in Answered' <=> \E c \in Client : x \in Range(responses'[c])
        BY <3>1 DEF Answered
      <4>2. x \in Answered <=> x = answer \/ \E c \in Client : x \in Range(responses[c])
        BY <3>1 DEF Answered
      <4>3. answer \in Range(responses'[answer.client]) /\ answer.client \in Client
        <5>1. Range(Append(responses[answer.client], answer))
                 = Range(responses[answer.client]) \cup {answer}
          BY <2>1, RangeChanges
        <5>2. responses'[answer.client] = Append(responses[answer.client], answer)
          BY <2>1, <2>3
        <5> QED
          BY <2>1, <5>1, <5>2
      <4>4. \A c \in Client : x \in Range(responses[c]) => x \in Range(responses'[c])
        BY <3>2
      <4>5. \A c \in Client : x \in Range(responses'[c]) => x = answer \/ x \in Range(responses[c])
        BY <3>2
      <4> QED
        BY <4>1, <4>2, <4>3, <4>4, <4>5
    <3> QED
      BY <3>3
  <2>5. ASSUME NEW P PROVE Total(P)' = Total(P)
    <3> DEFINE d == IF answer \in P THEN 1 ELSE 0
    <3>1. \A c \in Client : Count(P, responses'[c]) =
                IF c = answer.client THEN Count(P, responses[c]) + d ELSE Count(P, responses[c])
      BY <2>1, <2>3, CountAppend
    <3>2. Count(P, Sending) = d /\ Count(P, Sending)' = 0
      BY <2>1, <2>2, CountFew
    <3>3. d \in Nat /\ d \in Int
      OBVIOUS
    <3> HIDE DEF d
    <3>4. CountAnswers(P)' = CountAnswers(P) + d
      BY <2>1, <3>1, <3>3, CountAnswersChange
    <3>5. CountAnswers(P) \in Nat /\ Count(P, requests) \in Nat /\ Count(P, mailbox) \in Nat
      BY TotalIsNat
    <3>6. /\ Count(P, requests)' + Count(P, mailbox)' = Count(P, requests) + Count(P, mailbox)
          /\ Count(P, requests)' \in Nat /\ Count(P, mailbox)' \in Nat
      BY <1>1
    <3>7. Count(P, requests)' + Count(P, mailbox)' + Count(P, Sending)' + CountAnswers(P)'
             = Count(P, requests) + Count(P, mailbox) + Count(P, Sending) + CountAnswers(P)
      <4>1. PICK x \in Nat : x = Count(P, requests) + Count(P, mailbox)
        BY <3>5
      <4>2. PICK z \in Nat : z = CountAnswers(P)
        BY <3>5
      <4>3. x + 0 + (z + d) = x + d + z
        BY <3>3
      <4>4. Count(P, requests)' + Count(P, mailbox)' = x
        BY <3>6, <4>1
      <4> QED
        BY <3>2, <3>4, <4>1, <4>2, <4>3, <4>4
    <3> QED
      BY <3>7 DEF Total
  <2> QED
    BY <1>1, <2>4, <2>5
<1> QED
  BY <1>2, <1>3

\* What a task receives is answered no more.
LEMMA ReceiveEffect ==
    ASSUME TypeOK, NEW t \in Task, Receive(t)
    PROVE  \E r \in Answer :
             /\ r = Head(responses[awaits[t]]) /\ r \in Range(responses[awaits[t]])
             /\ r \in Answered
             /\ Answered' \subseteq Answered /\ Answered \subseteq Answered' \cup {r}
             /\ Asked' = Asked
             /\ \A P : Total(P)' \in Int /\ Total(P) = Total(P)' + (IF r \in P THEN 1 ELSE 0)
<1> USE QueueTypes
<1> DEFINE w == awaits[t]
           r == Head(responses[w])
<1>1. w \in Client /\ responses[w] # << >> /\ responses' = [responses EXCEPT ![w] = Tail(responses[w])]
      /\ UNCHANGED <<requests, mailbox, pc, answer>>
  BY DEF Receive, TypeOK
<1>2. Sending' = Sending /\ Asked' = Asked
  BY <1>1 DEF Sending, Asked
<1>3. \A c \in Client : responses'[c] = IF c = w THEN Tail(responses[c]) ELSE responses[c]
  BY <1>1 DEF TypeOK
<1>4. r \in Answer /\ r \in Range(responses[w]) /\ Range(responses[w]) = Range(Tail(responses[w])) \cup {r}
  BY <1>1, RangeChanges, HeadTailProperties
<1> HIDE DEF r
<1>5. /\ r \in Answered
      /\ Answered' \subseteq Answered /\ Answered \subseteq Answered' \cup {r}
  <2>1. \A c \in Client : /\ Range(responses'[c]) \subseteq Range(responses[c])
                          /\ Range(responses[c]) \subseteq Range(responses'[c]) \cup {r}
    BY <1>3, <1>4
  <2> HIDE DEF w
  <2>2. ASSUME NEW x PROVE x \in Answered <=> x \in Range(Sending)
                                                \/ \E c \in Client : x \in Range(responses[c])
    BY DEF Answered
  <2>3. ASSUME NEW x PROVE x \in Answered' <=> x \in Range(Sending)
                                                \/ \E c \in Client : x \in Range(responses'[c])
    BY <1>2 DEF Answered
  <2> QED
    BY <1>1, <1>4, <2>1, <2>2, <2>3
<1>6. ASSUME NEW P PROVE Total(P)' \in Int /\ Total(P) = Total(P)' + (IF r \in P THEN 1 ELSE 0)
  <2> DEFINE d == IF r \in P THEN 0 - 1 ELSE 0
  <2>1. Count(P, responses[w]) = (IF r \in P THEN 1 ELSE 0) + Count(P, Tail(responses[w]))
    BY <1>1, CountTail DEF r
  <2>2. Count(P, Tail(responses[w])) \in Nat
    BY <1>1, HeadTailProperties, CountIsNat
  <2> HIDE DEF w
  <2>3. \A c \in Client : Count(P, responses'[c]) =
                IF c = w THEN Count(P, responses[c]) + d ELSE Count(P, responses[c])
    BY <1>1, <1>3, <2>1, <2>2
  <2>4. d \in Int
    OBVIOUS
  <2>5. CountAnswers(P)' = CountAnswers(P) + d
    <3> HIDE DEF d
    <3> QED
      BY <1>1, <2>3, <2>4, CountAnswersChange
  <2>6. /\ CountAnswers(P) \in Nat /\ Count(P, requests) \in Nat /\ Count(P, mailbox) \in Nat
        /\ Count(P, Sending) \in Nat
    BY TotalIsNat
  <2>7. Count(P, requests)' = Count(P, requests) /\ Count(P, mailbox)' = Count(P, mailbox)
        /\ Count(P, Sending)' = Count(P, Sending)
    BY <1>1, <1>2
  <2>8. PICK x \in Nat : x = Count(P, requests) + Count(P, mailbox) + Count(P, Sending)
    BY <2>6
  <2>9. Total(P) = x + CountAnswers(P) /\ Total(P)' = x + CountAnswers(P)'
    BY <2>7, <2>8 DEF Total
  <2>10. PICK y \in Int, z \in Int : /\ y = CountAnswers(P) /\ z = CountAnswers(P)'
                                      /\ z = y + d
    BY <2>4, <2>5, <2>6
  <2>11. Total(P) = x + y /\ Total(P)' = x + z
    BY <2>9, <2>10
  <2>12. x + z \in Int /\ x + y = x + z + (IF r \in P THEN 1 ELSE 0)
    <3>1. CASE r \in P
      <4>1. d = 0 - 1
        BY <3>1
      <4> HIDE DEF d
      <4>2. z = y - 1 /\ x \in Int
        BY <2>8, <2>10, <4>1
      <4>3. x + z \in Int /\ x + y = x + z + 1
        BY <2>10, <4>2
      <4> QED
        BY <3>1, <4>3
    <3>2. CASE r \notin P
      <4>1. d = 0
        BY <3>2
      <4> HIDE DEF d
      <4>2. x + z \in Int /\ x + y = x + z + 0
        BY <2>8, <2>10, <4>1
      <4> QED
        BY <3>2, <4>2
    <3> QED
      BY <3>1, <3>2
  <2> QED
    BY <2>11, <2>12
<1>7. r = Head(responses[w])
  BY DEF r
<1> QED
  BY <1>2, <1>4, <1>5, <1>6, <1>7

(***************************************************************************)
(* The traffic settles.                                                    *)
(***************************************************************************)
\* What a task has in flight is its own, in channels of its own, and with what it has at
\* hand holds every buffer it owns.
SettleInv ==
    /\ \A t \in Task : Total(Of(t, Kind)) = flight[t]
    /\ \A r \in Asked \cup Answered : /\ r.client \in ClientsOf(r.task)
                                      /\ r.lease \in Buffers[r.task] \cup {NoLease}
    /\ \A c \in Client : \A a \in Range(responses[c]) : a.client = c
    /\ \A t \in Task : /\ awaits[t] \in ClientsOf(t)
                       /\ holds[t] \subseteq Buffers[t]
                       /\ \A b \in Buffers[t] :
                            b \in holds[t] \/ \E r \in Asked \cup Answered : r.task = t /\ r.lease = b

LEMMA TaskOfAnItem ==
    ASSUME TypeOK, NEW r \in Asked \cup Answered
    PROVE  /\ r \in Request \cup Answer /\ r.task \in Task /\ r.kind \in Kind /\ r.client \in Client
           /\ \A K : r.kind \in K => Total(Of(r.task, K)) > 0
<1>1. r \in Request \cup Answer
  BY ItemTypes
<1>2. r.task \in Task /\ r.kind \in Kind /\ r.client \in Client
  BY <1>1 DEF Request, Answer
<1>3. ASSUME NEW K, r.kind \in K PROVE Total(Of(r.task, K)) > 0
  BY <1>1, <1>3, OfContains, TotalIsNat
<1> QED
  BY <1>1, <1>2, <1>3

LEMMA SendSettles ==
    ASSUME TypeOK, SettleInv, NEW t \in Task, NEW client \in ClientsOf(t), client \in Client,
           NEW kind \in Kind, NEW lends \in BOOLEAN, NEW chunk \in Nat,
           Send(t, client, kind, lends, chunk)
    PROVE  SettleInv'
<1>1. PICK r \in Request :
             /\ r.task = t /\ r.client = client /\ r.kind = kind
             /\ r.lease \in holds[t] \cup {NoLease}
             /\ holds' = [holds EXCEPT ![t] = @ \ {r.lease}]
             /\ Asked' = Asked \cup {r} /\ Answered' = Answered
             /\ \A P : Total(P)' = Total(P) + (IF r \in P THEN 1 ELSE 0)
  BY SendEffect
<1>2. UNCHANGED responses /\ flight' = [flight EXCEPT ![t] = @ + 1] /\ awaits' = [awaits EXCEPT ![t] = client]
  BY DEF Send
<1>3. ASSUME NEW u \in Task PROVE Total(Of(u, Kind))' = flight'[u]
  <2>1. r \in Of(u, Kind) <=> u = t
    BY <1>1, OfContains
  <2>2. Total(Of(u, Kind))' = Total(Of(u, Kind)) + (IF r \in Of(u, Kind) THEN 1 ELSE 0)
    BY <1>1
  <2>3. Total(Of(u, Kind)) = flight[u] /\ flight[u] \in Nat
    BY DEF SettleInv, TypeOK
  <2> QED
    BY <1>2, <2>1, <2>2, <2>3 DEF TypeOK
<1>4. ASSUME NEW q \in Asked' \cup Answered'
      PROVE  q.client \in ClientsOf(q.task) /\ q.lease \in Buffers[q.task] \cup {NoLease}
  <2>1. CASE q = r
    BY <1>1, <2>1 DEF SettleInv
  <2>2. CASE q \in Asked \cup Answered
    BY <2>2 DEF SettleInv
  <2> QED
    BY <1>1, <2>1, <2>2
<1>5. ASSUME NEW u \in Task
      PROVE  /\ awaits'[u] \in ClientsOf(u) /\ holds'[u] \subseteq Buffers[u]
             /\ \A b \in Buffers[u] :
                    b \in holds'[u] \/ \E q \in Asked' \cup Answered' : q.task = u /\ q.lease = b
  <2>1. awaits'[u] \in ClientsOf(u)
    BY <1>2 DEF SettleInv, TypeOK
  <2>2. holds'[u] = IF u = t THEN holds[u] \ {r.lease} ELSE holds[u]
    BY <1>1 DEF TypeOK
  <2>3. ASSUME NEW b \in Buffers[u], b \notin holds'[u]
        PROVE  \E q \in Asked' \cup Answered' : q.task = u /\ q.lease = b
    <3>1. CASE u = t /\ b = r.lease
      BY <1>1, <3>1
    <3>2. CASE ~(u = t /\ b = r.lease)
      BY <1>1, <2>2, <2>3, <3>2 DEF SettleInv
    <3> QED
      BY <3>1, <3>2
  <2> QED
    BY <2>1, <2>2, <2>3 DEF SettleInv
<1>6. \A c \in Client : \A a \in Range(responses'[c]) : a.client = c
  BY <1>2 DEF SettleInv
<1> QED
  BY <1>3, <1>4, <1>5, <1>6 DEF SettleInv

LEMMA ExecuteSettles ==
    ASSUME TypeOK, SettleInv, ExecuteImmediate \/ (ExecuteNext /\ Eligible # {})
    PROVE  SettleInv'
<1>1. PICK r \in Request :
             /\ Perform(r) /\ r \in Asked
             /\ Asked' \subseteq Asked /\ Asked \subseteq Asked' \cup {r}
             /\ Answered' = Answered \cup {answer'}
             /\ \A t, K : Total(Of(t, K))' = Total(Of(t, K))
  BY ExecuteEffect
<1>2. UNCHANGED <<responses, flight, awaits, holds>>
  BY DEF ExecuteImmediate, ExecuteNext, tasks
<1>3. answer'.task = r.task /\ answer'.client = r.client /\ answer'.lease = r.lease
  BY <1>1, PerformAnswers
<1>4. ASSUME NEW q \in Asked' \cup Answered'
      PROVE  q.client \in ClientsOf(q.task) /\ q.lease \in Buffers[q.task] \cup {NoLease}
  <2>1. CASE q = answer'
    BY <1>1, <1>3, <2>1 DEF SettleInv
  <2>2. CASE q \in Asked \cup Answered
    BY <2>2 DEF SettleInv
  <2> QED
    BY <1>1, <2>1, <2>2
<1>5. ASSUME NEW u \in Task, NEW b \in Buffers[u], b \notin holds[u]
      PROVE  \E q \in Asked' \cup Answered' : q.task = u /\ q.lease = b
  <2>1. PICK q \in Asked \cup Answered : q.task = u /\ q.lease = b
    BY <1>5 DEF SettleInv
  <2>2. CASE q = r
    BY <1>1, <1>3, <2>1, <2>2
  <2>3. CASE q # r
    BY <1>1, <2>1, <2>3
  <2> QED
    BY <2>2, <2>3
<1>6. \A t \in Task : Total(Of(t, Kind))' = flight'[t]
  BY <1>1, <1>2 DEF SettleInv
<1>7. \A c \in Client : \A a \in Range(responses'[c]) : a.client = c
  BY <1>2 DEF SettleInv
<1>8. \A u \in Task : awaits'[u] \in ClientsOf(u) /\ holds'[u] \subseteq Buffers[u]
  BY <1>2 DEF SettleInv
<1> QED
  BY <1>2, <1>4, <1>5, <1>6, <1>7, <1>8 DEF SettleInv

LEMMA MoveSettles ==
    ASSUME TypeOK, SettleInv, Collect \/ Route
    PROVE  SettleInv'
<1>1. Asked' = Asked /\ Answered' = Answered /\ \A P : Total(P)' = Total(P)
  BY MoveEffect
<1>2. UNCHANGED <<flight, awaits, holds>>
  BY DEF Collect, Route, tasks
<1>3. ASSUME NEW c \in Client, NEW a \in Range(responses'[c]) PROVE a.client = c
  <2>1. CASE Collect
    BY <1>3, <2>1 DEF Collect, SettleInv
  <2>2. CASE Route
    <3>1. /\ answer \in Answer
          /\ responses' = [responses EXCEPT ![answer.client] = Append(responses[answer.client], answer)]
      BY <2>2 DEF Route, TypeOK
    <3>2. Range(Append(responses[c], answer)) = Range(responses[c]) \cup {answer}
      BY <3>1, QueueTypes, RangeChanges
    <3>3. responses'[c] = IF c = answer.client THEN Append(responses[c], answer) ELSE responses[c]
      BY <3>1 DEF TypeOK
    <3> QED
      BY <1>3, <3>2, <3>3 DEF SettleInv
  <2> QED
    BY <2>1, <2>2
<1> QED
  BY <1>1, <1>2, <1>3 DEF SettleInv

\* The answer that a task receives is one to its own request.
LEMMA ReceivesItsOwn ==
    ASSUME NoSharedChannel, TypeOK, SettleInv, NEW t \in Task, Receive(t)
    PROVE  Head(responses[awaits[t]]).task = t
<1>1. PICK r \in Answer : /\ r = Head(responses[awaits[t]]) /\ r \in Range(responses[awaits[t]])
                          /\ r \in Answered
  BY ReceiveEffect
<1>2. r.client = awaits[t] /\ awaits[t] \in ClientsOf(t) /\ r.client \in ClientsOf(r.task)
  BY <1>1 DEF SettleInv, TypeOK
<1>3. r.task \in Task
  BY DEF Answer
<1> QED
  BY <1>1, <1>2, <1>3 DEF NoSharedChannel

LEMMA ReceiveSettles ==
    ASSUME NoSharedChannel, TypeOK, SettleInv, NEW t \in Task, Receive(t)
    PROVE  SettleInv'
<1>1. PICK r \in Answer :
             /\ r = Head(responses[awaits[t]]) /\ r \in Answered
             /\ Answered' \subseteq Answered /\ Answered \subseteq Answered' \cup {r}
             /\ Asked' = Asked
             /\ \A P : Total(P)' \in Int /\ Total(P) = Total(P)' + (IF r \in P THEN 1 ELSE 0)
  BY ReceiveEffect
<1>2. r.task = t /\ r.kind \in Kind
  BY <1>1, ReceivesItsOwn DEF Answer
<1>3. /\ holds' = [holds EXCEPT ![t] = @ \cup ({r.lease} \ {NoLease})]
      /\ flight' = [flight EXCEPT ![t] = @ - 1] /\ flight[t] > 0
      /\ awaits' = [awaits EXCEPT ![t] = IF flight'[t] = 0 THEN UploadsAs[t] ELSE @]
      /\ awaits[t] \in Client
      /\ responses' = [responses EXCEPT ![awaits[t]] = Tail(responses[awaits[t]])]
      /\ responses[awaits[t]] # << >>
  BY <1>1 DEF Receive, TypeOK
<1>4. ASSUME NEW u \in Task PROVE Total(Of(u, Kind))' = flight'[u]
  <2>1. r \in Of(u, Kind) <=> u = t
    BY <1>2, OfContains
  <2>2. Total(Of(u, Kind)) = Total(Of(u, Kind))' + (IF r \in Of(u, Kind) THEN 1 ELSE 0)
    BY <1>1
  <2>3. Total(Of(u, Kind)) = flight[u] /\ flight[u] \in Nat
    BY DEF SettleInv, TypeOK
  <2>4. Total(Of(u, Kind))' \in Int
    BY <1>1
  <2>5. flight'[u] = IF u = t THEN flight[u] - 1 ELSE flight[u]
    BY <1>3 DEF TypeOK
  <2> QED
    BY <2>1, <2>2, <2>3, <2>4, <2>5
<1>5. \A q \in Asked' \cup Answered' : q.client \in ClientsOf(q.task) /\ q.lease \in Buffers[q.task] \cup {NoLease}
  BY <1>1 DEF SettleInv
<1>6. ASSUME NEW c \in Client, NEW a \in Range(responses'[c]) PROVE a.client = c
  <2>1. responses'[c] = IF c = awaits[t] THEN Tail(responses[c]) ELSE responses[c]
    BY <1>3 DEF TypeOK
  <2>2. c = awaits[t] => Range(Tail(responses[c])) \subseteq Range(responses[c])
    BY <1>3, QueueTypes, RangeChanges
  <2> QED
    BY <1>6, <2>1, <2>2 DEF SettleInv
<1>7. ASSUME NEW u \in Task
      PROVE  /\ awaits'[u] \in ClientsOf(u) /\ holds'[u] \subseteq Buffers[u]
             /\ \A b \in Buffers[u] :
                    b \in holds'[u] \/ \E q \in Asked' \cup Answered' : q.task = u /\ q.lease = b
  <2>1. awaits'[u] \in ClientsOf(u)
    BY <1>3 DEF SettleInv, TypeOK, ClientsOf
  <2>2. holds'[u] = IF u = t THEN holds[u] \cup ({r.lease} \ {NoLease}) ELSE holds[u]
    BY <1>3 DEF TypeOK
  <2>3. r.lease \in Buffers[t] \cup {NoLease} /\ NoLease \notin Buffers[u]
    BY <1>1, <1>2, ConstantsAssumption DEF SettleInv
  <2>4. ASSUME NEW b \in Buffers[u], b \notin holds'[u]
        PROVE  \E q \in Asked' \cup Answered' : q.task = u /\ q.lease = b
    <3>1. b \notin holds[u]
      BY <2>2, <2>4
    <3>2. PICK q \in Asked \cup Answered : q.task = u /\ q.lease = b
      BY <3>1 DEF SettleInv
    <3>3. q # r
      BY <1>2, <2>2, <2>3, <2>4, <3>2
    <3> QED
      BY <1>1, <3>2, <3>3
  <2> QED
    BY <2>1, <2>2, <2>3, <2>4 DEF SettleInv
<1> QED
  BY <1>4, <1>5, <1>6, <1>7 DEF SettleInv

LEMMA SettleInvInit == Init => SettleInv
<1> SUFFICES ASSUME Init PROVE SettleInv
  OBVIOUS
<1>1. /\ requests = << >> /\ mailbox = << >> /\ Sending = << >>
      /\ \A c \in Client : responses[c] = << >>
  BY DEF Init, Sending
<1>2. \A P : Total(P) = 0
  <2>1. ASSUME NEW P PROVE Total(P) = 0
    <3>1. /\ Count(P, requests) = 0 /\ Count(P, mailbox) = 0 /\ Count(P, Sending) = 0
          /\ \A c \in Client : Count(P, responses[c]) = 0
      BY <1>1, CountFew
    <3> QED
      BY <3>1 DEF Total, CountAnswers, Client
  <2> QED
    BY <2>1
<1>3. Asked = {} /\ Answered = {} /\ \A c \in Client : Range(responses[c]) = {}
  <2>1. Range(<< >>) = {}
    BY DEF Range
  <2> QED
    BY <1>1, <2>1 DEF Asked, Answered
<1>4. \A t \in Task : flight[t] = 0 /\ holds[t] = Buffers[t] /\ awaits[t] = UploadsAs[t]
  BY DEF Init
<1> QED
  BY <1>2, <1>3, <1>4 DEF SettleInv, ClientsOf

LEMMA ClientTypes == \A t \in Task : UploadsAs[t] \in Client /\ UploadsAs[t] \in ClientsOf(t)
                                     /\ ReadsAs[t] \subseteq ClientsOf(t) /\ ReadsAs[t] \subseteq Client
BY ConstantsAssumption DEF UploadsAs, Task, Client, ClientsOf

\* Every action keeps it: the sends, the moves, the executions and the receipts.
LEMMA SettleInvNext ==
    ASSUME NoSharedChannel, TypeOK, SettleInv, [Next]_vars
    PROVE  SettleInv'
<1>1. ASSUME NEW t \in Task, NEW c \in Client, Read(t, c) PROVE SettleInv'
  <2>1. c \in ClientsOf(t) /\ Send(t, c, "read", TRUE, 0)
    BY <1>1, ClientTypes DEF Read
  <2>2. "read" \in Kind /\ TRUE \in BOOLEAN /\ 0 \in Nat
    BY DEF Kind
  <2> QED
    BY <2>1, <2>2, SendSettles
<1>2. ASSUME NEW lends \in BOOLEAN, Scan(lends) PROVE SettleInv'
  <2>1. Send("refresh", "Library", "scan", lends, 0) /\ "refresh" \in Task
    BY <1>2 DEF Scan, Task
  <2>2. "Library" \in ClientsOf("refresh") /\ "Library" \in Client /\ "scan" \in Kind /\ 0 \in Nat
    BY DEF ClientsOf, UploadsAs, Task, Client, Kind
  <2> QED
    BY <2>1, <2>2, SendSettles
<1>3. ASSUME NEW t \in Task, Begin(t) \/ Commit(t) \/ Abort(t) PROVE SettleInv'
  <2>1. PICK kind \in Kind : Send(t, UploadsAs[t], kind, FALSE, 0)
    BY <1>3 DEF Begin, Commit, Abort, Kind
  <2>2. 0 \in Nat /\ FALSE \in BOOLEAN
    OBVIOUS
  <2> QED
    BY <2>1, <2>2, ClientTypes, SendSettles
<1>4. ASSUME NEW t \in Task, Write(t) PROVE SettleInv'
  <2>1. Send(t, UploadsAs[t], "write", TRUE, sent[t] + 1) /\ sent[t] + 1 \in Nat
    <3>1. sent[t] \in Nat
      BY DEF TypeOK
    <3>2. Send(t, UploadsAs[t], "write", TRUE, sent[t] + 1)
      BY <1>4 DEF Write
    <3>3. sent[t] + 1 \in Nat
      BY <3>1
    <3> QED
      BY <3>2, <3>3
  <2>2. "write" \in Kind /\ TRUE \in BOOLEAN
    BY DEF Kind
  <2> QED
    BY <2>1, <2>2, ClientTypes, SendSettles
<1>5. CASE ExecuteNext /\ Eligible = {}
  <2>1. UNCHANGED <<mailbox, answer, requests, responses, flight, awaits, holds>>
    BY <1>5 DEF ExecuteNext, tasks
  <2>2. Sending' = Sending
    BY <1>5, <2>1 DEF ExecuteNext, Sending
  <2>3. Asked' = Asked /\ Answered' = Answered
    BY <2>1, <2>2 DEF Asked, Answered
  <2>4. \A P : Total(P)' = Total(P)
    BY <2>1, <2>2 DEF Total, CountAnswers
  <2> QED
    BY <2>1, <2>3, <2>4 DEF SettleInv
<1>6. CASE UNCHANGED vars
  <2>1. UNCHANGED <<mailbox, answer, pc, requests, responses, flight, awaits, holds>>
    BY <1>6 DEF vars, queues, tasks
  <2>2. Sending' = Sending
    BY <2>1 DEF Sending
  <2>3. Asked' = Asked /\ Answered' = Answered
    BY <2>1, <2>2 DEF Asked, Answered
  <2>4. \A P : Total(P)' = Total(P)
    BY <2>1, <2>2 DEF Total, CountAnswers
  <2> QED
    BY <2>1, <2>3, <2>4 DEF SettleInv
<1>7. CASE Collect \/ Route
  BY <1>7, MoveSettles
<1>8. CASE ExecuteImmediate \/ (ExecuteNext /\ Eligible # {})
  BY <1>8, ExecuteSettles
<1>9. ASSUME NEW t \in Task, Receive(t) PROVE SettleInv'
  BY <1>9, ReceiveSettles
<1> QED
  BY <1>1, <1>2, <1>3, <1>4, <1>5, <1>6, <1>7, <1>8, <1>9 DEF Next

LEMMA CountOfTask ==
    ASSUME NEW S, S \subseteq Request \cup Answer, NEW s \in Seq(S), NEW t
    PROVE  OfTask(t, s) = Count(Of(t, Kind), s)
<1>1. \A i \in DOMAIN s : s[i] \in S
  BY ElementOfSeq
<1>2. \A r \in S : r \in Of(t, Kind) <=> r.task = t
  BY DEF Of, Request, Answer
<1>3. {i \in DOMAIN s : s[i].task = t} = Places(Of(t, Kind), s)
  BY <1>1, <1>2 DEF Places
<1> QED
  BY <1>3 DEF OfTask, Count

LEMMA SettleImplies == ASSUME TypeOK, SettleInv PROVE RequestsSettle
<1>1. AnsweredOnce
  <2>1. ASSUME NEW t \in Task
        PROVE  flight[t] = OfTask(t, requests) + OfTask(t, mailbox) + OfTask(t, Sending)
                    + OfTask(t, responses["Reader"]) + OfTask(t, responses["State"])
                    + OfTask(t, responses["Diagnostic"]) + OfTask(t, responses["Library"])
    <3> DEFINE P == Of(t, Kind)
    <3>1. Request \subseteq Request \cup Answer /\ Answer \subseteq Request \cup Answer
      OBVIOUS
    <3>2. /\ OfTask(t, requests) = Count(P, requests) /\ OfTask(t, mailbox) = Count(P, mailbox)
          /\ OfTask(t, Sending) = Count(P, Sending)
          /\ \A c \in Client : OfTask(t, responses[c]) = Count(P, responses[c])
      BY <3>1, QueueTypes, CountOfTask
    <3>3. flight[t] = Total(P)
      BY DEF SettleInv
    <3>4. /\ Count(P, requests) \in Nat /\ Count(P, mailbox) \in Nat /\ Count(P, Sending) \in Nat
          /\ \A c \in Client : Count(P, responses[c]) \in Nat
      BY TotalIsNat
    <3> HIDE DEF P
    <3> QED
      BY <3>2, <3>3, <3>4 DEF Total, CountAnswers, Client
  <2> QED
    BY <2>1 DEF AnsweredOnce
<1>2. ASSUME NEW t \in Task, flight[t] = 0 PROVE holds[t] = Buffers[t]
  <2>1. ASSUME NEW r \in Asked \cup Answered PROVE r.task # t
    <3>1. Total(Of(r.task, Kind)) > 0
      BY TaskOfAnItem
    <3> QED
      BY <1>2, <3>1 DEF SettleInv
  <2>2. \A b \in Buffers[t] : b \in holds[t]
    BY <2>1 DEF SettleInv
  <2>3. holds[t] \subseteq Buffers[t]
    BY DEF SettleInv
  <2> QED
    BY <2>2, <2>3
<1> QED
  BY <1>1, <1>2 DEF RequestsSettle, BuffersReturned

(* The traffic settles: what a task waits for is in exactly one place until  *)
(* it is received, and with nothing in flight it has its own buffers and no  *)
(* other's, for every capacity and limits, also when the mailbox overflows,  *)
(* so long as no response channel has two receivers (storage_owner.rs).      *)
THEOREM TrafficSettles == ASSUME NoSharedChannel PROVE Spec => []RequestsSettle
<1>1. Init => SettleInv
  BY SettleInvInit
<1>2. TypeOK /\ SettleInv /\ [Next]_vars => SettleInv'
  BY SettleInvNext
<1>3. TypeOK /\ SettleInv => RequestsSettle
  BY SettleImplies
<1> QED
  BY <1>1, <1>2, <1>3, TypeCorrect, PTL DEF Spec

(***************************************************************************)
(* The two queues as one: the mailbox, and behind it the channel.          *)
(***************************************************************************)
Queue == mailbox \o requests

LEMMA QueueIsSeq ==
    ASSUME TypeOK
    PROVE  /\ Queue \in Seq(Request) /\ Len(Queue) \in Nat /\ DOMAIN Queue = 1 .. Len(Queue)
           /\ Len(mailbox) \in Nat /\ Len(Queue) = Len(mailbox) + Len(requests)
           /\ \A i \in 1 .. Len(mailbox) : Queue[i] = mailbox[i]
           /\ \A i \in DOMAIN Queue : Queue[i] \in Asked /\ Queue[i] \in Request
<1>1. mailbox \in Seq(Request) /\ requests \in Seq(Request)
  BY QueueTypes
<1>2. /\ Queue \in Seq(Request) /\ Len(Queue) = Len(mailbox) + Len(requests)
      /\ \A i \in 1 .. Len(mailbox) + Len(requests) :
            Queue[i] = IF i <= Len(mailbox) THEN mailbox[i] ELSE requests[i - Len(mailbox)]
  BY <1>1, ConcatProperties DEF Queue
<1>3. Len(mailbox) \in Nat /\ Len(requests) \in Nat
  BY <1>1, LenProperties
<1>4. Len(Queue) \in Nat /\ DOMAIN Queue = 1 .. Len(Queue)
  BY <1>2, LenProperties
<1>5. ASSUME NEW i \in DOMAIN Queue PROVE Queue[i] \in Asked /\ Queue[i] \in Request
  <2>1. Queue[i] \in Range(Queue)
    BY <1>2, <1>4, RangeChanges
  <2>2. Range(mailbox \o requests) = Range(mailbox) \cup Range(requests)
    BY <1>1, RangeConcatenation
  <2> QED
    BY <2>1, <2>2, ItemTypes DEF Queue, Asked
<1> QED
  BY <1>2, <1>3, <1>4, <1>5

LEMMA QueueGrows ==
    ASSUME TypeOK, NEW r \in Request, requests' = Append(requests, r), mailbox' = mailbox
    PROVE  /\ Len(Queue') = Len(Queue) + 1 /\ Queue'[Len(Queue) + 1] = r
           /\ DOMAIN Queue' = 1 .. Len(Queue) + 1
           /\ \A i \in 1 .. Len(Queue) : Queue'[i] = Queue[i]
<1> DEFINE w == <<r>>
<1>1. w \in Seq(Request) /\ Len(w) = 1 /\ w[1] = r /\ Append(requests, r) = requests \o w
  BY QueueTypes, AppendIsConcat
<1> HIDE DEF w
<1>2. mailbox \o (requests \o w) = (mailbox \o requests) \o w
  <2>1. mailbox \in Seq(Request) /\ requests \in Seq(Request)
    BY QueueTypes
  <2>2. \A s, t, u \in Seq(Request) : s \o (t \o u) = (s \o t) \o u
    BY ConcatAssociative
  <2> QED
    BY <1>1, <2>1, <2>2, Zenon
<1>3. Queue' = Queue \o w
  BY <1>1, <1>2 DEF Queue
<1>4. Queue \in Seq(Request) /\ Len(Queue) \in Nat
  BY QueueIsSeq
<1>5. /\ Queue \o w \in Seq(Request) /\ Len(Queue \o w) = Len(Queue) + Len(w)
      /\ \A i \in 1 .. Len(Queue) + Len(w) :
            (Queue \o w)[i] = IF i <= Len(Queue) THEN Queue[i] ELSE w[i - Len(Queue)]
  BY <1>1, <1>4, ConcatProperties
<1>6. DOMAIN (Queue \o w) = 1 .. Len(Queue \o w)
  BY <1>5, LenProperties
<1> DEFINE n == Len(Queue)
           q == Queue \o w
<1>7. Queue' = q /\ DOMAIN q = 1 .. n + 1 /\ Len(q) = n + 1
  BY <1>1, <1>3, <1>5, <1>6
<1>8. \A i \in 1 .. n + 1 : q[i] = IF i <= n THEN Queue[i] ELSE w[i - n]
  BY <1>1, <1>5
<1>9. n \in Nat
  BY <1>4
<1> HIDE DEF n, q
<1>10. q[n + 1] = w[(n + 1) - n] /\ (n + 1) - n = 1
  BY <1>8, <1>9
<1>11. \A i \in 1 .. n : q[i] = Queue[i]
  BY <1>8, <1>9
<1> QED
  BY <1>1, <1>7, <1>10, <1>11 DEF n

LEMMA QueueMoves ==
    ASSUME TypeOK, MailboxNeverOverflows, MailboxNeverOverflows', Collect \/ Route
    PROVE  Queue' = Queue
<1>1. mailbox' = mailbox \o requests /\ requests' = << >>
  BY DEF Collect, Route, MailboxNeverOverflows, TypeOK
<1>2. mailbox \o requests \in Seq(Request)
  BY QueueTypes, ConcatProperties
<1>3. (mailbox \o requests) \o << >> = mailbox \o requests
  BY <1>2, ConcatEmptySeq
<1> QED
  BY <1>1, <1>3 DEF Queue

LEMMA RemoveAtElements ==
    ASSUME NEW S, NEW s \in Seq(S), NEW i \in 1 .. Len(s)
    PROVE  \A j \in 1 .. Len(s) - 1 : RemoveAt(s, i)[j] = s[IF j < i THEN j ELSE j + 1]
<1> DEFINE a == SubSeq(s, 1, i - 1)
           b == SubSeq(s, i + 1, Len(s))
<1>1. Len(s) \in Nat /\ i \in 1 .. Len(s) /\ \A j \in 1 .. Len(s) : s[j] \in S
  BY LenProperties, ElementOfSeq
<1>2. /\ a \in Seq(S) /\ Len(a) = i - 1
      /\ \A j \in 1 .. i - 1 : a[j] = s[j]
  <2>1. 1 \in Int /\ i - 1 \in Int /\ \A j \in 1 .. i - 1 : s[j] \in S
    BY <1>1
  <2>2. /\ a \in Seq(S) /\ Len(a) = (IF 1 <= i - 1 THEN i - 1 - 1 + 1 ELSE 0)
        /\ \A j \in 1 .. i - 1 - 1 + 1 : a[j] = s[1 + j - 1]
    BY <2>1, SubSeqProperties
  <2> HIDE DEF a
  <2> QED
    BY <1>1, <2>2
<1>3. /\ b \in Seq(S) /\ Len(b) = Len(s) - i
      /\ \A j \in 1 .. Len(s) - i : b[j] = s[i + j]
  <2>1. i + 1 \in Int /\ Len(s) \in Int /\ \A j \in i + 1 .. Len(s) : s[j] \in S
    BY <1>1
  <2>2. /\ b \in Seq(S) /\ Len(b) = (IF i + 1 <= Len(s) THEN Len(s) - (i + 1) + 1 ELSE 0)
        /\ \A j \in 1 .. Len(s) - (i + 1) + 1 : b[j] = s[i + 1 + j - 1]
    BY <2>1, SubSeqProperties
  <2> HIDE DEF b
  <2> QED
    BY <1>1, <2>2
<1>4. RemoveAt(s, i) = a \o b
  BY DEF RemoveAt
<1> HIDE DEF a, b
<1>5. \A j \in 1 .. Len(a) + Len(b) : (a \o b)[j] = IF j <= Len(a) THEN a[j] ELSE b[j - Len(a)]
  BY <1>2, <1>3, ConcatProperties
<1>6. ASSUME NEW j \in 1 .. Len(s) - 1
      PROVE  (a \o b)[j] = s[IF j < i THEN j ELSE j + 1]
  <2>1. (a \o b)[j] = IF j <= i - 1 THEN a[j] ELSE b[j - (i - 1)]
    BY <1>1, <1>2, <1>3, <1>5
  <2>2. CASE j < i
    BY <1>1, <1>2, <2>1, <2>2
  <2>3. CASE ~(j < i)
    <3>1. j - (i - 1) \in 1 .. Len(s) - i /\ i + (j - (i - 1)) = j + 1 /\ ~(j <= i - 1)
      BY <1>1, <2>3
    <3>2. b[j - (i - 1)] = s[i + (j - (i - 1))]
      BY <1>3, <3>1
    <3> QED
      BY <2>1, <2>3, <3>1, <3>2
  <2> QED
    BY <2>2, <2>3
<1> QED
  BY <1>4, <1>6

LEMMA QueueShrinks ==
    ASSUME TypeOK, ExecuteNext, Eligible # {}
    PROVE  /\ DOMAIN Queue' = 1 .. Len(Queue) - 1
           /\ \A j \in DOMAIN Queue' : Queue'[j] = Queue[IF j < NextIndex THEN j ELSE j + 1]
           /\ NextIndex \in DOMAIN Queue /\ Queue[NextIndex] = mailbox[NextIndex]
<1> DEFINE i == NextIndex
           m == RemoveAt(mailbox, i)
<1>1. mailbox' = m /\ requests' = requests /\ mailbox \in Seq(Request) /\ requests \in Seq(Request)
  BY QueueTypes DEF ExecuteNext
<1>2. i \in 1 .. Len(mailbox) /\ Len(mailbox) \in Nat /\ Len(requests) \in Nat
  BY <1>1, NextIndexExists, LenProperties
<1>3. m \in Seq(Request) /\ Len(m) = Len(mailbox) - 1
  BY <1>1, <1>2, RemoveAtProperties
<1>4. \A j \in 1 .. Len(mailbox) - 1 : m[j] = mailbox[IF j < i THEN j ELSE j + 1]
  BY <1>1, <1>2, RemoveAtElements
<1>5. Queue' = m \o requests
  BY <1>1 DEF Queue
<1> HIDE DEF i, m
<1>6. /\ m \o requests \in Seq(Request) /\ Len(m \o requests) = Len(m) + Len(requests)
      /\ \A j \in 1 .. Len(m) + Len(requests) :
            (m \o requests)[j] = IF j <= Len(m) THEN m[j] ELSE requests[j - Len(m)]
  BY <1>1, <1>3, ConcatProperties
<1>7. \A j \in 1 .. Len(mailbox) + Len(requests) :
            Queue[j] = IF j <= Len(mailbox) THEN mailbox[j] ELSE requests[j - Len(mailbox)]
  BY <1>1, ConcatProperties DEF Queue
<1>8. Len(Queue) = Len(mailbox) + Len(requests) /\ DOMAIN Queue = 1 .. Len(Queue)
  <2>1. Len(Queue) = Len(mailbox) + Len(requests)
    BY <1>1, ConcatProperties DEF Queue
  <2>2. DOMAIN Queue = 1 .. Len(Queue)
    BY QueueIsSeq
  <2> QED
    BY <2>1, <2>2
<1>9. DOMAIN Queue' = 1 .. Len(Queue) - 1
  <2>1. DOMAIN (m \o requests) = 1 .. Len(m \o requests)
    BY <1>6, LenProperties
  <2>2. Len(m \o requests) = Len(Queue) - 1
    BY <1>2, <1>3, <1>6, <1>8
  <2> QED
    BY <1>5, <2>1, <2>2
<1>10. ASSUME NEW j \in 1 .. Len(Queue) - 1
       PROVE  Queue'[j] = Queue[IF j < i THEN j ELSE j + 1]
  <2>1. Queue'[j] = IF j <= Len(mailbox) - 1 THEN m[j] ELSE requests[j - (Len(mailbox) - 1)]
    BY <1>2, <1>3, <1>5, <1>6, <1>8
  <2>2. CASE j <= Len(mailbox) - 1
    <3>1. m[j] = mailbox[IF j < i THEN j ELSE j + 1]
      BY <1>2, <1>4, <1>8, <2>2
    <3>2. \A k \in 1 .. Len(mailbox) : Queue[k] = mailbox[k]
      BY <1>2, <1>7
    <3>3. j \in 1 .. Len(mailbox) /\ j + 1 \in 1 .. Len(mailbox)
      BY <1>2, <1>8, <2>2
    <3> QED
      BY <2>1, <2>2, <3>1, <3>2, <3>3
  <2>3. CASE ~(j <= Len(mailbox) - 1)
    <3>1. /\ ~(j < i) /\ j + 1 \in 1 .. Len(mailbox) + Len(requests) /\ ~(j + 1 <= Len(mailbox))
          /\ (j + 1) - Len(mailbox) = j - (Len(mailbox) - 1)
      BY <1>2, <1>8, <2>3
    <3>2. Queue[j + 1] = requests[(j + 1) - Len(mailbox)]
      BY <1>7, <3>1
    <3> QED
      BY <2>1, <2>3, <3>1, <3>2
  <2> QED
    BY <2>2, <2>3
<1>11. i \in DOMAIN Queue /\ Queue[i] = mailbox[i]
  BY <1>2, <1>7, <1>8
<1> QED
  BY <1>9, <1>10, <1>11 DEF i

(***************************************************************************)
(* Requests of which there is one.                                         *)
(***************************************************************************)
LEMMA CountNone ==
    ASSUME NEW P, NEW S, NEW s \in Seq(S)
    PROVE  Count(P, s) = 0 <=> \A x \in Range(s) : x \notin P
<1>1. ASSUME Count(P, s) = 0, NEW x \in Range(s) PROVE x \notin P
  <2>1. \A i \in 1 .. Len(s) : s[i] \notin P
    BY <1>1, CountIsNat
  <2>2. PICK i \in 1 .. Len(s) : x = s[i]
    BY <1>1, RangeEquality
  <2> QED
    BY <2>1, <2>2
<1>2. ASSUME \A x \in Range(s) : x \notin P PROVE Count(P, s) = 0
  <2>1. \A i \in 1 .. Len(s) : s[i] \in Range(s)
    BY RangeChanges
  <2>2. Places(P, s) = {}
    BY <1>2, <2>1, LenProperties DEF Places
  <2> QED
    BY <2>2, FS_EmptySet DEF Count
<1> QED
  BY <1>1, <1>2

\* What is counted is somewhere.
LEMMA CountedIsThere ==
    ASSUME TypeOK, NEW P, Total(P) > 0
    PROVE  \E q \in Asked \cup Answered : q \in P
<1> SUFFICES ASSUME \A q \in Asked \cup Answered : q \notin P PROVE FALSE
  OBVIOUS
<1>1. \A q \in Range(requests) \cup Range(mailbox) \cup Range(Sending) : q \notin P
  BY DEF Asked, Answered
<1>2. \A c \in Client : \A q \in Range(responses[c]) : q \notin P
  BY DEF Answered
<1>3. Count(P, requests) = 0 /\ Count(P, mailbox) = 0 /\ Count(P, Sending) = 0
  <2>1. \A q \in Range(requests) : q \notin P
    BY <1>1
  <2>2. \A q \in Range(mailbox) : q \notin P
    BY <1>1
  <2>3. \A q \in Range(Sending) : q \notin P
    BY <1>1
  <2> QED
    BY <2>1, <2>2, <2>3, QueueTypes, CountNone
<1>4. \A c \in Client : Count(P, responses[c]) = 0
  BY <1>2, QueueTypes, CountNone
<1>5. Total(P) = 0
  BY <1>3, <1>4 DEF Total, CountAnswers, Client
<1> QED
  BY <1>5

\* If what is executed is the one request of its kind, no other is left.
LEMMA ExecutedAlone ==
    ASSUME TypeOK, ExecuteNext, Eligible # {}, NEW P, mailbox[NextIndex] \in P, Total(P) = 1
    PROVE  \A q \in Asked' \cup Answered : q \notin P
<1>1. /\ mailbox' = RemoveAt(mailbox, NextIndex) /\ requests' = requests
      /\ NextIndex \in 1 .. Len(mailbox) /\ mailbox' \in Seq(Request)
  BY QueueTypes, NextIndexExists, MailboxEntryType DEF ExecuteNext
<1> DEFINE a1 == Count(P, requests)
           a2 == Count(P, mailbox')
           a3 == Count(P, Sending)
           b1 == Count(P, responses["Reader"])
           b2 == Count(P, responses["State"])
           b3 == Count(P, responses["Diagnostic"])
           b4 == Count(P, responses["Library"])
<1>2. Count(P, mailbox) = a2 + 1
  <2>1. mailbox \in Seq(Request)
    BY QueueTypes
  <2>2. Count(P, mailbox) = Count(P, RemoveAt(mailbox, NextIndex)) + (IF mailbox[NextIndex] \in P THEN 1 ELSE 0)
    BY <1>1, <2>1, CountRemove
  <2> QED
    BY <1>1, <2>2
<1>3. a1 + (a2 + 1) + a3 + (b1 + b2 + b3 + b4) = 1
  BY <1>2 DEF Total, CountAnswers
<1>4. /\ a1 \in Nat /\ a2 \in Nat /\ a3 \in Nat
      /\ b1 \in Nat /\ b2 \in Nat /\ b3 \in Nat /\ b4 \in Nat
  <2>1. a2 \in Nat
    BY <1>1, CountIsNat
  <2> QED
    BY <2>1, TotalIsNat DEF Client
<1>5. a1 = 0 /\ a2 = 0 /\ a3 = 0 /\ b1 = 0 /\ b2 = 0 /\ b3 = 0 /\ b4 = 0
  <2> HIDE DEF a1, a2, a3, b1, b2, b3, b4
  <2> QED
    BY <1>3, <1>4
<1>6. \A q \in Range(requests) \cup Range(mailbox') \cup Range(Sending) : q \notin P
  BY <1>1, <1>5, QueueTypes, CountNone
<1>7. \A c \in Client : Count(P, responses[c]) = 0
  BY <1>5 DEF Client
<1>8. \A c \in Client : \A q \in Range(responses[c]) : q \notin P
  BY <1>7, QueueTypes, CountNone
<1> QED
  BY <1>1, <1>6, <1>8 DEF Asked, Answered

\* If what a task receives is all there is of its kind, nothing is left.
LEMMA ReceivedAlone ==
    ASSUME TypeOK, NEW t \in Task, Receive(t), NEW P, Head(responses[awaits[t]]) \in P, Total(P) = 1
    PROVE  \A q \in Asked' \cup Answered' : q \notin P
<1> DEFINE w == awaits[t]
<1>1. w \in Client /\ responses[w] # << >> /\ responses' = [responses EXCEPT ![w] = Tail(responses[w])]
      /\ UNCHANGED <<requests, mailbox, pc, answer>>
  BY DEF Receive, TypeOK
<1>2. \A c \in Client : responses'[c] = IF c = w THEN Tail(responses[c]) ELSE responses[c]
  BY <1>1 DEF TypeOK
<1>3. Sending' = Sending
  BY <1>1 DEF Sending
<1>4. Count(P, responses[w]) = 1 + Count(P, responses'[w])
  <2>1. responses[w] \in Seq(Answer) /\ responses'[w] = Tail(responses[w])
    BY <1>1, <1>2, QueueTypes
  <2>2. Count(P, responses[w]) = (IF Head(responses[w]) \in P THEN 1 ELSE 0) + Count(P, Tail(responses[w]))
    BY <1>1, <2>1, CountTail
  <2> QED
    BY <2>1, <2>2
<1>5. \A c \in Client : responses'[c] \in Seq(Answer) /\ Count(P, responses'[c]) \in Nat
  <2>1. \A c \in Client : responses'[c] \in Seq(Answer)
    BY <1>1, <1>2, QueueTypes, HeadTailProperties
  <2> QED
    BY <2>1, CountIsNat
<1>6. \A c \in Client : Count(P, responses[c]) = IF c = w THEN 1 + Count(P, responses'[c])
                                                 ELSE Count(P, responses'[c])
  BY <1>2, <1>4
<1> HIDE DEF w
<1> DEFINE a1 == Count(P, requests)
           a2 == Count(P, mailbox)
           a3 == Count(P, Sending)
           b(c) == Count(P, responses'[c])
           d(c) == IF c = w THEN 1 ELSE 0
<1>7. a1 \in Nat /\ a2 \in Nat /\ a3 \in Nat /\ \A c \in Client : b(c) \in Nat /\ d(c) \in {0, 1}
  BY <1>5, TotalIsNat
<1>8. \A c \in Client : Count(P, responses[c]) = b(c) + d(c)
  BY <1>5, <1>6
<1>9. a1 + a2 + a3 + ((b("Reader") + d("Reader")) + (b("State") + d("State"))
         + (b("Diagnostic") + d("Diagnostic")) + (b("Library") + d("Library"))) = 1
  BY <1>8 DEF Total, CountAnswers, Client
<1>10. d("Reader") + d("State") + d("Diagnostic") + d("Library") = 1
  BY <1>1 DEF Client
<1>11. a1 = 0 /\ a2 = 0 /\ a3 = 0 /\ \A c \in Client : b(c) = 0
  <2>1. "Reader" \in Client /\ "State" \in Client /\ "Diagnostic" \in Client /\ "Library" \in Client
    BY DEF Client
  <2>2. PICK x1 \in Nat, x2 \in Nat, x3 \in Nat, x4 \in Nat :
            x1 = b("Reader") /\ x2 = b("State") /\ x3 = b("Diagnostic") /\ x4 = b("Library")
    BY <1>7, <2>1
  <2>3. PICK y1 \in Nat, y2 \in Nat, y3 \in Nat, y4 \in Nat :
            y1 = d("Reader") /\ y2 = d("State") /\ y3 = d("Diagnostic") /\ y4 = d("Library")
    BY <1>7, <2>1
  <2> HIDE DEF a1, a2, a3, b, d
  <2>4. a1 + a2 + a3 + ((x1 + y1) + (x2 + y2) + (x3 + y3) + (x4 + y4)) = 1
    BY <1>9, <2>2, <2>3
  <2>5. y1 + y2 + y3 + y4 = 1
    BY <1>10, <2>3
  <2>6. a1 = 0 /\ a2 = 0 /\ a3 = 0 /\ x1 = 0 /\ x2 = 0 /\ x3 = 0 /\ x4 = 0
    BY <1>7, <2>4, <2>5
  <2> QED
    BY <2>2, <2>6 DEF Client
<1>12. \A q \in Range(requests) \cup Range(mailbox) \cup Range(Sending) : q \notin P
  BY <1>11, QueueTypes, CountNone
<1>13. \A c \in Client : \A q \in Range(responses'[c]) : q \notin P
  BY <1>5, <1>11, CountNone
<1>14. /\ Asked' = Range(requests) \cup Range(mailbox)
       /\ Answered' = Range(Sending) \cup UNION {Range(responses'[c]) : c \in Client}
  BY <1>1, <1>3 DEF Asked, Answered
<1> QED
  BY <1>12, <1>13, <1>14

(***************************************************************************)
(* Uploads are apart.                                                      *)
(***************************************************************************)
\* The owner has the upload of this task.
Serves(t) == uploadClient = UploadsAs[t]

\* A request that belongs to an upload is made as the task uploads, with an id that was
\* given out, the present one only by the task that is served.
IdsInv ==
    \A r \in Asked :
        /\ r.kind \in {"begin", "write", "commit", "abort"} => r.client = UploadsAs[r.task]
        /\ r.kind \in {"write", "commit", "abort"} =>
              r.id \in 1 .. nextUpload - 1 /\ (r.id = upload => Serves(r.task))

\* The owner's halves of an upload begin and end together.
OwnerInv ==
    /\ upload < nextUpload
    /\ session = (upload # NoUpload)
    /\ uploadClient # NoClient <=> upload # NoUpload
    /\ uploadClient # NoClient => \E t \in Task : Serves(t)

Begins(t) == Total(Of(t, {"begin"}))
Commits(t) == Total(Of(t, {"commit"}))
Aborts(t) == Total(Of(t, {"abort"}))

\* Where a task is in its upload says which request of it is under way, and whether the
\* owner serves it; it does so from the begin to the commit or abort.
PhasesInv ==
    \A t \in Task :
        /\ Begins(t) = IF stage[t] = "opening" THEN 1 ELSE 0
        /\ Commits(t) = IF stage[t] = "closing" THEN 1 ELSE 0
        /\ Aborts(t) = IF stage[t] = "aborting" THEN 1 ELSE 0
        /\ stage[t] \in {"opening", "closing"} => flight[t] = 1
        /\ stage[t] = "none" => ~Serves(t)
        /\ stage[t] \in {"none", "opening"} => failed[t] = FALSE /\ sent[t] = 0
        /\ stage[t] = "open" => Serves(t) /\ upload = known[t]

Whole == \A k \in 1 .. Chunks : k \in Range(applied)

AskedInv ==
    \A r \in Asked :
        /\ r.kind = "begin" => ~Serves(r.task)
        /\ r.kind \in {"commit", "abort"} => Serves(r.task) /\ r.id = upload
        /\ r.kind = "commit" => Whole

AnsweredInv ==
    \A a \in Answered :
        /\ a.outcome # "Busy"
        /\ a.kind = "begin" /\ a.outcome = "ok" => Serves(a.task) /\ a.id = upload /\ applied = << >>
        /\ a.kind = "begin" /\ a.outcome # "ok" => ~Serves(a.task)
        /\ a.kind = "commit" => a.outcome = "ok" /\ ~Serves(a.task)
        /\ a.kind = "abort" => ~Serves(a.task)

\* A chunk that a task has sent is on the card, asked, or answered with an error.
Delivered(t, k) ==
    \/ k \in Range(applied)
    \/ \E r \in Asked : r.task = t /\ r.kind = "write" /\ r.chunk = k
    \/ \E a \in Answered : a.task = t /\ a.kind = "write" /\ a.outcome # "ok"

OpenInv ==
    \A t \in Task : stage[t] = "open" =>
        /\ \A r \in Asked : r.task = t /\ r.kind = "write" => r.id = known[t] /\ r.chunk <= sent[t]
        /\ \A k \in Range(applied) : k <= sent[t]
        /\ failed[t] = FALSE => \A k \in 1 .. sent[t] : Delivered(t, k)

\* The writes of the present upload are in their order, behind those applied.
Writes == {i \in DOMAIN Queue : Queue[i].kind = "write" /\ Queue[i].id = upload}
OrderInv ==
    /\ WritesInOrder
    /\ \A i \in Writes : \A k \in Range(applied) : k < Queue[i].chunk
    /\ \A i, j \in Writes : i < j => Queue[i].chunk < Queue[j].chunk

UploadInv ==
    /\ IdsInv /\ OwnerInv /\ PhasesInv /\ AskedInv /\ AnsweredInv
    /\ OpenInv /\ OrderInv /\ PublishedWhole

\* One task at most is served.
LEMMA ServesOne ==
    ASSUME NEW t \in Task, NEW u \in Task
    PROVE  (UploadsAs[t] = UploadsAs[u] => t = u) /\ UploadsAs[t] # NoClient /\ UploadsAs[t] \in Client
<1>1. t \in {"display", "refresh", "diagnostic"} /\ u \in {"display", "refresh", "diagnostic"}
  BY DEF Task
<1>2. /\ UploadsAs["display"] = "State" /\ UploadsAs["refresh"] = "Library"
      /\ UploadsAs["diagnostic"] = "Diagnostic"
  BY DEF UploadsAs, Task
<1> QED
  BY <1>1, <1>2 DEF NoClient, Client

\* A begin, commit or abort under way says where its task is.
LEMMA PhaseOfAnItem ==
    ASSUME TypeOK, PhasesInv, NEW r \in Asked \cup Answered
    PROVE  /\ r.task \in Task
           /\ r.kind = "begin" => stage[r.task] = "opening" /\ Begins(r.task) = 1
           /\ r.kind = "commit" => stage[r.task] = "closing" /\ Commits(r.task) = 1
           /\ r.kind = "abort" => stage[r.task] = "aborting" /\ Aborts(r.task) = 1
<1>1. r.task \in Task /\ \A K : r.kind \in K => Total(Of(r.task, K)) > 0
  BY TaskOfAnItem
<1>2. \A k : r.kind = k => Total(Of(r.task, {k})) > 0
  <2>1. ASSUME NEW k, r.kind = k PROVE Total(Of(r.task, {k})) > 0
    <3>1. r.kind \in {k}
      BY <2>1
    <3> QED
      BY <1>1, <3>1
  <2> QED
    BY <2>1
<1>3. /\ r.kind = "begin" => Begins(r.task) > 0
      /\ r.kind = "commit" => Commits(r.task) > 0
      /\ r.kind = "abort" => Aborts(r.task) > 0
  BY <1>2 DEF Begins, Commits, Aborts
<1> QED
  BY <1>1, <1>3 DEF PhasesInv

\* Steps that move requests and answers, and change nothing else.
LEMMA SameKeeps ==
    ASSUME TypeOK, UploadInv, Asked' = Asked, Answered' = Answered, Queue' = Queue,
           \A P : Total(P)' = Total(P), UNCHANGED <<owner, tasks, published>>
    PROVE  UploadInv'
<1>1. UNCHANGED <<upload, nextUpload, uploadClient, session, applied, flight, stage, failed, sent,
                  known, published>>
  BY DEF owner, tasks
<1>2. IdsInv' /\ OwnerInv' /\ AskedInv' /\ AnsweredInv' /\ PublishedWhole'
  BY <1>1 DEF UploadInv, IdsInv, OwnerInv, AskedInv, AnsweredInv, PublishedWhole, Serves, Whole
<1>3. PhasesInv'
  BY <1>1 DEF UploadInv, PhasesInv, Begins, Commits, Aborts, Serves
<1>4. OpenInv'
  BY <1>1 DEF UploadInv, OpenInv, Delivered
<1>5. OrderInv'
  BY <1>1 DEF UploadInv, OrderInv, Writes, WritesInOrder
<1> QED
  BY <1>2, <1>3, <1>4, <1>5 DEF UploadInv

(***************************************************************************)
(* Sending.                                                                *)
(***************************************************************************)
\* What a task sends is asked, is counted, and is last in the queues.
LEMMA SendCounts ==
    ASSUME TypeOK, NEW t \in Task, NEW client \in Client, NEW kind \in Kind,
           NEW lends \in BOOLEAN, NEW chunk \in Nat,
           Send(t, client, kind, lends, chunk)
    PROVE  /\ \A u \in Task :
                /\ Begins(u)' = IF u = t /\ kind = "begin" THEN Begins(u) + 1 ELSE Begins(u)
                /\ Commits(u)' = IF u = t /\ kind = "commit" THEN Commits(u) + 1 ELSE Commits(u)
                /\ Aborts(u)' = IF u = t /\ kind = "abort" THEN Aborts(u) + 1 ELSE Aborts(u)
                /\ flight'[u] = IF u = t THEN flight[u] + 1 ELSE flight[u]
           /\ UNCHANGED <<upload, nextUpload, uploadClient, session, applied, published>>
<1>1. PICK r \in Request : /\ r.task = t /\ r.kind = kind
                          /\ \A P : Total(P)' = Total(P) + (IF r \in P THEN 1 ELSE 0)
  BY SendEffect
<1>2. ASSUME NEW u \in Task, NEW k
      PROVE  Total(Of(u, {k}))' = IF u = t /\ kind = k THEN Total(Of(u, {k})) + 1 ELSE Total(Of(u, {k}))
  <2>1. r \in Of(u, {k}) <=> u = t /\ kind = k
    BY <1>1, OfContains
  <2>2. Total(Of(u, {k})) \in Nat
    BY TotalIsNat
  <2> QED
    BY <1>1, <2>1, <2>2
<1>3. ASSUME NEW u \in Task
      PROVE  /\ Begins(u)' = IF u = t /\ kind = "begin" THEN Begins(u) + 1 ELSE Begins(u)
             /\ Commits(u)' = IF u = t /\ kind = "commit" THEN Commits(u) + 1 ELSE Commits(u)
             /\ Aborts(u)' = IF u = t /\ kind = "abort" THEN Aborts(u) + 1 ELSE Aborts(u)
             /\ flight'[u] = IF u = t THEN flight[u] + 1 ELSE flight[u]
  <2>1. flight'[u] = IF u = t THEN flight[u] + 1 ELSE flight[u]
    BY DEF Send, TypeOK
  <2> QED
    BY <1>2, <2>1 DEF Begins, Commits, Aborts
<1>4. UNCHANGED <<upload, nextUpload, uploadClient, session, applied, published>>
  BY DEF Send, owner
<1> QED
  BY <1>3, <1>4

LEMMA SendAsks ==
    ASSUME TypeOK, NEW t \in Task, NEW client \in Client, NEW kind \in Kind,
           NEW lends \in BOOLEAN, NEW chunk \in Nat,
           Send(t, client, kind, lends, chunk)
    PROVE  \E r \in Request :
             /\ r.task = t /\ r.client = client /\ r.kind = kind /\ r.chunk = chunk
             /\ kind \in {"write", "commit", "abort"} => r.id = known[t]
             /\ Asked' = Asked \cup {r} /\ Answered' = Answered
             /\ Queue'[Len(Queue) + 1] = r /\ DOMAIN Queue' = 1 .. Len(Queue) + 1
             /\ \A i \in 1 .. Len(Queue) : Queue'[i] = Queue[i]
<1>1. PICK r \in Request :
             /\ r.task = t /\ r.client = client /\ r.kind = kind /\ r.chunk = chunk
             /\ r.id = IF kind \in {"write", "commit", "abort"} THEN known[t] ELSE NoUpload
             /\ requests' = Append(requests, r)
             /\ Asked' = Asked \cup {r} /\ Answered' = Answered
  BY SendEffect
<1>2. mailbox' = mailbox
  BY DEF Send
<1>3. /\ Queue'[Len(Queue) + 1] = r /\ DOMAIN Queue' = 1 .. Len(Queue) + 1
      /\ \A i \in 1 .. Len(Queue) : Queue'[i] = Queue[i]
  BY <1>1, <1>2, QueueGrows
<1> QED
  BY <1>1, <1>3

\* What holds of every request that a task sends in the state its guards ask for.
LEMMA SendKeeps ==
    ASSUME TypeOK, UploadInv, NEW t \in Task, NEW client \in Client, NEW kind \in Kind,
           NEW lends \in BOOLEAN, NEW chunk \in Nat,
           Send(t, client, kind, lends, chunk),
           kind \in {"begin", "write", "commit", "abort"} => client = UploadsAs[t],
           kind = "begin" => stage[t] = "none",
           kind \in {"write", "commit", "abort"} => stage[t] = "open",
           kind = "write" => chunk = sent[t] + 1,
           kind = "commit" => Whole
    PROVE  IdsInv' /\ OwnerInv' /\ AskedInv' /\ AnsweredInv' /\ OrderInv' /\ PublishedWhole'
<1>1. PICK r \in Request :
             /\ r.task = t /\ r.client = client /\ r.kind = kind /\ r.chunk = chunk
             /\ kind \in {"write", "commit", "abort"} => r.id = known[t]
             /\ Asked' = Asked \cup {r} /\ Answered' = Answered
             /\ Queue'[Len(Queue) + 1] = r /\ DOMAIN Queue' = 1 .. Len(Queue) + 1
             /\ \A i \in 1 .. Len(Queue) : Queue'[i] = Queue[i]
             /\ UNCHANGED <<upload, nextUpload, uploadClient, session, applied, published>>
  BY SendAsks, SendCounts
<1>2. OwnerInv' /\ AnsweredInv' /\ PublishedWhole'
  BY <1>1 DEF UploadInv, OwnerInv, AnsweredInv, PublishedWhole, Serves
<1>3. stage[t] = "open" => Serves(t) /\ upload = known[t] /\ known[t] \in 1 .. nextUpload - 1
  <2>1. ASSUME stage[t] = "open" PROVE Serves(t) /\ upload = known[t]
    BY <2>1 DEF UploadInv, PhasesInv
  <2>2. ASSUME Serves(t) PROVE upload \in 1 .. nextUpload - 1
    BY <2>2, ServesOne DEF UploadInv, OwnerInv, Serves, TypeOK, NoUpload
  <2> QED
    BY <2>1, <2>2
<1>4. IdsInv'
  <2>1. ASSUME NEW q \in Asked'
        PROVE  /\ q.kind \in {"begin", "write", "commit", "abort"} => q.client = UploadsAs[q.task]
               /\ q.kind \in {"write", "commit", "abort"} =>
                     q.id \in 1 .. nextUpload' - 1 /\ (q.id = upload' => Serves(q.task)')
    <3>1. CASE q = r
      BY <1>1, <1>3, <3>1 DEF Serves
    <3>2. CASE q \in Asked
      <4>1. /\ q.kind \in {"begin", "write", "commit", "abort"} => q.client = UploadsAs[q.task]
            /\ q.kind \in {"write", "commit", "abort"} =>
                  q.id \in 1 .. nextUpload - 1 /\ (q.id = upload => Serves(q.task))
        BY <3>2 DEF UploadInv, IdsInv, Serves
      <4>2. nextUpload' = nextUpload /\ upload' = upload /\ Serves(q.task)' = Serves(q.task)
        BY <1>1 DEF Serves
      <4> QED
        BY <4>1, <4>2
    <3> QED
      BY <1>1, <3>1, <3>2
  <2> QED
    BY <2>1 DEF IdsInv
<1>5. AskedInv'
  <2>1. ASSUME NEW q \in Asked'
        PROVE  /\ q.kind = "begin" => ~Serves(q.task)'
               /\ q.kind \in {"commit", "abort"} => Serves(q.task)' /\ q.id = upload'
               /\ q.kind = "commit" => Whole'
    <3>1. CASE q = r
      <4>1. stage[t] = "none" => ~Serves(t)
        BY DEF UploadInv, PhasesInv
      <4> QED
        BY <1>1, <1>3, <3>1, <4>1 DEF Serves, Whole
    <3>2. CASE q \in Asked
      BY <1>1, <3>2 DEF UploadInv, AskedInv, Serves, Whole
    <3> QED
      BY <1>1, <3>1, <3>2
  <2> QED
    BY <2>1 DEF AskedInv
<1>6. OrderInv'
  <2> DEFINE n == Len(Queue)
  <2>1. n \in Nat /\ DOMAIN Queue = 1 .. n /\ \A i \in DOMAIN Queue : Queue[i] \in Asked /\ Queue[i] \in Request
    BY QueueIsSeq
  <2>2. Queue'[n + 1] = r /\ DOMAIN Queue' = 1 .. n + 1 /\ \A i \in 1 .. n : Queue'[i] = Queue[i]
    BY <1>1
  <2> HIDE DEF n
  <2>3. Writes' = Writes \cup (IF r.kind = "write" THEN {n + 1} ELSE {})
    <3>1. ASSUME NEW i \in 1 .. n + 1
          PROVE  i \in Writes' <=> (i \in Writes \/ (i = n + 1 /\ r.kind = "write"))
      <4>1. CASE i = n + 1
        BY <1>1, <1>3, <2>1, <2>2, <4>1 DEF Writes
      <4>2. CASE i \in 1 .. n
        BY <1>1, <2>1, <2>2, <4>2 DEF Writes
      <4> QED
        BY <2>1, <4>1, <4>2
    <3>2. Writes \subseteq 1 .. n /\ Writes' \subseteq 1 .. n + 1
      BY <2>1, <2>2 DEF Writes
    <3>3. ASSUME NEW i
          PROVE  i \in Writes' <=> i \in Writes \cup (IF r.kind = "write" THEN {n + 1} ELSE {})
      <4>1. n + 1 \in 1 .. n + 1 /\ \A j \in 1 .. n : j \in 1 .. n + 1
        BY <2>1
      <4>2. CASE i \in 1 .. n + 1
        BY <3>1, <4>2
      <4>3. CASE i \notin 1 .. n + 1
        BY <3>2, <4>1, <4>3
      <4> QED
        BY <4>2, <4>3
    <3> QED
      BY <3>3
  <2>4. Writes \subseteq 1 .. n /\ \A i \in Writes : Queue'[i] = Queue[i]
    BY <2>1, <2>2 DEF Writes
  <2>5. ASSUME r.kind = "write"
        PROVE  /\ \A k \in Range(applied) : k < r.chunk
               /\ \A i \in Writes : Queue[i].chunk < r.chunk
    <3>1. stage[t] = "open" /\ r.chunk = sent[t] + 1 /\ sent[t] \in Nat
      BY <1>1, <2>5 DEF TypeOK
    <3>2. /\ \A q \in Asked : q.task = t /\ q.kind = "write" => q.chunk <= sent[t]
          /\ \A k \in Range(applied) : k <= sent[t]
      BY <3>1 DEF UploadInv, OpenInv
    <3>3. ASSUME NEW i \in Writes PROVE Queue[i].task = t /\ Queue[i].chunk \in Nat
      <4>1. Queue[i] \in Asked /\ Queue[i] \in Request /\ Queue[i].kind = "write" /\ Queue[i].id = upload
        BY <2>1 DEF Writes
      <4>2. Serves(Queue[i].task) /\ Queue[i].task \in Task /\ Queue[i].chunk \in Nat
        <5>1. Queue[i].kind \in {"write", "commit", "abort"}
          BY <4>1
        <5>2. Serves(Queue[i].task)
          BY <4>1, <5>1 DEF UploadInv, IdsInv, Serves
        <5>3. Queue[i].task \in Task /\ Queue[i].chunk \in Nat
          BY <4>1 DEF Request
        <5> QED
          BY <5>2, <5>3
      <4>3. Serves(t)
        BY <1>3, <3>1
      <4> QED
        BY <4>2, <4>3, ServesOne DEF Serves
    <3>4. Range(applied) \subseteq Nat
      BY RangeChanges DEF TypeOK
    <3>5. \A i \in Writes : Queue[i].chunk <= sent[t] /\ Queue[i].chunk \in Nat
      BY <2>1, <3>2, <3>3 DEF Writes
    <3> QED
      BY <3>1, <3>2, <3>4, <3>5
  <2>6. WritesInOrder'
    BY <1>1 DEF UploadInv, OrderInv, WritesInOrder
  <2>7. \A i \in Writes' : \A k \in Range(applied)' : k < Queue'[i].chunk
    BY <1>1, <2>2, <2>3, <2>4, <2>5 DEF UploadInv, OrderInv
  <2>8. ASSUME NEW i \in Writes', NEW j \in Writes', i < j PROVE Queue'[i].chunk < Queue'[j].chunk
    <3>1. i \in Writes
      <4>1. j \in 1 .. n + 1 /\ i \in 1 .. n + 1
        BY <2>2, <2>8 DEF Writes
      <4>2. i # n + 1
        BY <2>1, <2>8, <4>1
      <4> QED
        BY <2>3, <2>8, <4>2
    <3>2. CASE j \in Writes
      BY <2>4, <2>8, <3>1, <3>2 DEF UploadInv, OrderInv
    <3>3. CASE j = n + 1 /\ r.kind = "write"
      BY <2>2, <2>4, <2>5, <3>1, <3>3
    <3> QED
      BY <2>3, <3>2, <3>3
  <2> QED
    BY <2>6, <2>7, <2>8 DEF OrderInv
<1> QED
  BY <1>2, <1>4, <1>5, <1>6

\* A page, a menu window, a scan step.
LEMMA ReadKeeps ==
    ASSUME TypeOK, UploadInv, NEW t \in Task, NEW client \in Client, NEW kind \in {"read", "scan"},
           NEW lends \in BOOLEAN, Send(t, client, kind, lends, 0), stage[t] = "none",
           UNCHANGED <<stage, failed, sent, known>>
    PROVE  UploadInv'
<1>1. kind \in Kind /\ 0 \in Nat /\ kind \notin {"begin", "write", "commit", "abort"}
  BY DEF Kind
<1>2. PICK r \in Request : r.task = t /\ r.kind = kind /\ Asked' = Asked \cup {r} /\ Answered' = Answered
  BY <1>1, SendAsks
<1>3. /\ \A u \in Task : /\ Begins(u)' = Begins(u) /\ Commits(u)' = Commits(u) /\ Aborts(u)' = Aborts(u)
                         /\ flight'[u] = IF u = t THEN flight[u] + 1 ELSE flight[u]
      /\ UNCHANGED <<upload, nextUpload, uploadClient, session, applied, published>>
  BY <1>1, SendCounts
<1>4. IdsInv' /\ OwnerInv' /\ AskedInv' /\ AnsweredInv' /\ OrderInv' /\ PublishedWhole'
  BY <1>1, SendKeeps
<1>5. PhasesInv'
  <2>1. ASSUME NEW u \in Task
        PROVE  /\ Begins(u)' = IF stage'[u] = "opening" THEN 1 ELSE 0
               /\ Commits(u)' = IF stage'[u] = "closing" THEN 1 ELSE 0
               /\ Aborts(u)' = IF stage'[u] = "aborting" THEN 1 ELSE 0
    BY <1>1, <1>2, <1>3 DEF UploadInv, PhasesInv
  <2>2. ASSUME NEW u \in Task, stage[u] \in {"opening", "closing"} PROVE flight'[u] = 1
    BY <1>2, <1>3, <2>2 DEF UploadInv, PhasesInv, TypeOK
  <2> QED
    BY <1>2, <1>3, <2>1, <2>2 DEF UploadInv, PhasesInv, Serves
<1>6. OpenInv'
  BY <1>1, <1>2, <1>3 DEF UploadInv, OpenInv, Delivered
<1> QED
  BY <1>4, <1>5, <1>6 DEF UploadInv

LEMMA BeginKeeps ==
    ASSUME TypeOK, UploadInv, NEW t \in Task, Begin(t)
    PROVE  UploadInv'
<1>1. /\ (\E lends \in BOOLEAN : Send(t, UploadsAs[t], "begin", lends, 0)) /\ stage[t] = "none" /\ flight[t] = 0
      /\ stage' = [stage EXCEPT ![t] = "opening"] /\ UNCHANGED <<failed, sent, known>>
  BY DEF Begin
<1>2. "begin" \in Kind /\ 0 \in Nat /\ UploadsAs[t] \in Client
  BY ServesOne DEF Kind
<1>3. PICK lends \in BOOLEAN : Send(t, UploadsAs[t], "begin", lends, 0)
  BY <1>1
<1>4. PICK r \in Request :
             /\ r.task = t /\ r.kind = "begin" /\ r.chunk = 0
             /\ Asked' = Asked \cup {r} /\ Answered' = Answered
  BY <1>2, <1>3, SendAsks
<1>5. /\ \A u \in Task : /\ Begins(u)' = IF u = t THEN Begins(u) + 1 ELSE Begins(u)
                         /\ Commits(u)' = Commits(u)
                         /\ Aborts(u)' = Aborts(u)
                         /\ flight'[u] = IF u = t THEN flight[u] + 1 ELSE flight[u]
      /\ UNCHANGED <<upload, nextUpload, uploadClient, session, applied, published>>
  BY <1>2, <1>3, SendCounts
<1>6. IdsInv' /\ OwnerInv' /\ AskedInv' /\ AnsweredInv' /\ OrderInv' /\ PublishedWhole'
  BY <1>1, <1>2, <1>3, SendKeeps
<1>7. \A u \in Task : stage'[u] = IF u = t THEN "opening" ELSE stage[u]
  BY <1>1 DEF TypeOK
<1>8. PhasesInv'
  <2>1. ASSUME NEW u \in Task
        PROVE  /\ Begins(u)' = IF stage'[u] = "opening" THEN 1 ELSE 0
               /\ Commits(u)' = IF stage'[u] = "closing" THEN 1 ELSE 0
               /\ Aborts(u)' = IF stage'[u] = "aborting" THEN 1 ELSE 0
    BY <1>1, <1>4, <1>5, <1>7 DEF UploadInv, PhasesInv
  <2>2. ASSUME NEW u \in Task, stage'[u] \in {"opening", "closing"} PROVE flight'[u] = 1
    BY <1>1, <1>4, <1>5, <1>7, <2>2 DEF UploadInv, PhasesInv, TypeOK
  <2> QED
    BY <1>1, <1>4, <1>5, <1>7, <2>1, <2>2 DEF UploadInv, PhasesInv, Serves
<1>9. OpenInv'
  BY <1>1, <1>4, <1>5, <1>7 DEF UploadInv, OpenInv, Delivered
<1> QED
  BY <1>6, <1>8, <1>9 DEF UploadInv

LEMMA WriteKeeps ==
    ASSUME TypeOK, UploadInv, NEW t \in Task, Write(t)
    PROVE  UploadInv'
<1> DEFINE chunk == sent[t] + 1
<1>1. /\ (\E lends \in BOOLEAN : Send(t, UploadsAs[t], "write", lends, chunk)) /\ stage[t] = "open"
      /\ sent' = [sent EXCEPT ![t] = @ + 1] /\ UNCHANGED <<stage, failed, known>>
  BY DEF Write
<1>2. chunk \in Nat /\ chunk = sent[t] + 1 /\ sent[t] \in Nat
  BY DEF TypeOK
<1> HIDE DEF chunk
<1>3. "write" \in Kind /\ UploadsAs[t] \in Client
  BY ServesOne DEF Kind
<1>4. PICK lends \in BOOLEAN : Send(t, UploadsAs[t], "write", lends, chunk)
  BY <1>1
<1>5. PICK r \in Request :
             /\ r.task = t /\ r.kind = "write" /\ r.chunk = chunk /\ r.id = known[t]
             /\ Asked' = Asked \cup {r} /\ Answered' = Answered
  BY <1>2, <1>3, <1>4, SendAsks
<1>6. /\ \A u \in Task : /\ Begins(u)' = Begins(u)
                         /\ Commits(u)' = Commits(u)
                         /\ Aborts(u)' = Aborts(u)
                         /\ flight'[u] = IF u = t THEN flight[u] + 1 ELSE flight[u]
      /\ UNCHANGED <<upload, nextUpload, uploadClient, session, applied, published>>
  BY <1>2, <1>3, <1>4, SendCounts
<1>7. IdsInv' /\ OwnerInv' /\ AskedInv' /\ AnsweredInv' /\ OrderInv' /\ PublishedWhole'
  BY <1>1, <1>2, <1>3, <1>4, SendKeeps
<1>8. \A u \in Task : sent'[u] = IF u = t THEN chunk ELSE sent[u]
  BY <1>1, <1>2 DEF TypeOK
<1>9. PhasesInv'
  <2>1. ASSUME NEW u \in Task
        PROVE  /\ Begins(u)' = IF stage'[u] = "opening" THEN 1 ELSE 0
               /\ Commits(u)' = IF stage'[u] = "closing" THEN 1 ELSE 0
               /\ Aborts(u)' = IF stage'[u] = "aborting" THEN 1 ELSE 0
    BY <1>1, <1>5, <1>6 DEF UploadInv, PhasesInv
  <2>2. ASSUME NEW u \in Task, stage'[u] \in {"opening", "closing"} PROVE flight'[u] = 1
    BY <1>1, <1>5, <1>6, <2>2 DEF UploadInv, PhasesInv, TypeOK
  <2> QED
    BY <1>1, <1>5, <1>6, <1>8, <2>1, <2>2 DEF UploadInv, PhasesInv, Serves
<1>10. OpenInv'
  <2>1. ASSUME NEW u \in Task, stage[u] = "open"
        PROVE  /\ \A q \in Asked' : q.task = u /\ q.kind = "write" => q.id = known[u] /\ q.chunk <= sent'[u]
               /\ \A k \in Range(applied) : k <= sent'[u]
               /\ failed[u] = FALSE => \A k \in 1 .. sent'[u] : Delivered(u, k)'
    <3>1. /\ \A q \in Asked : q.task = u /\ q.kind = "write" => q.id = known[u] /\ q.chunk <= sent[u]
          /\ \A k \in Range(applied) : k <= sent[u]
          /\ failed[u] = FALSE => \A k \in 1 .. sent[u] : Delivered(u, k)
      BY <2>1 DEF UploadInv, OpenInv
    <3>2. Asked \subseteq Request /\ Range(applied) \subseteq Nat /\ sent[u] \in Nat
      BY ItemTypes, RangeChanges DEF TypeOK
    <3>3. ASSUME NEW q \in Asked', q.task = u, q.kind = "write"
          PROVE  q.id = known[u] /\ q.chunk <= sent'[u]
      <4>1. CASE q = r
        BY <1>2, <1>5, <1>6, <1>8, <3>3, <4>1
      <4>2. CASE q \in Asked
        <5>1. q.chunk \in Nat /\ q.chunk <= sent[u] /\ q.id = known[u]
          BY <3>1, <3>2, <3>3, <4>2 DEF Request
        <5> QED
          BY <1>2, <1>8, <3>2, <5>1
      <4> QED
        BY <1>5, <1>6, <4>1, <4>2
    <3>4. \A k \in Range(applied) : k <= sent'[u]
      BY <1>2, <1>8, <3>1, <3>2
    <3>5. ASSUME failed[u] = FALSE, NEW k \in 1 .. sent'[u] PROVE Delivered(u, k)'
      <4>1. CASE k \in 1 .. sent[u]
        BY <1>5, <1>6, <3>1, <3>5, <4>1 DEF Delivered
      <4>2. CASE u = t /\ k = chunk
        BY <1>5, <1>6, <4>2 DEF Delivered
      <4>3. k \in 1 .. sent[u] \/ (u = t /\ k = chunk)
        BY <1>2, <1>8, <3>2, <3>5
      <4> QED
        BY <4>1, <4>2, <4>3
    <3> QED
      BY <3>3, <3>4, <3>5
  <2> QED
    BY <1>1, <1>5, <1>6, <2>1 DEF OpenInv
<1> QED
  BY <1>7, <1>9, <1>10 DEF UploadInv

\* A commit is sent only for an upload whose every chunk is on the card.
LEMMA CommitKeeps ==
    ASSUME TypeOK, SettleInv, UploadInv, NEW t \in Task, Commit(t)
    PROVE  UploadInv'
<1>1. /\ (\E lends \in BOOLEAN : Send(t, UploadsAs[t], "commit", lends, 0)) /\ stage[t] = "open" /\ flight[t] = 0
      /\ failed[t] = FALSE /\ sent[t] = Chunks
      /\ stage' = [stage EXCEPT ![t] = "closing"] /\ UNCHANGED <<failed, sent, known>>
  BY DEF Commit, TypeOK
<1>2. "commit" \in Kind /\ 0 \in Nat /\ UploadsAs[t] \in Client
  BY ServesOne DEF Kind
<1>3. PICK lends \in BOOLEAN : Send(t, UploadsAs[t], "commit", lends, 0)
  BY <1>1
<1>4. PICK r \in Request :
             /\ r.task = t /\ r.kind = "commit" /\ r.chunk = 0
             /\ Asked' = Asked \cup {r} /\ Answered' = Answered
  BY <1>2, <1>3, SendAsks
<1>5. /\ \A u \in Task : /\ Begins(u)' = Begins(u)
                         /\ Commits(u)' = IF u = t THEN Commits(u) + 1 ELSE Commits(u)
                         /\ Aborts(u)' = Aborts(u)
                         /\ flight'[u] = IF u = t THEN flight[u] + 1 ELSE flight[u]
      /\ UNCHANGED <<upload, nextUpload, uploadClient, session, applied, published>>
  BY <1>2, <1>3, SendCounts
<1>6. Whole
  <2>1. \A q \in Asked \cup Answered : q.task # t
    <3>1. ASSUME NEW q \in Asked \cup Answered, q.task = t PROVE FALSE
      <4>1. Total(Of(t, Kind)) > 0 /\ Total(Of(t, Kind)) = 0
        BY <1>1, <3>1, TaskOfAnItem DEF SettleInv
      <4> QED
        BY <4>1
    <3> QED
      BY <3>1
  <2>2. \A k \in 1 .. sent[t] : Delivered(t, k)
    BY <1>1 DEF UploadInv, OpenInv
  <2> QED
    BY <1>1, <2>1, <2>2 DEF Whole, Delivered
<1>7. IdsInv' /\ OwnerInv' /\ AskedInv' /\ AnsweredInv' /\ OrderInv' /\ PublishedWhole'
  BY <1>1, <1>2, <1>6, <1>3, SendKeeps
<1>8. \A u \in Task : stage'[u] = IF u = t THEN "closing" ELSE stage[u]
  BY <1>1 DEF TypeOK
<1>9. PhasesInv'
  <2>1. ASSUME NEW u \in Task
        PROVE  /\ Begins(u)' = IF stage'[u] = "opening" THEN 1 ELSE 0
               /\ Commits(u)' = IF stage'[u] = "closing" THEN 1 ELSE 0
               /\ Aborts(u)' = IF stage'[u] = "aborting" THEN 1 ELSE 0
    BY <1>1, <1>4, <1>5, <1>8 DEF UploadInv, PhasesInv
  <2>2. ASSUME NEW u \in Task, stage'[u] \in {"opening", "closing"} PROVE flight'[u] = 1
    BY <1>1, <1>4, <1>5, <1>8, <2>2 DEF UploadInv, PhasesInv, TypeOK
  <2> QED
    BY <1>1, <1>4, <1>5, <1>8, <2>1, <2>2 DEF UploadInv, PhasesInv, Serves
<1>10. OpenInv'
  BY <1>1, <1>4, <1>5, <1>8 DEF UploadInv, OpenInv, Delivered
<1> QED
  BY <1>7, <1>9, <1>10 DEF UploadInv

LEMMA AbortKeeps ==
    ASSUME TypeOK, UploadInv, NEW t \in Task, Abort(t)
    PROVE  UploadInv'
<1>1. /\ (\E lends \in BOOLEAN : Send(t, UploadsAs[t], "abort", lends, 0)) /\ stage[t] = "open"
      /\ stage' = [stage EXCEPT ![t] = "aborting"] /\ UNCHANGED <<failed, sent, known>>
  BY DEF Abort
<1>2. "abort" \in Kind /\ 0 \in Nat /\ UploadsAs[t] \in Client
  BY ServesOne DEF Kind
<1>3. PICK lends \in BOOLEAN : Send(t, UploadsAs[t], "abort", lends, 0)
  BY <1>1
<1>4. PICK r \in Request :
             /\ r.task = t /\ r.kind = "abort" /\ r.chunk = 0
             /\ Asked' = Asked \cup {r} /\ Answered' = Answered
  BY <1>2, <1>3, SendAsks
<1>5. /\ \A u \in Task : /\ Begins(u)' = Begins(u)
                         /\ Commits(u)' = Commits(u)
                         /\ Aborts(u)' = IF u = t THEN Aborts(u) + 1 ELSE Aborts(u)
                         /\ flight'[u] = IF u = t THEN flight[u] + 1 ELSE flight[u]
      /\ UNCHANGED <<upload, nextUpload, uploadClient, session, applied, published>>
  BY <1>2, <1>3, SendCounts
<1>6. IdsInv' /\ OwnerInv' /\ AskedInv' /\ AnsweredInv' /\ OrderInv' /\ PublishedWhole'
  BY <1>1, <1>2, <1>3, SendKeeps
<1>7. \A u \in Task : stage'[u] = IF u = t THEN "aborting" ELSE stage[u]
  BY <1>1 DEF TypeOK
<1>8. PhasesInv'
  <2>1. ASSUME NEW u \in Task
        PROVE  /\ Begins(u)' = IF stage'[u] = "opening" THEN 1 ELSE 0
               /\ Commits(u)' = IF stage'[u] = "closing" THEN 1 ELSE 0
               /\ Aborts(u)' = IF stage'[u] = "aborting" THEN 1 ELSE 0
    BY <1>1, <1>4, <1>5, <1>7 DEF UploadInv, PhasesInv
  <2>2. ASSUME NEW u \in Task, stage'[u] \in {"opening", "closing"} PROVE flight'[u] = 1
    BY <1>1, <1>4, <1>5, <1>7, <2>2 DEF UploadInv, PhasesInv, TypeOK
  <2> QED
    BY <1>1, <1>4, <1>5, <1>7, <2>1, <2>2 DEF UploadInv, PhasesInv, Serves
<1>9. OpenInv'
  BY <1>1, <1>4, <1>5, <1>7 DEF UploadInv, OpenInv, Delivered
<1> QED
  BY <1>6, <1>8, <1>9 DEF UploadInv

(***************************************************************************)
(* Executing.                                                              *)
(***************************************************************************)
NextRequest == mailbox[NextIndex]

LEMMA NextExecuted ==
    ASSUME TypeOK, ExecuteNext, Eligible # {}
    PROVE  /\ NextRequest \in Request /\ NextRequest \in Asked /\ Perform(NextRequest)
           /\ uploadClient # NoClient => NextRequest.client = uploadClient
           /\ Asked' \subseteq Asked /\ Asked \subseteq Asked' \cup {NextRequest}
           /\ Answered' = Answered \cup {answer'}
           /\ answer'.task = NextRequest.task /\ answer'.kind = NextRequest.kind
           /\ UNCHANGED <<flight, stage, failed, sent, known>>
           /\ \A t \in Task : Begins(t)' = Begins(t) /\ Commits(t)' = Commits(t) /\ Aborts(t)' = Aborts(t)
<1>1. PICK r \in Request :
             /\ Perform(r)
             /\ ExecuteNext => r = mailbox[NextIndex]
             /\ r \in Asked
             /\ Asked' \subseteq Asked /\ Asked \subseteq Asked' \cup {r}
             /\ Answered' = Answered \cup {answer'}
             /\ \A t, K : Total(Of(t, K))' = Total(Of(t, K))
  BY ExecuteEffect
<1>2. r = NextRequest
  BY <1>1 DEF NextRequest
<1>3. answer'.task = r.task /\ answer'.kind = r.kind
  BY <1>1, PerformAnswers
<1>4. uploadClient # NoClient => r.client = uploadClient
  BY <1>2, QueueTypes, NextIndexExists DEF NextRequest, Eligible
<1>5. UNCHANGED <<flight, stage, failed, sent, known>>
  BY DEF ExecuteNext, tasks
<1>6. \A t \in Task : Begins(t)' = Begins(t) /\ Commits(t)' = Commits(t) /\ Aborts(t)' = Aborts(t)
  BY <1>1 DEF Begins, Commits, Aborts
<1> QED
  BY <1>1, <1>2, <1>3, <1>4, <1>5, <1>6

\* A begin, commit or abort that is executed has no second one.
LEMMA ExecutesOne ==
    ASSUME TypeOK, PhasesInv, ExecuteNext, Eligible # {}
    PROVE  /\ NextRequest.task \in Task
           /\ NextRequest.kind = "begin" => /\ stage[NextRequest.task] = "opening"
                                            /\ \A q \in Asked' \cup Answered :
                                                  ~(q.task = NextRequest.task /\ q.kind = "begin")
           /\ NextRequest.kind = "commit" => /\ stage[NextRequest.task] = "closing"
                                             /\ \A q \in Asked' \cup Answered :
                                                   ~(q.task = NextRequest.task /\ q.kind = "commit")
           /\ NextRequest.kind = "abort" => /\ stage[NextRequest.task] = "aborting"
                                            /\ \A q \in Asked' \cup Answered :
                                                  ~(q.task = NextRequest.task /\ q.kind = "abort")
<1> DEFINE r == NextRequest
<1>1. r \in Asked /\ r \in Request /\ Asked' \subseteq Asked /\ r = mailbox[NextIndex]
  BY NextExecuted DEF NextRequest
<1> HIDE DEF r
<1>2. /\ r.task \in Task
      /\ r.kind = "begin" => stage[r.task] = "opening" /\ Begins(r.task) = 1
      /\ r.kind = "commit" => stage[r.task] = "closing" /\ Commits(r.task) = 1
      /\ r.kind = "abort" => stage[r.task] = "aborting" /\ Aborts(r.task) = 1
  BY <1>1, PhaseOfAnItem
<1>3. ASSUME NEW k, r.kind = k, Total(Of(r.task, {k})) = 1, NEW q \in Asked' \cup Answered,
             q.task = r.task, q.kind = k
      PROVE  FALSE
  <2>1. q \in Request \cup Answer
    BY <1>1, <1>3, ItemTypes
  <2>2. r \in Of(r.task, {k}) /\ q \in Of(r.task, {k})
    BY <1>1, <1>3, <2>1 DEF Of
  <2> DEFINE P == Of(r.task, {k})
  <2>3. mailbox[NextIndex] \in P /\ Total(P) = 1
    BY <1>1, <1>3, <2>2
  <2> HIDE DEF P
  <2>4. \A x \in Asked' \cup Answered : x \notin P
    BY <2>3, ExecutedAlone
  <2> QED
    BY <1>3, <2>2, <2>4 DEF P
<1> QED
  BY <1>2, <1>3 DEF Begins, Commits, Aborts, r

\* What is left in the queues keeps its order.
LEMMA QueueRest ==
    ASSUME TypeOK, ExecuteNext, Eligible # {}
    PROVE  /\ \A i \in DOMAIN Queue' : \E k \in DOMAIN Queue : k # NextIndex /\ Queue'[i] = Queue[k]
           /\ \A i, j \in DOMAIN Queue' : i < j =>
                \E k, m \in DOMAIN Queue : /\ k # NextIndex /\ m # NextIndex /\ k < m
                                           /\ Queue'[i] = Queue[k] /\ Queue'[j] = Queue[m]
<1> DEFINE n == Len(Queue)
           s == NextIndex
           q == Queue'
           Was(i) == IF i < s THEN i ELSE i + 1
<1>1. n \in Nat /\ DOMAIN Queue = 1 .. n
  BY QueueIsSeq
<1>2. DOMAIN q = 1 .. n - 1 /\ s \in DOMAIN Queue /\ \A i \in DOMAIN q : q[i] = Queue[Was(i)]
  BY QueueShrinks
<1> HIDE DEF n, s, q
<1>3. \A i \in 1 .. n - 1 : Was(i) \in 1 .. n /\ Was(i) # s
  BY <1>1, <1>2
<1>4. \A i, j \in 1 .. n - 1 : i < j => Was(i) < Was(j)
  BY <1>1, <1>2
<1>5. \A i \in DOMAIN q : \E k \in DOMAIN Queue : k # s /\ q[i] = Queue[k]
  BY <1>1, <1>2, <1>3
<1>6. ASSUME NEW i \in DOMAIN q, NEW j \in DOMAIN q, i < j
      PROVE  \E k, m \in DOMAIN Queue : /\ k # s /\ m # s /\ k < m
                                        /\ q[i] = Queue[k] /\ q[j] = Queue[m]
  <2>1. /\ Was(i) \in DOMAIN Queue /\ Was(j) \in DOMAIN Queue /\ Was(i) # s /\ Was(j) # s
        /\ Was(i) < Was(j) /\ q[i] = Queue[Was(i)] /\ q[j] = Queue[Was(j)]
    BY <1>1, <1>2, <1>3, <1>4, <1>6
  <2> HIDE DEF Was
  <2> QED
    BY <2>1
<1> QED
  BY <1>5, <1>6 DEF s, q

\* A request that leaves the upload alone, or is refused.
LEMMA QuietExecution ==
    ASSUME TypeOK, UploadInv, ExecuteNext, Eligible # {}, UNCHANGED <<owner, published>>,
           NextRequest.kind \notin {"commit", "abort"}, answer'.outcome # "Busy",
           NextRequest.kind \in {"begin", "write"} => answer'.outcome # "ok"
    PROVE  UploadInv'
<1> DEFINE r == NextRequest
<1>1. /\ r \in Asked /\ Asked' \subseteq Asked /\ Asked \subseteq Asked' \cup {r}
      /\ Answered' = Answered \cup {answer'} /\ answer'.task = r.task /\ answer'.kind = r.kind
      /\ UNCHANGED <<flight, stage, failed, sent, known>>
      /\ \A t \in Task : Begins(t)' = Begins(t) /\ Commits(t)' = Commits(t) /\ Aborts(t)' = Aborts(t)
  BY NextExecuted
<1>2. UNCHANGED <<upload, nextUpload, uploadClient, session, applied, published>>
  BY DEF owner
<1>3. r.kind \notin {"commit", "abort"} /\ (r.kind \in {"begin", "write"} => answer'.outcome # "ok")
  OBVIOUS
<1> HIDE DEF r
<1>4. IdsInv' /\ OwnerInv' /\ PublishedWhole'
  BY <1>1, <1>2 DEF UploadInv, IdsInv, OwnerInv, PublishedWhole, Serves
<1>5. PhasesInv'
  BY <1>1, <1>2 DEF UploadInv, PhasesInv, Serves
<1>6. AskedInv'
  BY <1>1, <1>2 DEF UploadInv, AskedInv, Serves, Whole
<1>7. AnsweredInv'
  <2>1. ASSUME NEW a \in Answered'
        PROVE  /\ a.outcome # "Busy"
               /\ a.kind = "begin" /\ a.outcome = "ok" => Serves(a.task) /\ a.id = upload /\ applied = << >>
               /\ a.kind = "begin" /\ a.outcome # "ok" => ~Serves(a.task)
               /\ a.kind = "commit" => a.outcome = "ok" /\ ~Serves(a.task)
               /\ a.kind = "abort" => ~Serves(a.task)
    <3>1. CASE a \in Answered
      BY <3>1 DEF UploadInv, AnsweredInv
    <3>2. CASE a = answer'
      BY <1>1, <1>3, <3>2 DEF UploadInv, AskedInv
    <3> QED
      BY <1>1, <3>1, <3>2
  <2> QED
    BY <1>2, <2>1 DEF AnsweredInv, Serves
<1>8. OpenInv'
  <2>1. ASSUME NEW t \in Task, NEW k, Delivered(t, k) PROVE Delivered(t, k)'
    BY <1>1, <1>2, <1>3, <2>1 DEF Delivered
  <2> QED
    BY <1>1, <1>2, <2>1 DEF UploadInv, OpenInv
<1>9. OrderInv'
  <2>1. WritesInOrder'
    BY <1>2 DEF UploadInv, OrderInv, WritesInOrder
  <2>2. ASSUME NEW i \in Writes', NEW k \in Range(applied) PROVE k < Queue'[i].chunk
    <3>1. PICK m \in DOMAIN Queue : Queue'[i] = Queue[m]
      BY QueueRest DEF Writes
    <3>2. m \in Writes
      BY <1>2, <3>1 DEF Writes
    <3> QED
      BY <3>1, <3>2 DEF UploadInv, OrderInv
  <2>3. ASSUME NEW i \in Writes', NEW j \in Writes', i < j PROVE Queue'[i].chunk < Queue'[j].chunk
    <3>1. i \in DOMAIN Queue' /\ j \in DOMAIN Queue'
      BY DEF Writes
    <3>2. PICK k \in DOMAIN Queue, m \in DOMAIN Queue :
              k < m /\ Queue'[i] = Queue[k] /\ Queue'[j] = Queue[m]
      BY <2>3, <3>1, QueueRest
    <3>3. k \in Writes /\ m \in Writes
      BY <1>2, <3>2 DEF Writes
    <3> QED
      BY <3>2, <3>3 DEF UploadInv, OrderInv
  <2> QED
    BY <1>2, <2>1, <2>2, <2>3 DEF OrderInv
<1> QED
  BY <1>4, <1>5, <1>6, <1>7, <1>8, <1>9 DEF UploadInv

\* A begin is executed only when the owner has no upload.
LEMMA ExecuteBeginKeeps ==
    ASSUME TypeOK, UploadInv, ExecuteNext, Eligible # {}, BeginUpload(NextRequest)
    PROVE  UploadInv'
<1> DEFINE r == NextRequest
<1>1. /\ r \in Request /\ r \in Asked /\ Asked' \subseteq Asked /\ Answered' = Answered \cup {answer'}
      /\ uploadClient # NoClient => r.client = uploadClient
      /\ answer'.task = r.task /\ answer'.kind = r.kind
      /\ UNCHANGED <<flight, stage, failed, sent, known>>
      /\ \A t \in Task : Begins(t)' = Begins(t) /\ Commits(t)' = Commits(t) /\ Aborts(t)' = Aborts(t)
  BY NextExecuted
<1>2. r.kind = "begin" /\ r.task \in Task
  BY <1>1, TaskOfAnItem DEF BeginUpload
<1>3. r.client = UploadsAs[r.task] /\ ~Serves(r.task)
  BY <1>1, <1>2 DEF UploadInv, IdsInv, AskedInv
<1>4. upload = NoUpload /\ uploadClient = NoClient
  BY <1>1, <1>3 DEF UploadInv, OwnerInv, Serves
<1>5. CASE UNCHANGED owner /\ answer'.outcome = "Backend"
  <2>1. UNCHANGED published
    BY DEF BeginUpload
  <2> QED
    BY <1>2, <1>5, <2>1, QuietExecution
<1>6. CASE /\ answer'.outcome = "ok" /\ answer'.id = nextUpload
           /\ upload' = nextUpload /\ nextUpload' = nextUpload + 1 /\ uploadClient' = r.client
           /\ session' = TRUE /\ applied' = << >>
  <2>1. published' = published /\ nextUpload \in Nat \ {0}
    BY DEF BeginUpload, TypeOK
  <2>2. /\ stage[r.task] = "opening"
        /\ \A q \in Asked' \cup Answered : ~(q.task = r.task /\ q.kind = "begin")
    BY <1>2, ExecutesOne DEF UploadInv
  <2> HIDE DEF r
  <2>3. \A u \in Task : ~Serves(u)
    BY <1>4, ServesOne DEF Serves
  <2>4. \A u \in Task : Serves(u)' <=> u = r.task
    BY <1>2, <1>3, <1>6, ServesOne DEF Serves
  <2>5. \A q \in Asked \cup Answered : q.task \in Task /\ q.kind \in Kind
    BY TaskOfAnItem
  <2>6. IdsInv'
    <3>1. ASSUME NEW q \in Asked', q.kind \in {"write", "commit", "abort"}
          PROVE  q.id \in 1 .. nextUpload' - 1 /\ q.id # upload'
      <4>1. q.id \in 1 .. nextUpload - 1
        BY <1>1, <3>1 DEF UploadInv, IdsInv
      <4> QED
        BY <1>6, <2>1, <4>1
    <3> QED
      BY <1>1, <3>1 DEF UploadInv, IdsInv
  <2>7. OwnerInv'
    <3>1. uploadClient' # NoClient /\ upload' # NoUpload /\ upload' < nextUpload'
      BY <1>2, <1>3, <1>6, <2>1, ServesOne DEF NoUpload
    <3> QED
      BY <1>2, <1>6, <2>4, <3>1 DEF OwnerInv
  <2>8. PhasesInv'
    <3>1. ASSUME NEW u \in Task
          PROVE  /\ stage[u] = "none" => ~Serves(u)'
                 /\ stage[u] # "open"
      BY <2>2, <2>3, <2>4 DEF UploadInv, PhasesInv
    <3> QED
      BY <1>1, <3>1 DEF UploadInv, PhasesInv, Serves
  <2>9. AskedInv'
    <3>1. ASSUME NEW q \in Asked'
          PROVE  (q.kind = "begin" => ~Serves(q.task)') /\ q.kind \notin {"commit", "abort"}
      BY <1>1, <2>2, <2>3, <2>4, <2>5 DEF UploadInv, AskedInv
    <3> QED
      BY <3>1 DEF AskedInv, Serves
  <2>10. AnsweredInv'
    <3>1. ASSUME NEW a \in Answered
          PROVE  /\ a.outcome # "Busy"
                 /\ ~(a.kind = "begin" /\ a.outcome = "ok")
                 /\ a.kind = "begin" => a.task # r.task
                 /\ a.kind = "commit" => a.outcome = "ok"
      BY <2>2, <2>3, <2>5 DEF UploadInv, AnsweredInv
    <3>2. ASSUME NEW a \in Answered, a.kind \in {"commit", "abort"} PROVE a.task # r.task
      BY <2>2, <3>2, PhaseOfAnItem DEF UploadInv
    <3>3. ASSUME NEW a \in Answered'
          PROVE  /\ a.outcome # "Busy"
                 /\ a.kind = "begin" /\ a.outcome = "ok" => Serves(a.task)' /\ a.id = upload' /\ applied' = << >>
                 /\ a.kind = "begin" /\ a.outcome # "ok" => ~Serves(a.task)'
                 /\ a.kind = "commit" => a.outcome = "ok" /\ ~Serves(a.task)'
                 /\ a.kind = "abort" => ~Serves(a.task)'
      <4>1. CASE a \in Answered
        BY <2>4, <2>5, <3>1, <3>2, <4>1
      <4>2. CASE a = answer'
        BY <1>1, <1>2, <1>6, <2>4, <4>2
      <4> QED
        BY <1>1, <3>3, <4>1, <4>2
    <3> QED
      BY <3>3 DEF AnsweredInv, Serves
  <2>11. OpenInv'
    BY <1>1, <2>3 DEF UploadInv, PhasesInv, OpenInv
  <2>12. OrderInv'
    <3>1. Writes' = {}
      <4>1. ASSUME NEW i \in Writes' PROVE FALSE
        <5>1. PICK m \in DOMAIN Queue : Queue'[i] = Queue[m]
          BY QueueRest DEF Writes
        <5>2. Queue[m] \in Asked /\ Queue[m].kind = "write" /\ Queue[m].id = nextUpload
          BY <1>6, <5>1, QueueIsSeq DEF Writes
        <5>3. Queue[m].id \in 1 .. nextUpload - 1
          BY <5>2 DEF UploadInv, IdsInv
        <5> QED
          BY <2>1, <5>2, <5>3
      <4> QED
        BY <4>1
    <3>2. WritesInOrder'
      BY <1>6 DEF WritesInOrder
    <3> QED
      BY <3>1, <3>2 DEF OrderInv
  <2>13. PublishedWhole'
    BY <2>1 DEF UploadInv, PublishedWhole
  <2> QED
    BY <2>6, <2>7, <2>8, <2>9, <2>10, <2>11, <2>12, <2>13 DEF UploadInv
<1>7. \/ UNCHANGED owner /\ answer'.outcome = "Backend"
      \/ /\ answer'.outcome = "ok" /\ answer'.id = nextUpload
         /\ upload' = nextUpload /\ nextUpload' = nextUpload + 1 /\ uploadClient' = r.client
         /\ session' = TRUE /\ applied' = << >>
  <2>1. \A o, i : AnswerWith(r, o, i) => answer'.outcome = o /\ answer'.id = i
    BY DEF AnswerWith
  <2> QED
    BY <1>4, <2>1 DEF BeginUpload
<1> QED
  BY <1>5, <1>6, <1>7

\* The next write of the upload is the first of them: the pop keeps the order of equals.
LEMMA NextWriteIsFirst ==
    ASSUME TypeOK, UploadInv, ExecuteNext, Eligible # {},
           NextRequest.kind = "write", NextRequest.id = upload
    PROVE  /\ NextIndex \in Writes /\ Queue[NextIndex] = NextRequest
           /\ \A m \in Writes : m # NextIndex => NextIndex < m
<1> DEFINE s == NextIndex
<1>1. s \in DOMAIN Queue /\ Queue[s] = NextRequest /\ NextRequest = mailbox[s]
  BY QueueShrinks DEF NextRequest
<1>2. /\ s \in 1 .. Len(mailbox)
      /\ \A j \in Eligible : \/ Priority(mailbox[s]) > Priority(mailbox[j])
                             \/ Priority(mailbox[s]) = Priority(mailbox[j]) /\ s <= j
  BY QueueTypes, NextIndexExists
<1>3. /\ DOMAIN Queue = 1 .. Len(Queue) /\ Len(mailbox) \in Nat /\ Len(Queue) \in Nat
      /\ \A i \in 1 .. Len(mailbox) : Queue[i] = mailbox[i]
      /\ \A i \in DOMAIN Queue : Queue[i] \in Asked
      /\ DOMAIN mailbox = 1 .. Len(mailbox)
  BY QueueIsSeq, QueueTypes, LenProperties
<1> HIDE DEF s
<1>4. s \in Writes
  BY <1>1 DEF Writes
<1>5. ASSUME NEW m \in Writes, m # s PROVE s < m
  <2>1. m \in 1 .. Len(Queue) /\ s \in Nat /\ m \in Nat
    BY <1>2, <1>3 DEF Writes
  <2>2. CASE m < s
    <3>1. m \in 1 .. Len(mailbox) /\ Queue[m] = mailbox[m]
      BY <1>2, <1>3, <2>1, <2>2
    <3>2. /\ \A i \in Writes : Queue[i].kind = "write" /\ Queue[i].client = uploadClient
      BY <1>3 DEF Writes, UploadInv, IdsInv, Serves
    <3>3. mailbox[m].kind = "write" /\ mailbox[m].client = uploadClient
          /\ mailbox[s].kind = "write" /\ mailbox[s].client = uploadClient
      BY <1>1, <1>4, <1>5, <3>1, <3>2
    <3>4. m \in Eligible
      BY <1>3, <3>1, <3>3 DEF Eligible
    <3>5. Priority(mailbox[m]) = Priority(mailbox[s]) /\ Priority(mailbox[m]) \in 0 .. 3
      BY <3>3, PriorityType DEF Priority
    <3> QED
      BY <1>2, <2>1, <2>2, <3>4, <3>5
  <2> QED
    BY <1>5, <2>1, <2>2
<1> QED
  BY <1>1, <1>4, <1>5 DEF s

\* A write adds its chunk to the present upload, in its place, or is refused.
LEMMA ExecuteWriteKeeps ==
    ASSUME TypeOK, SettleInv, UploadInv, ExecuteNext, Eligible # {}, WriteUpload(NextRequest)
    PROVE  UploadInv'
<1> DEFINE r == NextRequest
<1>1. /\ r \in Request /\ r \in Asked /\ Asked' \subseteq Asked /\ Asked \subseteq Asked' \cup {r}
      /\ Answered' = Answered \cup {answer'}
      /\ answer'.task = r.task /\ answer'.kind = r.kind
      /\ UNCHANGED <<flight, stage, failed, sent, known>>
      /\ \A t \in Task : Begins(t)' = Begins(t) /\ Commits(t)' = Commits(t) /\ Aborts(t)' = Aborts(t)
  BY NextExecuted
<1>2. r.kind = "write" /\ r.task \in Task /\ r.chunk \in Nat /\ published' = published
  BY <1>1, TaskOfAnItem DEF WriteUpload, Request
<1>3. CASE UNCHANGED owner /\ answer'.outcome \in {"Stale", "Backend"}
  BY <1>2, <1>3, QuietExecution
<1>4. CASE /\ r.id = upload /\ answer'.outcome = "ok"
           /\ applied' = Append(applied, r.chunk)
           /\ UNCHANGED <<upload, nextUpload, uploadClient, session>>
  <2>1. Serves(r.task)
    BY <1>1, <1>2, <1>4 DEF UploadInv, IdsInv
  <2>2. applied \in Seq(Nat) /\ Range(applied') = Range(applied) \cup {r.chunk}
    <3>1. applied \in Seq(Nat)
      BY DEF TypeOK
    <3>2. Range(Append(applied, r.chunk)) = Range(applied) \cup {r.chunk}
      BY <1>2, <3>1, RangeChanges
    <3> QED
      BY <1>4, <3>1, <3>2
  <2>3. /\ NextIndex \in Writes /\ Queue[NextIndex] = r
        /\ \A m \in Writes : m # NextIndex => NextIndex < m
    BY <1>2, <1>4, NextWriteIsFirst
  <2>4. r = mailbox[NextIndex]
    BY DEF NextRequest
  <2> HIDE DEF r
  <2>5. \A u \in Task : Serves(u) => u = r.task
    BY <1>2, <2>1, ServesOne DEF Serves
  <2>6. IdsInv' /\ OwnerInv' /\ PhasesInv' /\ PublishedWhole'
    <3>1. IdsInv' /\ OwnerInv' /\ PublishedWhole'
      BY <1>1, <1>2, <1>4 DEF UploadInv, IdsInv, OwnerInv, PublishedWhole, Serves
    <3>2. PhasesInv'
      BY <1>1, <1>4 DEF UploadInv, PhasesInv, Serves
    <3> QED
      BY <3>1, <3>2
  <2>7. AskedInv'
    <3>1. Whole => Whole'
      BY <2>2 DEF Whole
    <3> QED
      BY <1>1, <1>4, <3>1 DEF UploadInv, AskedInv, Serves
  <2>8. AnsweredInv'
    <3>1. ASSUME NEW a \in Answered, a.kind = "begin", a.outcome = "ok" PROVE FALSE
      <4>1. a.task \in Task /\ stage[a.task] = "opening" /\ Serves(a.task)
        BY <3>1, PhaseOfAnItem DEF UploadInv, AnsweredInv
      <4>2. a.task = r.task /\ flight[r.task] = 1
        BY <2>5, <4>1 DEF UploadInv, PhasesInv
      <4> DEFINE P == Of(r.task, Kind)
      <4>3. Total(P) = 1
        BY <1>2, <4>2 DEF SettleInv
      <4>4. r \in P /\ a \in P
        <5>1. a \in Answer /\ "write" \in Kind /\ "begin" \in Kind
          BY ItemTypes DEF Kind
        <5> QED
          BY <1>1, <1>2, <3>1, <4>2, <5>1, OfContains
      <4> HIDE DEF P
      <4>5. \A q \in Asked' \cup Answered : q \notin P
        BY <2>4, <4>3, <4>4, ExecutedAlone
      <4> QED
        BY <4>4, <4>5
    <3>2. ASSUME NEW a \in Answered'
          PROVE  /\ a.outcome # "Busy"
                 /\ ~(a.kind = "begin" /\ a.outcome = "ok")
                 /\ a.kind = "begin" /\ a.outcome # "ok" => ~Serves(a.task)
                 /\ a.kind = "commit" => a.outcome = "ok" /\ ~Serves(a.task)
                 /\ a.kind = "abort" => ~Serves(a.task)
      <4>1. CASE a \in Answered
        BY <3>1, <4>1 DEF UploadInv, AnsweredInv
      <4>2. CASE a = answer'
        BY <1>1, <1>2, <1>4, <4>2
      <4> QED
        BY <1>1, <3>2, <4>1, <4>2
    <3> QED
      BY <1>4, <3>2 DEF AnsweredInv, Serves
  <2>9. OpenInv'
    <3>1. ASSUME NEW u \in Task, stage[u] = "open" PROVE u = r.task
      BY <2>5, <3>1 DEF UploadInv, PhasesInv
    <3>2. ASSUME NEW u \in Task, stage[u] = "open", NEW k \in Range(applied') PROVE k <= sent[u]
      BY <1>1, <1>2, <2>2, <3>1, <3>2 DEF UploadInv, OpenInv
    <3>3. ASSUME NEW u \in Task, NEW k, Delivered(u, k) PROVE Delivered(u, k)'
      BY <1>1, <2>2, <3>3 DEF Delivered
    <3> QED
      BY <1>1, <3>2, <3>3 DEF UploadInv, OpenInv
  <2>10. OrderInv'
    <3>1. \A k \in Range(applied) : k < r.chunk
      BY <2>3 DEF UploadInv, OrderInv
    <3>2. WritesInOrder'
      <4>1. /\ Len(applied) \in Nat /\ DOMAIN applied = 1 .. Len(applied)
            /\ DOMAIN applied' = 1 .. Len(applied) + 1 /\ applied'[Len(applied) + 1] = r.chunk
            /\ \A i \in 1 .. Len(applied) : applied'[i] = applied[i] /\ applied[i] \in Range(applied)
        BY <1>2, <1>4, <2>2, AppendProperties, LenProperties, RangeChanges
      <4>2. ASSUME NEW i \in DOMAIN applied', NEW j \in DOMAIN applied', i < j
            PROVE  applied'[i] < applied'[j]
        <5>1. CASE j \in 1 .. Len(applied)
          <6>1. i \in 1 .. Len(applied)
            BY <4>1, <4>2, <5>1
          <6> QED
            BY <4>1, <4>2, <5>1, <6>1 DEF UploadInv, OrderInv, WritesInOrder
        <5>2. CASE j = Len(applied) + 1
          <6>1. i \in 1 .. Len(applied)
            BY <4>1, <4>2, <5>2
          <6> QED
            BY <3>1, <4>1, <5>2, <6>1
        <5> QED
          BY <4>1, <5>1, <5>2
      <4> QED
        BY <4>2 DEF WritesInOrder
    <3>3. ASSUME NEW i \in Writes', NEW k \in Range(applied') PROVE k < Queue'[i].chunk
      <4>1. PICK m \in DOMAIN Queue : m # NextIndex /\ Queue'[i] = Queue[m]
        BY QueueRest DEF Writes
      <4>2. m \in Writes
        BY <1>4, <4>1 DEF Writes
      <4>3. r.chunk < Queue[m].chunk
        BY <2>3, <4>1, <4>2 DEF UploadInv, OrderInv
      <4> QED
        BY <2>2, <3>3, <4>1, <4>2, <4>3 DEF UploadInv, OrderInv
    <3>4. ASSUME NEW i \in Writes', NEW j \in Writes', i < j PROVE Queue'[i].chunk < Queue'[j].chunk
      <4>1. i \in DOMAIN Queue' /\ j \in DOMAIN Queue'
        BY DEF Writes
      <4>2. PICK k \in DOMAIN Queue, m \in DOMAIN Queue :
                k < m /\ Queue'[i] = Queue[k] /\ Queue'[j] = Queue[m]
        BY <3>4, <4>1, QueueRest
      <4>3. k \in Writes /\ m \in Writes
        BY <1>4, <4>2 DEF Writes
      <4> QED
        BY <4>2, <4>3 DEF UploadInv, OrderInv
    <3> QED
      BY <3>2, <3>3, <3>4 DEF OrderInv
  <2> QED
    BY <2>6, <2>7, <2>8, <2>9, <2>10 DEF UploadInv
<1>5. \/ UNCHANGED owner /\ answer'.outcome \in {"Stale", "Backend"}
      \/ /\ r.id = upload /\ answer'.outcome = "ok"
         /\ applied' = Append(applied, r.chunk)
         /\ UNCHANGED <<upload, nextUpload, uploadClient, session>>
  <2>1. \A o, i : AnswerWith(r, o, i) => answer'.outcome = o
    BY DEF AnswerWith
  <2> QED
    BY <2>1 DEF WriteUpload
<1> QED
  BY <1>3, <1>4, <1>5

\* The commit or abort of the present upload ends it for the owner: nothing of it is left.
LEMMA EndKeeps ==
    ASSUME TypeOK, UploadInv, ExecuteNext, Eligible # {},
           NextRequest.kind \in {"commit", "abort"}, answer'.outcome = "ok",
           upload' = NoUpload, uploadClient' = NoClient, session' = FALSE, applied' = << >>,
           nextUpload' = nextUpload
    PROVE  IdsInv' /\ OwnerInv' /\ PhasesInv' /\ AskedInv' /\ AnsweredInv' /\ OpenInv' /\ OrderInv'
<1> DEFINE r == NextRequest
<1>1. /\ r \in Request /\ r \in Asked /\ Asked' \subseteq Asked /\ Answered' = Answered \cup {answer'}
      /\ answer'.task = r.task /\ answer'.kind = r.kind
      /\ UNCHANGED <<flight, stage, failed, sent, known>>
      /\ \A t \in Task : Begins(t)' = Begins(t) /\ Commits(t)' = Commits(t) /\ Aborts(t)' = Aborts(t)
  BY NextExecuted
<1>2. r.kind \in {"commit", "abort"} /\ r.task \in Task
  BY <1>1, TaskOfAnItem
<1>3. Serves(r.task)
  BY <1>1, <1>2 DEF UploadInv, AskedInv
<1>4. /\ r.kind = "commit" => /\ stage[r.task] = "closing"
                              /\ \A q \in Asked' : ~(q.task = r.task /\ q.kind = "commit")
      /\ r.kind = "abort" => /\ stage[r.task] = "aborting"
                             /\ \A q \in Asked' : ~(q.task = r.task /\ q.kind = "abort")
  BY ExecutesOne DEF UploadInv
<1> HIDE DEF r
<1>5. \A u \in Task : (Serves(u) => u = r.task) /\ ~Serves(u)'
  BY <1>2, <1>3, ServesOne DEF Serves
<1>6. ASSUME NEW u \in Task PROVE stage[u] # "open"
  BY <1>2, <1>4, <1>5 DEF UploadInv, PhasesInv
<1>7. ASSUME NEW q \in Asked, q.kind \in {"write", "commit", "abort"} PROVE q.id # NoUpload
  <2>1. q.id \in 1 .. nextUpload - 1 /\ nextUpload \in Nat
    BY <1>7 DEF UploadInv, IdsInv, TypeOK
  <2> QED
    BY <2>1 DEF NoUpload
<1>8. \A q \in Asked \cup Answered : q.task \in Task
  BY TaskOfAnItem
<1>9. IdsInv'
  BY <1>1, <1>7 DEF UploadInv, IdsInv
<1>10. OwnerInv'
  <2>1. upload' < nextUpload'
    BY DEF TypeOK, NoUpload
  <2>2. upload' = NoUpload /\ uploadClient' = NoClient /\ session' = FALSE
    OBVIOUS
  <2> QED
    BY <2>1, <2>2 DEF OwnerInv
<1>11. PhasesInv'
  BY <1>1, <1>5, <1>6 DEF UploadInv, PhasesInv, Serves
<1>12. AskedInv'
  <2>1. ASSUME NEW q \in Asked', q.kind \in {"commit", "abort"} PROVE FALSE
    <3>1. q.task = r.task
      BY <1>1, <1>5, <1>8, <2>1 DEF UploadInv, AskedInv
    <3>2. /\ q.kind = "commit" => stage[q.task] = "closing"
          /\ q.kind = "abort" => stage[q.task] = "aborting"
      BY <1>1, PhaseOfAnItem DEF UploadInv
    <3> QED
      BY <1>2, <1>4, <2>1, <3>1, <3>2
  <2> QED
    BY <1>1, <1>5, <1>8, <2>1 DEF AskedInv, Serves
<1>13. AnsweredInv'
  <2>1. ASSUME NEW a \in Answered, a.kind = "begin", a.outcome = "ok" PROVE FALSE
    <3>1. a.task = r.task
      BY <1>5, <1>8, <2>1 DEF UploadInv, AnsweredInv
    <3>2. stage[a.task] = "opening"
      BY <2>1, PhaseOfAnItem DEF UploadInv
    <3> QED
      BY <1>2, <1>4, <3>1, <3>2
  <2>2. ASSUME NEW a \in Answered'
        PROVE  /\ a.task \in Task /\ a.outcome # "Busy"
               /\ ~(a.kind = "begin" /\ a.outcome = "ok")
               /\ a.kind = "commit" => a.outcome = "ok"
    <3>1. CASE a \in Answered
      BY <1>8, <2>1, <3>1 DEF UploadInv, AnsweredInv
    <3>2. CASE a = answer'
      BY <1>1, <1>2, <3>2
    <3> QED
      BY <1>1, <2>2, <3>1, <3>2
  <2> QED
    BY <1>5, <2>2 DEF AnsweredInv, Serves
<1>14. OpenInv'
  BY <1>1, <1>6 DEF OpenInv
<1>15. OrderInv'
  <2>1. ASSUME NEW i \in Writes' PROVE FALSE
    <3>1. PICK m \in DOMAIN Queue : Queue'[i] = Queue[m]
      BY QueueRest DEF Writes
    <3>2. Queue[m] \in Asked /\ Queue[m].kind = "write" /\ Queue[m].id = NoUpload
      BY <3>1, QueueIsSeq DEF Writes
    <3> QED
      BY <1>7, <3>2
  <2>2. Writes' = {}
    BY <2>1
  <2>3. WritesInOrder'
    BY DEF WritesInOrder
  <2> QED
    BY <2>2, <2>3 DEF OrderInv
<1> QED
  BY <1>9, <1>10, <1>11, <1>12, <1>13, <1>14, <1>15

\* A commit publishes the whole upload, an abort nothing, so long as the card does not
\* refuse them.
LEMMA ExecuteEndKeeps ==
    ASSUME {"commit", "abort"} \cap FaultyKinds = {},
           TypeOK, UploadInv, ExecuteNext, Eligible # {},
           CommitUpload(NextRequest) \/ AbortUpload(NextRequest)
    PROVE  UploadInv'
<1> DEFINE r == NextRequest
<1>1. r \in Asked /\ r.kind \in {"commit", "abort"}
  BY NextExecuted DEF CommitUpload, AbortUpload
<1>2. r.id = upload /\ ~Fails(r) /\ (r.kind = "commit" => Whole)
  BY <1>1 DEF UploadInv, AskedInv, Fails
<1>3. session
  <2>1. upload \in 1 .. nextUpload - 1 /\ nextUpload \in Nat
    BY <1>1, <1>2 DEF UploadInv, IdsInv, TypeOK
  <2>2. upload # NoUpload
    BY <2>1 DEF NoUpload
  <2>3. session = (upload # NoUpload)
    BY DEF UploadInv, OwnerInv
  <2> QED
    BY <2>2, <2>3
<1>4. Whole => HasFullSize
  <2>1. ASSUME Whole PROVE HasFullSize
    <3>1. Chunks \in Range(applied)
      BY <2>1, ConstantsAssumption DEF Whole
    <3> QED
      BY <3>1 DEF HasFullSize, Range
  <2> QED
    BY <2>1
<1>5. \A o, i : AnswerWith(r, o, i) => answer'.outcome = o
  BY DEF AnswerWith
<1>6. /\ answer'.outcome = "ok" /\ upload' = NoUpload /\ uploadClient' = NoClient
      /\ session' = FALSE /\ applied' = << >> /\ nextUpload' = nextUpload
      /\ \/ published' = published
         \/ Whole /\ published' = published \cup {applied}
  <2>1. CASE CommitUpload(r)
    <3>1. r.kind = "commit"
      BY <2>1 DEF CommitUpload
    <3> QED
      BY <1>2, <1>3, <1>4, <1>5, <2>1, <3>1 DEF CommitUpload
  <2>2. CASE AbortUpload(r)
    BY <1>2, <1>3, <1>5, <2>2 DEF AbortUpload
  <2> QED
    BY <2>1, <2>2
<1>7. IdsInv' /\ OwnerInv' /\ PhasesInv' /\ AskedInv' /\ AnsweredInv' /\ OpenInv' /\ OrderInv'
  BY <1>1, <1>6, EndKeeps
<1>8. PublishedWhole'
  <2>1. Whole => \A k \in 1 .. Chunks : \E i \in DOMAIN applied : applied[i] = k
    BY DEF Whole, Range
  <2> QED
    BY <1>6, <2>1 DEF UploadInv, PublishedWhole
<1> QED
  BY <1>7, <1>8 DEF UploadInv

\* Every request that the owner takes from its mailbox keeps the uploads apart.
LEMMA ExecuteKeeps ==
    ASSUME {"commit", "abort"} \cap FaultyKinds = {},
           TypeOK, SettleInv, UploadInv, ExecuteNext, Eligible # {}
    PROVE  UploadInv'
<1>1. Perform(NextRequest)
  BY NextExecuted
<1>2. CASE Access(NextRequest)
  <2>1. \A o, i : AnswerWith(NextRequest, o, i) => answer'.outcome = o
    BY DEF AnswerWith
  <2>2. UNCHANGED <<owner, published>> /\ NextRequest.kind \in {"read", "scan"} /\ answer'.outcome # "Busy"
    BY <1>2, <2>1 DEF Access
  <2> QED
    BY <2>2, QuietExecution
<1> QED
  BY <1>1, <1>2, ExecuteBeginKeeps, ExecuteWriteKeeps, ExecuteEndKeeps DEF Perform

(***************************************************************************)
(* Receiving.                                                              *)
(***************************************************************************)
\* What a receipt changes: one answer less, and the task's own view of its upload.
LEMMA ReceiptChanges ==
    ASSUME NoSharedChannel, TypeOK, SettleInv, NEW t \in Task, Receive(t),
           NEW r, r = Head(responses[awaits[t]])
    PROVE  /\ r \in Answer /\ r \in Answered /\ r.task = t
           /\ Answered' \subseteq Answered /\ Answered \subseteq Answered' \cup {r}
           /\ Asked' = Asked /\ Queue' = Queue
           /\ UNCHANGED <<upload, nextUpload, uploadClient, session, applied, published>>
           /\ \A u \in Task :
                /\ Begins(u)' = IF u = t /\ r.kind = "begin" THEN Begins(u) - 1 ELSE Begins(u)
                /\ Commits(u)' = IF u = t /\ r.kind = "commit" THEN Commits(u) - 1 ELSE Commits(u)
                /\ Aborts(u)' = IF u = t /\ r.kind = "abort" THEN Aborts(u) - 1 ELSE Aborts(u)
                /\ flight'[u] = IF u = t THEN flight[u] - 1 ELSE flight[u]
<1>1. /\ r \in Answer /\ r \in Answered
      /\ Answered' \subseteq Answered /\ Answered \subseteq Answered' \cup {r}
      /\ Asked' = Asked
      /\ \A P : Total(P)' \in Int /\ Total(P) = Total(P)' + (IF r \in P THEN 1 ELSE 0)
  BY ReceiveEffect
<1>2. r.task = t
  BY ReceivesItsOwn
<1>3. /\ UNCHANGED <<mailbox, requests, upload, nextUpload, uploadClient, session, applied, published>>
      /\ flight' = [flight EXCEPT ![t] = @ - 1]
  BY DEF Receive, owner
<1>4. \A u \in Task : flight'[u] = IF u = t THEN flight[u] - 1 ELSE flight[u]
  BY <1>3 DEF TypeOK
<1>5. ASSUME NEW u \in Task, NEW k
      PROVE  Total(Of(u, {k}))' = IF u = t /\ r.kind = k THEN Total(Of(u, {k})) - 1 ELSE Total(Of(u, {k}))
  <2>1. r \in Of(u, {k}) <=> u = t /\ r.kind = k
    BY <1>1, <1>2, OfContains
  <2> DEFINE P == Of(u, {k})
  <2>2. Total(P)' \in Int /\ Total(P) = Total(P)' + (IF r \in P THEN 1 ELSE 0)
    BY <1>1
  <2>3. Total(P)' = IF r \in P THEN Total(P) - 1 ELSE Total(P)
    <3> DEFINE x == Total(P)
               y == Total(P)'
    <3>1. y \in Int /\ x = y + (IF r \in P THEN 1 ELSE 0)
      BY <2>2
    <3> HIDE DEF x, y, P
    <3>2. y = IF r \in P THEN x - 1 ELSE x
      BY <3>1
    <3> QED
      BY <3>2 DEF x, y
  <2> QED
    BY <2>1, <2>3
<1>6. Queue' = Queue
  BY <1>3 DEF Queue
<1> QED
  BY <1>1, <1>2, <1>3, <1>4, <1>5, <1>6 DEF Begins, Commits, Aborts

\* A task that opens or closes its upload receives the answer to just that, its last.
LEMMA ReceiptOfPhase ==
    ASSUME NoSharedChannel, TypeOK, SettleInv, UploadInv, NEW t \in Task, Receive(t),
           NEW r, r = Head(responses[awaits[t]]), stage[t] \in {"opening", "closing"}
    PROVE  /\ r.kind = IF stage[t] = "opening" THEN "begin" ELSE "commit"
           /\ \A q \in Asked' \cup Answered' : q.task # t
<1> DEFINE P == Of(t, Kind)
           kind == IF stage[t] = "opening" THEN "begin" ELSE "commit"
<1>1. /\ r \in Answer /\ r.task = t /\ Answered' \subseteq Answered
      /\ Answered \subseteq Answered' \cup {r} /\ Asked' = Asked
  BY ReceiptChanges
<1>2. r \in P
  BY <1>1 DEF Of, Answer
<1>3. Total(P) = 1
  BY DEF UploadInv, PhasesInv, SettleInv
<1> HIDE DEF P
<1>4. \A q \in Asked' \cup Answered' : q \notin P
  BY <1>2, <1>3, ReceivedAlone
<1>5. ASSUME NEW q \in Asked' \cup Answered' PROVE q.task # t
  <2>1. q \in Request \cup Answer /\ q.kind \in Kind
    BY <1>1, ItemTypes, TaskOfAnItem
  <2> QED
    BY <1>4, <2>1 DEF P, Of
<1>6. Total(Of(t, {kind})) = 1
  BY DEF UploadInv, PhasesInv, Begins, Commits
<1>7. PICK q \in Asked \cup Answered : q \in Of(t, {kind})
  BY <1>6, CountedIsThere
<1>8. q.task = t /\ q.kind = kind
  BY <1>7 DEF Of
<1>9. q = r
  BY <1>1, <1>5, <1>8
<1> QED
  BY <1>5, <1>8, <1>9

\* What a task knows of its upload after it has received r.
Follows(t, r) ==
    /\ \A u \in Task : u # t => /\ stage'[u] = stage[u] /\ failed'[u] = failed[u]
                                /\ sent'[u] = sent[u] /\ known'[u] = known[u]
    /\ r.kind = "begin" /\ r.outcome = "ok" =>
         /\ stage[t] = "opening" /\ stage'[t] = "open"
         /\ failed'[t] = FALSE /\ sent'[t] = 0 /\ known'[t] = upload
         /\ Serves(t) /\ applied = << >>
    /\ (r.kind = "begin" /\ r.outcome # "ok") \/ r.kind \in {"commit", "abort"} =>
         /\ r.kind = "begin" => stage[t] = "opening"
         /\ r.kind = "commit" => stage[t] = "closing"
         /\ r.kind = "abort" => stage[t] = "aborting"
         /\ stage'[t] = "none" /\ failed'[t] = FALSE /\ sent'[t] = 0 /\ ~Serves(t)
    /\ r.kind \in {"read", "scan", "write"} =>
         /\ stage[t] \in {"none", "open", "aborting"} /\ stage'[t] = stage[t]
         /\ sent'[t] = sent[t]
         /\ stage[t] = "open" => known'[t] = known[t]
         /\ stage[t] # "open" => failed'[t] = FALSE
         /\ stage[t] = "open" /\ failed'[t] = FALSE => failed[t] = FALSE /\ r.outcome = "ok"

LEMMA ReceiptStages ==
    ASSUME NoSharedChannel, TypeOK, SettleInv, UploadInv, NEW t \in Task, Receive(t),
           NEW r, r = Head(responses[awaits[t]])
    PROVE  Follows(t, r)
<1>1. r \in Answered /\ r.task = t /\ r.kind \in Kind
  BY ReceiptChanges DEF Answer
<1>2. /\ r.kind = "begin" => stage[t] = "opening"
      /\ r.kind = "commit" => stage[t] = "closing"
      /\ r.kind = "abort" => stage[t] = "aborting"
  BY <1>1, PhaseOfAnItem DEF UploadInv
<1>3. /\ stage' = [stage EXCEPT ![t] = StageAfter(t, r)]
      /\ failed' = [failed EXCEPT ![t] = stage'[t] = "open" /\ (@ \/ r.outcome # "ok")]
      /\ sent' = [sent EXCEPT ![t] = IF stage'[t] = "none" THEN 0 ELSE @]
      /\ known' = [known EXCEPT ![t] =
              CASE stage'[t] = "none" -> NoUpload
                [] stage[t] = "opening" /\ stage'[t] = "open" -> r.id
                [] OTHER -> @]
  BY DEF Receive
<1>4. /\ \A u \in Task : u # t => /\ stage'[u] = stage[u] /\ failed'[u] = failed[u]
                                  /\ sent'[u] = sent[u] /\ known'[u] = known[u]
      /\ stage'[t] = StageAfter(t, r)
      /\ failed'[t] = (stage'[t] = "open" /\ (failed[t] \/ r.outcome # "ok"))
      /\ sent'[t] = IF stage'[t] = "none" THEN 0 ELSE sent[t]
      /\ known'[t] = CASE stage'[t] = "none" -> NoUpload
                       [] stage[t] = "opening" /\ stage'[t] = "open" -> r.id
                       [] OTHER -> known[t]
  BY <1>3 DEF TypeOK
<1>5. /\ stage[t] \in {"none", "opening"} => failed[t] = FALSE /\ sent[t] = 0
      /\ stage[t] \in {"none", "opening", "open", "closing", "aborting"}
  BY DEF UploadInv, PhasesInv, TypeOK
<1>6. CASE r.kind = "begin" /\ r.outcome = "ok"
  <2>1. Serves(t) /\ r.id = upload /\ applied = << >>
    BY <1>1, <1>6 DEF UploadInv, AnsweredInv
  <2>2. stage'[t] = "open" /\ stage[t] = "opening"
    BY <1>1, <1>2, <1>4, <1>6 DEF StageAfter
  <2>3. failed'[t] = FALSE /\ sent'[t] = 0 /\ known'[t] = upload
    BY <1>4, <1>5, <1>6, <2>1, <2>2
  <2> QED
    BY <1>4, <1>6, <2>1, <2>2, <2>3 DEF Follows
<1>7. CASE (r.kind = "begin" /\ r.outcome # "ok") \/ r.kind \in {"commit", "abort"}
  <2>1. ~Serves(t) /\ (r.kind = "commit" => r.outcome = "ok")
    BY <1>1, <1>7 DEF UploadInv, AnsweredInv
  <2>2. stage'[t] = "none"
    BY <1>1, <1>4, <1>7, <2>1 DEF StageAfter
  <2>3. failed'[t] = FALSE /\ sent'[t] = 0
    BY <1>4, <2>2
  <2> QED
    BY <1>2, <1>4, <1>7, <2>1, <2>2, <2>3 DEF Follows
<1>8. CASE r.kind \in {"read", "scan", "write"}
  <2>1. stage[t] \in {"none", "open", "aborting"}
    BY <1>5, <1>8, ReceiptOfPhase
  <2>2. stage'[t] = stage[t]
    BY <1>1, <1>4, <1>8 DEF StageAfter
  <2>3. sent'[t] = sent[t] /\ (stage[t] = "open" => known'[t] = known[t])
    BY <1>4, <1>5, <2>1, <2>2
  <2>4. failed[t] \in BOOLEAN
    BY DEF TypeOK
  <2>5. /\ stage[t] # "open" => failed'[t] = FALSE
        /\ stage[t] = "open" /\ failed'[t] = FALSE => failed[t] = FALSE /\ r.outcome = "ok"
    BY <1>4, <2>2, <2>4
  <2> QED
    BY <1>4, <1>8, <2>1, <2>2, <2>3, <2>5 DEF Follows
<1>9. r.kind \in {"begin", "commit", "abort"} \/ r.kind \in {"read", "scan", "write"}
  BY <1>1 DEF Kind
<1> QED
  BY <1>6, <1>7, <1>8, <1>9

\* A task follows its upload: what it makes of an answer is where the owner is.
LEMMA ReceiveKeeps ==
    ASSUME NoSharedChannel, TypeOK, SettleInv, UploadInv, NEW t \in Task, Receive(t)
    PROVE  UploadInv'
<1>1. PICK r : r = Head(responses[awaits[t]])
  OBVIOUS
<1>2. /\ r \in Answer /\ r \in Answered /\ r.task = t
      /\ Answered' \subseteq Answered /\ Answered \subseteq Answered' \cup {r}
      /\ Asked' = Asked /\ Queue' = Queue
      /\ UNCHANGED <<upload, nextUpload, uploadClient, session, applied, published>>
  BY <1>1, ReceiptChanges
<1>3. \A u \in Task :
        /\ Begins(u)' = IF u = t /\ r.kind = "begin" THEN Begins(u) - 1 ELSE Begins(u)
        /\ Commits(u)' = IF u = t /\ r.kind = "commit" THEN Commits(u) - 1 ELSE Commits(u)
        /\ Aborts(u)' = IF u = t /\ r.kind = "abort" THEN Aborts(u) - 1 ELSE Aborts(u)
        /\ flight'[u] = IF u = t THEN flight[u] - 1 ELSE flight[u]
  BY <1>1, ReceiptChanges
<1>4. /\ \A u \in Task : u # t => /\ stage'[u] = stage[u] /\ failed'[u] = failed[u]
                                  /\ sent'[u] = sent[u] /\ known'[u] = known[u]
      /\ r.kind = "begin" /\ r.outcome = "ok" =>
           /\ stage[t] = "opening" /\ stage'[t] = "open"
           /\ failed'[t] = FALSE /\ sent'[t] = 0 /\ known'[t] = upload
           /\ Serves(t) /\ applied = << >>
      /\ (r.kind = "begin" /\ r.outcome # "ok") \/ r.kind \in {"commit", "abort"} =>
           /\ r.kind = "begin" => stage[t] = "opening"
           /\ r.kind = "commit" => stage[t] = "closing"
           /\ r.kind = "abort" => stage[t] = "aborting"
           /\ stage'[t] = "none" /\ failed'[t] = FALSE /\ sent'[t] = 0 /\ ~Serves(t)
      /\ r.kind \in {"read", "scan", "write"} =>
           /\ stage[t] \in {"none", "open", "aborting"} /\ stage'[t] = stage[t]
           /\ sent'[t] = sent[t]
           /\ stage[t] = "open" => known'[t] = known[t]
           /\ stage[t] # "open" => failed'[t] = FALSE
           /\ stage[t] = "open" /\ failed'[t] = FALSE => failed[t] = FALSE /\ r.outcome = "ok"
  <2>1. Follows(t, r)
    BY <1>1, ReceiptStages
  <2> QED
    BY <2>1 DEF Follows
<1>5. /\ r.kind = "begin" /\ r.outcome = "ok"
      \/ ((r.kind = "begin" /\ r.outcome # "ok") \/ r.kind \in {"commit", "abort"})
      \/ r.kind \in {"read", "scan", "write"}
  BY <1>2 DEF Answer, Kind
<1>6. IdsInv' /\ OwnerInv' /\ AskedInv' /\ PublishedWhole'
  BY <1>2 DEF UploadInv, IdsInv, OwnerInv, AskedInv, PublishedWhole, Serves, Whole
<1>7. AnsweredInv'
  BY <1>2 DEF UploadInv, AnsweredInv, Serves
<1>8. OrderInv'
  BY <1>2 DEF UploadInv, OrderInv, Writes, WritesInOrder
<1>9. PhasesInv'
  <2>1. ASSUME NEW u \in Task, u # t
        PROVE  /\ Begins(u)' = IF stage'[u] = "opening" THEN 1 ELSE 0
               /\ Commits(u)' = IF stage'[u] = "closing" THEN 1 ELSE 0
               /\ Aborts(u)' = IF stage'[u] = "aborting" THEN 1 ELSE 0
               /\ stage'[u] \in {"opening", "closing"} => flight'[u] = 1
               /\ stage'[u] = "none" => ~Serves(u)
               /\ stage'[u] \in {"none", "opening"} => failed'[u] = FALSE /\ sent'[u] = 0
               /\ stage'[u] = "open" => Serves(u) /\ upload = known'[u]
    BY <1>3, <1>4, <2>1 DEF UploadInv, PhasesInv
  <2>2. /\ Begins(t) = IF stage[t] = "opening" THEN 1 ELSE 0
        /\ Commits(t) = IF stage[t] = "closing" THEN 1 ELSE 0
        /\ Aborts(t) = IF stage[t] = "aborting" THEN 1 ELSE 0
        /\ stage[t] = "none" => ~Serves(t)
        /\ stage[t] \in {"none", "opening"} => failed[t] = FALSE /\ sent[t] = 0
        /\ stage[t] = "open" => Serves(t) /\ upload = known[t]
    BY DEF UploadInv, PhasesInv
  <2>3. /\ Begins(t)' = IF stage'[t] = "opening" THEN 1 ELSE 0
        /\ Commits(t)' = IF stage'[t] = "closing" THEN 1 ELSE 0
        /\ Aborts(t)' = IF stage'[t] = "aborting" THEN 1 ELSE 0
    BY <1>3, <1>4, <1>5, <2>2
  <2>4. /\ stage'[t] \notin {"opening", "closing"}
        /\ stage'[t] = "none" => ~Serves(t)
        /\ stage'[t] \in {"none", "opening"} => failed'[t] = FALSE /\ sent'[t] = 0
        /\ stage'[t] = "open" => Serves(t) /\ upload = known'[t]
    BY <1>4, <1>5, <2>2
  <2>5. \A u \in Task : Serves(u)' <=> Serves(u)
    BY <1>2 DEF Serves
  <2> QED
    BY <1>2, <2>1, <2>3, <2>4, <2>5 DEF PhasesInv
<1>10. OpenInv'
  <2>1. ASSUME NEW u \in Task, u # t, NEW k, Delivered(u, k) PROVE Delivered(u, k)'
    BY <1>2, <2>1 DEF Delivered
  <2>2. ASSUME r.kind = "begin", r.outcome = "ok"
        PROVE  /\ \A q \in Asked : q.task # t
               /\ Range(applied) = {} /\ 1 .. sent'[t] = {}
    <3>1. stage[t] = "opening" /\ applied = << >> /\ sent'[t] = 0
      BY <1>4, <2>2
    <3>2. \A q \in Asked : q.task # t
      BY <1>1, <1>2, <3>1, ReceiptOfPhase
    <3> QED
      BY <3>1, <3>2 DEF Range
  <2>3. ASSUME r.kind \in {"read", "scan", "write"}, r.outcome = "ok", NEW k, Delivered(t, k)
        PROVE  Delivered(t, k)'
    BY <1>2, <2>3 DEF Delivered
  <2>4. ASSUME NEW u \in Task, stage'[u] = "open", u # t
        PROVE  /\ \A q \in Asked' : q.task = u /\ q.kind = "write" => q.id = known'[u] /\ q.chunk <= sent'[u]
               /\ \A k \in Range(applied') : k <= sent'[u]
               /\ failed'[u] = FALSE => \A k \in 1 .. sent'[u] : Delivered(u, k)'
    BY <1>2, <1>4, <2>1, <2>4 DEF UploadInv, OpenInv
  <2>5. ASSUME stage'[t] = "open"
        PROVE  /\ \A q \in Asked' : q.task = t /\ q.kind = "write" => q.id = known'[t] /\ q.chunk <= sent'[t]
               /\ \A k \in Range(applied') : k <= sent'[t]
               /\ failed'[t] = FALSE => \A k \in 1 .. sent'[t] : Delivered(t, k)'
    <3>1. CASE r.kind = "begin" /\ r.outcome = "ok"
      BY <1>2, <2>2, <3>1
    <3>2. CASE r.kind \in {"read", "scan", "write"}
      <4>1. /\ stage[t] = "open" /\ known'[t] = known[t] /\ sent'[t] = sent[t]
            /\ failed'[t] = FALSE => failed[t] = FALSE /\ r.outcome = "ok"
        BY <1>4, <2>5, <3>2
      <4> QED
        BY <1>2, <2>3, <3>2, <4>1 DEF UploadInv, OpenInv
    <3> QED
      BY <1>4, <1>5, <2>5, <3>1, <3>2
  <2> QED
    BY <2>4, <2>5 DEF OpenInv
<1> QED
  BY <1>6, <1>7, <1>8, <1>9, <1>10 DEF UploadInv

(***************************************************************************)
(* The theorem.                                                            *)
(***************************************************************************)
LEMMA UploadInvInit == Init => UploadInv
<1> SUFFICES ASSUME Init PROVE UploadInv
  OBVIOUS
<1>1. /\ requests = << >> /\ mailbox = << >> /\ Sending = << >>
      /\ \A c \in Client : responses[c] = << >>
      /\ upload = NoUpload /\ nextUpload = 1 /\ uploadClient = NoClient /\ session = FALSE
      /\ applied = << >> /\ published = {}
      /\ \A t \in Task : /\ flight[t] = 0 /\ stage[t] = "none" /\ failed[t] = FALSE /\ sent[t] = 0
  BY DEF Init, Sending
<1>2. Asked = {} /\ Answered = {}
  <2>1. Range(<< >>) = {}
    BY DEF Range
  <2> QED
    BY <1>1, <2>1 DEF Asked, Answered
<1>3. ASSUME NEW P PROVE Total(P) = 0
  <2>1. /\ Count(P, requests) = 0 /\ Count(P, mailbox) = 0 /\ Count(P, Sending) = 0
        /\ \A c \in Client : Count(P, responses[c]) = 0
    BY <1>1, CountFew
  <2> QED
    BY <2>1 DEF Total, CountAnswers, Client
<1>4. IdsInv /\ AskedInv /\ AnsweredInv /\ PublishedWhole
  BY <1>1, <1>2 DEF IdsInv, AskedInv, AnsweredInv, PublishedWhole
<1>5. OwnerInv
  <2>1. upload < nextUpload
    BY <1>1 DEF NoUpload
  <2> QED
    BY <1>1, <2>1 DEF OwnerInv
<1>6. PhasesInv
  BY <1>1, <1>3, ServesOne DEF PhasesInv, Begins, Commits, Aborts, Serves
<1>7. OpenInv
  BY <1>1 DEF OpenInv
<1>8. OrderInv
  <2>1. DOMAIN Queue = {}
    <3>1. Queue = << >>
      BY <1>1 DEF Queue
    <3> QED
      BY <3>1
  <2>2. Writes = {}
    BY <2>1 DEF Writes
  <2> QED
    BY <1>1, <2>2 DEF OrderInv, WritesInOrder
<1> QED
  BY <1>4, <1>5, <1>6, <1>7, <1>8 DEF UploadInv

\* Every action keeps it: the sends, the moves, the executions and the receipts.
LEMMA UploadInvNext ==
    ASSUME NoSharedChannel, {"commit", "abort"} \cap FaultyKinds = {}, TypeOK, SettleInv,
           MailboxNeverOverflows, MailboxNeverOverflows', UploadInv, [Next]_vars
    PROVE  UploadInv'
<1>1. ASSUME NEW t \in Task, NEW c \in Client, Read(t, c) PROVE UploadInv'
  <2>1. /\ Send(t, c, "read", TRUE, 0) /\ stage[t] = "none"
        /\ UNCHANGED <<stage, failed, sent, known>>
    BY <1>1 DEF Read
  <2>2. "read" \in {"read", "scan"} /\ TRUE \in BOOLEAN
    OBVIOUS
  <2>3. PICK lends \in BOOLEAN, kind \in {"read", "scan"} : Send(t, c, kind, lends, 0)
    BY <2>1, <2>2
  <2> QED
    BY <2>1, <2>3, ReadKeeps
<1>2. ASSUME NEW lends \in BOOLEAN, Scan(lends) PROVE UploadInv'
  <2>1. /\ Send("refresh", "Library", "scan", lends, 0) /\ stage["refresh"] = "none"
        /\ UNCHANGED <<stage, failed, sent, known>>
    BY <1>2 DEF Scan
  <2>2. PICK t \in Task, c \in Client, kind \in {"read", "scan"} :
            Send(t, c, kind, lends, 0) /\ stage[t] = "none"
    BY <2>1 DEF Task, Client
  <2> QED
    BY <2>1, <2>2, ReadKeeps
<1>3. ASSUME NEW t \in Task, Begin(t) \/ Write(t) \/ Commit(t) \/ Abort(t) PROVE UploadInv'
  BY <1>3, BeginKeeps, WriteKeeps, CommitKeeps, AbortKeeps
<1>4. CASE Collect \/ Route
  <2>1. /\ Asked' = Asked /\ Answered' = Answered
        /\ \A P : Total(P)' = Total(P)
    BY <1>4, MoveEffect
  <2>2. UNCHANGED <<owner, tasks, published>>
    BY <1>4 DEF Collect, Route
  <2> QED
    BY <1>4, <2>1, <2>2, QueueMoves, SameKeeps
<1>5. CASE ExecuteImmediate
  BY <1>5 DEF ExecuteImmediate, MailboxNeverOverflows
<1>6. CASE ExecuteNext /\ Eligible # {}
  BY <1>6, ExecuteKeeps
<1>7. CASE (ExecuteNext /\ Eligible = {}) \/ UNCHANGED vars
  <2>1. UNCHANGED <<mailbox, answer, requests, responses, owner, tasks, published>>
    BY <1>7 DEF ExecuteNext, vars, queues
  <2>2. Sending' = Sending
    <3>1. pc' = pc \/ (pc = "run" /\ pc' = "receive")
      BY <1>7 DEF ExecuteNext, vars, queues
    <3> QED
      BY <2>1, <3>1 DEF Sending
  <2>3. Asked' = Asked /\ Answered' = Answered
    BY <2>1, <2>2 DEF Asked, Answered
  <2>4. ASSUME NEW P PROVE Total(P)' = Total(P)
    BY <2>1, <2>2 DEF Total, CountAnswers
  <2>5. Queue' = Queue
    BY <2>1 DEF Queue
  <2> QED
    BY <2>1, <2>3, <2>4, <2>5, SameKeeps
<1>8. ASSUME NEW t \in Task, Receive(t) PROVE UploadInv'
  BY <1>8, ReceiveKeeps
<1> QED
  BY <1>1, <1>2, <1>3, <1>4, <1>5, <1>6, <1>7, <1>8 DEF Next

LEMMA UploadImplies == ASSUME TypeOK, UploadInv PROVE UploadsApart
<1>1. NeverBusy
  <2>1. ASSUME pc = "route" PROVE answer.outcome # "Busy"
    <3>1. Sending = <<answer>>
      BY <2>1 DEF Sending
    <3>2. answer \in Range(Sending)
      BY <3>1 DEF Range
    <3> QED
      BY <3>2 DEF UploadInv, AnsweredInv, Answered
  <2> QED
    BY <2>1 DEF NeverBusy
<1>2. AffinityHasHolder
  BY DEF UploadInv, OwnerInv, PhasesInv, AffinityHasHolder, Serves
<1>3. WritesInOrder /\ PublishedWhole
  BY DEF UploadInv, OrderInv
<1> QED
  BY <1>1, <1>2, <1>3 DEF UploadsApart

(* Uploads are apart: no begin is answered Busy, the chunks keep their order, *)
(* a commit publishes every chunk, and the affinity ends with its upload, so  *)
(* long as what is in flight fits into the mailbox, no response channel has   *)
(* two receivers, and the card refuses no commit and no abort                 *)
(* (storage_owner.rs, StorageOwner::execute_owned and pop_client).            *)
THEOREM UploadsStayApart ==
    ASSUME InFlightFits, NoSharedChannel, {"commit", "abort"} \cap FaultyKinds = {}
    PROVE  Spec => []UploadsApart
<1>1. Init => SettleInv /\ UploadInv
  BY SettleInvInit, UploadInvInit
<1>2. TypeOK /\ SettleInv /\ [Next]_vars => SettleInv'
  BY SettleInvNext
<1>3. TypeOK /\ SettleInv /\ MailboxNeverOverflows /\ MailboxNeverOverflows' /\ UploadInv
      /\ [Next]_vars => UploadInv'
  BY UploadInvNext
<1>4. TypeOK /\ UploadInv => UploadsApart
  BY UploadImplies
<1>5. Spec => []MailboxNeverOverflows
  BY NeverOverflows
<1> QED
  BY <1>1, <1>2, <1>3, <1>4, <1>5, TypeCorrect, PTL DEF Spec
=============================================================================
