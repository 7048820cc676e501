--------------------------- MODULE BulkUploadProofs ---------------------------
(***************************************************************************)
(* Proofs about BulkUpload, for every size of a file, window, number of    *)
(* slots, sessions and faults of every kind.                               *)
(***************************************************************************)
EXTENDS BulkUpload, SequenceTheorems, WellFoundedInduction, TLAPS

(***************************************************************************)
(* Sequences and least elements.                                           *)
(***************************************************************************)
(* The least element of a set of naturals is one of its elements.          *)
LEMMA MinIsLeast ==
    ASSUME NEW T \in SUBSET Nat, T # {}
    PROVE  Min(T) \in T /\ \A y \in T : Min(T) <= y
<1>1. PICK x \in T : \A y \in T : ~ (<<y, x>> \in OpToRel(<, Nat))
  BY NatLessThanWellFounded, WFMin
<1>2. \A y \in T : ~ (y < x)
  BY <1>1 DEF OpToRel
<1>3. \A y \in T : x <= y
  BY <1>2
<1> QED BY <1>3 DEF Min

LEMMA ConcatType ==
    ASSUME NEW S, NEW s \in Seq(S), NEW t \in Seq(S)
    PROVE  /\ s \o t \in Seq(S) /\ Len(s \o t) = Len(s) + Len(t)
           /\ \A i \in 1 .. Len(s) + Len(t) :
                 (s \o t)[i] = IF i <= Len(s) THEN s[i] ELSE t[i - Len(s)]
BY ConcatProperties

LEMMA RemoveAtProperties ==
    ASSUME NEW S, NEW s \in Seq(S), NEW i \in 1 .. Len(s)
    PROVE  /\ RemoveAt(s, i) \in Seq(S) /\ Len(RemoveAt(s, i)) = Len(s) - 1
           /\ \A j \in 1 .. Len(s) - 1 : RemoveAt(s, i)[j] = IF j < i THEN s[j] ELSE s[j + 1]
<1> DEFINE a == SubSeq(s, 1, i - 1)
           b == SubSeq(s, i + 1, Len(s))
<1>1. a \in Seq(S) /\ Len(a) = i - 1 /\ \A j \in 1 .. i - 1 : a[j] = s[j]
  BY SubSeqProperties
<1>2. b \in Seq(S) /\ Len(b) = Len(s) - i /\ \A j \in 1 .. Len(s) - i : b[j] = s[i + j]
  BY SubSeqProperties
<1>3. RemoveAt(s, i) = a \o b
  BY DEF RemoveAt
<1> HIDE DEF a, b
<1>4. /\ a \o b \in Seq(S) /\ Len(a \o b) = Len(a) + Len(b)
      /\ \A j \in 1 .. Len(a) + Len(b) :
            (a \o b)[j] = IF j <= Len(a) THEN a[j] ELSE b[j - Len(a)]
  BY <1>1, <1>2, ConcatType
<1>5. ASSUME NEW j \in 1 .. Len(s) - 1
      PROVE  (a \o b)[j] = IF j < i THEN s[j] ELSE s[j + 1]
  <2>1. CASE j < i
    BY <1>1, <1>2, <1>4, <2>1
  <2>2. CASE ~ (j < i)
    <3>1. j - (i - 1) \in 1 .. Len(s) - i /\ ~ (j <= i - 1)
      BY <2>2
    <3>2. (a \o b)[j] = b[j - (i - 1)]
      BY <1>1, <1>2, <1>4, <3>1
    <3>3. b[j - (i - 1)] = s[i + (j - (i - 1))] /\ i + (j - (i - 1)) = j + 1
      BY <1>2, <3>1
    <3> QED BY <2>2, <3>2, <3>3
  <2> QED BY <2>1, <2>2
<1> QED BY <1>1, <1>2, <1>3, <1>4, <1>5

(***************************************************************************)
(* Types.                                                                  *)
(***************************************************************************)
Sent == [op : Ops, seq : Nat, id : Nat, off : Nat, source : 1 .. MaxSessions]
FrameType == [op : Ops \cup {"credit"}, seq : Nat, ok : BOOLEAN, id : Nat, durable : Nat, value : Nat]
Write == [off : 0 .. Chunks - 1, gen : {1}, source : 1 .. MaxSessions]

Places == Waiting \cup {"idle", "done", "failed", "gone"}
HostType ==
    [pc : Places, session : 0 .. MaxSessions, stream : Nat, seq : Nat, sent : 0 .. Chunks,
     durable : Nat, credits : Nat, confirmed : BOOLEAN]

\* The host has sent only chunks of files of the sessions there were.
HostSide ==
    /\ host \in HostType
    /\ host.pc \in Waiting => host.session >= 1
    /\ toDevice \in Seq(Sent)
    /\ \A i \in 1 .. Len(toDevice) :
          /\ toDevice[i].source <= host.session
          /\ toDevice[i].op = "data" => toDevice[i].off < Chunks

HostInv == HostSide /\ toHost \in Seq(FrameType) /\ tx \in Seq(FrameType)

DeviceRecord ==
    [mode : {"idle", "upload"}, source : 0 .. MaxSessions, active : BOOLEAN, id : Nat,
     admitted : Nat, durable : Nat, credits : Nat, owed : Nat, occupied : Nat,
     intact : BOOLEAN, gen : Nat, tombstone : Nat, outstanding : Seq(Write),
     publishes : BOOLEAN, held : SUBSET {"open", "finish", "abort"},
     controls : SUBSET {"open", "finish", "abort"},
     replies : [open : Nat, finish : Nat, abort : Nat],
     deferred : [op : {"none", "status", "finish"}, seq : Nat, id : Nat], armed : BOOLEAN]

OwnerRequest ==
    [op : {"begin", "write", "commit", "abort"}, for : {"open", "write", "finish", "abort"},
     id : Nat, off : Nat, source : 0 .. MaxSessions]
OwnerAnswer == [for : {"open", "write", "finish", "abort"}, ok : BOOLEAN, id : Nat]
OwnerRecord ==
    [mail : Seq(OwnerRequest), answers : Seq(OwnerAnswer), upload : Nat, nextId : Nat \ {0},
     file : [0 .. Chunks - 1 -> 0 .. MaxSessions]]

(***************************************************************************)
(* The phases of a stream: what the device d waits for, what is in the     *)
(* mailbox of the owner o and among its answers, and which upload it has.  *)
(***************************************************************************)
Whole(s) == [k \in 0 .. Chunks - 1 |-> s]

IdlePhase(d, o) ==
    /\ d.mode = "idle" /\ ~ d.active
    /\ d.outstanding = <<>> /\ d.controls = {} /\ d.held = {}
    /\ o.mail = <<>> /\ o.answers = <<>>
    /\ o.upload = 0

OpenPhase(d, o) ==
    /\ d.mode = "upload" /\ ~ d.active /\ d.held = {"open"}
    /\ d.outstanding = <<>> /\ d.tombstone = 0
    /\ d.admitted = 0 /\ d.durable = 0 /\ d.owed = 0 /\ d.occupied = 0
    /\ \/ /\ d.controls = {}
          /\ o.mail = <<>> /\ o.answers = <<>> /\ o.upload = 0
       \/ /\ d.controls = {"open"}
          /\ o.mail = <<Request("begin", "open", 0, 0, d.source)>> /\ o.answers = <<>>
          /\ o.upload = 0
       \/ /\ d.controls = {"open"}
          /\ o.mail = <<>>
          /\ Len(o.answers) = 1 /\ o.answers[1].for = "open"
          /\ o.answers[1].ok <=> o.upload # 0
          /\ o.answers[1].id = o.upload

\* The writes in flight are those that the device waits for, in order, and
\* what was stored without an error is in the file.
WritesOf(id, admitted, durable, outstanding, o) ==
    LET answered == Len(o.answers)  waited == Len(outstanding) IN
    /\ durable + waited <= admitted /\ admitted <= Chunks
    /\ \A i \in 1 .. waited : outstanding[i].off = admitted - waited + i - 1
    /\ answered + Len(o.mail) = waited
    /\ \A i \in 1 .. Len(o.mail) :
          o.mail[i] = Request("write", "write", id, outstanding[answered + i].off,
                              outstanding[answered + i].source)
    /\ \A i \in 1 .. answered :
          /\ o.answers[i].for = "write"
          /\ o.answers[i].ok => o.file[outstanding[i].off] = outstanding[i].source

Writes(d, o) == WritesOf(d.id, d.admitted, d.durable, d.outstanding, o)

ActivePhase(d, o) ==
    /\ d.mode = "upload" /\ d.active /\ d.held = {} /\ d.controls = {}
    /\ d.id # 0 /\ d.id = o.upload
    /\ d.gen = 1
    /\ d.credits + d.owed + d.occupied = Window
    /\ Len(d.outstanding) <= d.occupied
    /\ Writes(d, o)
    /\ d.intact => \A k \in 0 .. d.durable - 1 : o.file[k] = d.source

FinishPhase(d, o) ==
    /\ d.mode = "upload" /\ ~ d.active /\ d.held = {"finish"}
    /\ d.outstanding = <<>>
    /\ d.publishes => d.source \notin changed /\ o.file = Whole(d.source)
    /\ \/ /\ d.controls = {}
          /\ o.mail = <<>> /\ o.answers = <<>>
       \/ /\ d.controls = {"finish"}
          /\ o.mail = <<Request(IF d.publishes THEN "commit" ELSE "abort", "finish", d.id, 0, d.source)>>
          /\ o.answers = <<>>
       \/ /\ d.controls = {"finish"}
          /\ o.mail = <<>>
          /\ Len(o.answers) = 1 /\ o.answers[1].for = "finish"
          /\ o.answers[1].ok => o.upload = 0

\* Writes of an aborted stream, and at most one abort, which is the last in
\* the mailbox and overtakes them.
Stale(d, o) ==
    /\ Len(o.answers) + Len(o.mail) = Len(d.outstanding) + (IF d.controls = {} THEN 0 ELSE 1)
    /\ \A i \in 1 .. Len(o.mail) :
          IF o.mail[i].op = "abort"
          THEN i = Len(o.mail) /\ o.mail[i].for = "abort" /\ d.controls # {}
          ELSE o.mail[i].op = "write" /\ o.mail[i].for = "write"
    /\ \A i \in 1 .. Len(o.answers) :
          IF o.answers[i].for = "abort"
          THEN /\ d.controls # {}
               /\ o.answers[i].ok => o.upload = 0
               /\ \A j \in 1 .. Len(o.answers) : o.answers[j].for = "abort" => i = j
               /\ \A j \in 1 .. Len(o.mail) : o.mail[j].op # "abort"
          ELSE o.answers[i].for = "write"
    /\ d.controls # {} =>
          \/ \E i \in 1 .. Len(o.mail) : o.mail[i].op = "abort"
          \/ \E i \in 1 .. Len(o.answers) : o.answers[i].for = "abort"

AbortPhase(d, o) ==
    /\ d.mode = "upload" /\ ~ d.active
    /\ d.held \in SUBSET {"abort"} /\ d.controls \in SUBSET d.held
    /\ d.held # {} \/ d.outstanding # <<>>
    /\ d.held = {} => o.upload = 0
    /\ d.gen = 2
    /\ d.tombstone # 0
    /\ Stale(d, o)

Phase(d, o) ==
    \/ IdlePhase(d, o) \/ OpenPhase(d, o) \/ ActivePhase(d, o)
    \/ FinishPhase(d, o) \/ AbortPhase(d, o)

Known(d) == d \in DeviceRecord /\ (d.mode = "upload" => d.source \in 1 .. host.session)

Good(d, o) == Known(d) /\ o \in OwnerRecord /\ Phase(d, o)

ShelfInv ==
    \A b \in shelf : \E s \in 1 .. host.session : s \notin changed /\ b.file = Whole(s)

BulkInv == HostInv /\ Good(device, owner) /\ ShelfInv

(***************************************************************************)
(* The host.                                                               *)
(***************************************************************************)
(* What a step of the host adds to the line.                               *)
LEMMA StepKeepsHostSide ==
    ASSUME HostSide, NEW h \in HostType, NEW frames \in Seq(Sent),
           h.session >= host.session,
           h.pc \in Waiting => h.session >= 1,
           \A i \in 1 .. Len(frames) :
              frames[i].source <= h.session /\ (frames[i].op = "data" => frames[i].off < Chunks),
           Step(h, frames)
    PROVE  HostSide' /\ host'.session >= host.session
<1>1. host' = h /\ toDevice' = toDevice \o frames
  BY DEF Step
<1>2. /\ toDevice \in Seq(Sent)
      /\ \A i \in 1 .. Len(toDevice) : toDevice[i].source <= host.session
                                       /\ (toDevice[i].op = "data" => toDevice[i].off < Chunks)
      /\ \A i \in 1 .. Len(toDevice) : toDevice[i] \in Sent
  BY DEF HostSide
<1>3. /\ toDevice' \in Seq(Sent) /\ Len(toDevice') = Len(toDevice) + Len(frames)
      /\ \A i \in 1 .. Len(toDevice) + Len(frames) :
            toDevice'[i] = IF i <= Len(toDevice) THEN toDevice[i] ELSE frames[i - Len(toDevice)]
  BY <1>1, <1>2, ConcatType
<1>4. host.session \in Nat /\ h.session \in Nat
  BY DEF HostSide, HostType
<1>5. ASSUME NEW i \in 1 .. Len(toDevice')
      PROVE  toDevice'[i].source <= h.session /\ (toDevice'[i].op = "data" => toDevice'[i].off < Chunks)
  <2>1. CASE i <= Len(toDevice)
    <3>1. toDevice'[i] = toDevice[i] /\ i \in 1 .. Len(toDevice)
      BY <1>3, <2>1
    <3>2. toDevice[i].source \in Nat
      BY <1>2, <3>1 DEF Sent
    <3>3. toDevice[i].source <= host.session /\ (toDevice[i].op = "data" => toDevice[i].off < Chunks)
      BY <1>2, <3>1
    <3>4. toDevice[i].source <= h.session
      <4>1. PICK source \in Nat : source = toDevice[i].source
        BY <3>2
      <4>2. PICK old \in Nat : old = host.session
        BY <1>4
      <4>3. PICK new \in Nat : new = h.session
        BY <1>4
      <4>4. source <= old /\ old <= new
        BY <3>3, <4>1, <4>2, <4>3
      <4>5. source <= new
        BY <4>4
      <4> QED BY <4>1, <4>3, <4>5
    <3> QED BY <3>1, <3>3, <3>4
  <2>2. CASE ~ (i <= Len(toDevice))
    <3>1. i - Len(toDevice) \in 1 .. Len(frames) /\ toDevice'[i] = frames[i - Len(toDevice)]
      BY <1>2, <1>3, <2>2
    <3> QED BY <3>1
  <2> QED BY <2>1, <2>2
<1> QED BY <1>1, <1>3, <1>5 DEF HostSide

LEMMA AskKeepsHostSide ==
    ASSUME HostSide, NEW h \in HostType, NEW pc \in Places, NEW op \in Ops \ {"data"},
           h.session >= 1, h.session >= host.session, Ask(h, pc, op)
    PROVE  HostSide' /\ host'.session >= host.session
<1> DEFINE g == [h EXCEPT !.pc = pc, !.seq = @ + 1]
           f == [op |-> op, seq |-> h.seq + 1, id |-> h.stream, off |-> 0, source |-> h.session]
<1>1. g \in HostType
  <2>1. h.seq + 1 \in Nat
    BY DEF HostType
  <2> QED BY <2>1 DEF HostType
<1>2. g.session = h.session /\ h.session \in 1 .. MaxSessions /\ h.stream \in Nat /\ h.seq \in Nat
  BY DEF HostType
<1>3. f \in Sent
  BY <1>2 DEF Sent
<1>4. Step(g, <<f>>)
  BY DEF Ask
<1>5. f.source = h.session /\ f.op # "data"
  OBVIOUS
<1> HIDE DEF g, f
<1>6. <<f>> \in Seq(Sent) /\ Len(<<f>>) = 1
  BY <1>3
<1>7. \A i \in 1 .. Len(<<f>>) : <<f>>[i] = f
  BY <1>6
<1>8. h.session <= h.session /\ g.session >= host.session
  BY <1>2
<1>9. \A i \in 1 .. Len(<<f>>) :
         <<f>>[i].source <= g.session /\ (<<f>>[i].op = "data" => <<f>>[i].off < Chunks)
  BY <1>2, <1>5, <1>7, <1>8
<1> QED BY <1>1, <1>2, <1>4, <1>6, <1>8, <1>9, StepKeepsHostSide

LEMMA EndKeepsHostSide ==
    ASSUME HostSide, NEW confirmed \in BOOLEAN, End(confirmed)
    PROVE  HostSide' /\ host'.session >= host.session
<1> DEFINE g == [host EXCEPT !.pc = "failed", !.confirmed = confirmed]
<1>0. host \in HostType
  BY DEF HostSide
<1>1. g \in HostType
  BY <1>0 DEF HostType, Places
<1>2. g.session = host.session /\ g.pc = "failed" /\ host.session \in Nat
  BY <1>0 DEF HostType
<1>3. <<>> \in Seq(Sent)
  OBVIOUS
<1>4. Len(<<>>) = 0
  OBVIOUS
<1>5. Step(g, <<>>)
  BY DEF End
<1> HIDE DEF g
<1>6. g.session >= host.session /\ g.pc \notin Waiting
  BY <1>2 DEF Waiting
<1>7. \A i \in 1 .. Len(<<>>) :
         <<>>[i].source <= g.session /\ (<<>>[i].op = "data" => <<>>[i].off < Chunks)
  BY <1>4
<1> QED BY <1>1, <1>3, <1>5, <1>6, <1>7, StepKeepsHostSide

LEMMA GiveUpKeepsHostSide ==
    ASSUME HostSide, host.pc \in Waiting, GiveUp
    PROVE  HostSide' /\ host'.session >= host.session
<1>1. host \in HostType /\ host.session >= 1 /\ host.session \in Nat
  BY DEF HostSide, HostType
<1>2. "aborting" \in Places /\ "abort" \in Ops \ {"data"}
  BY DEF Places, Waiting, Ops
<1> QED BY <1>1, <1>2, AskKeepsHostSide DEF GiveUp

LEMMA StopKeepsHostSide ==
    ASSUME HostSide, host.pc \in Waiting, Stop
    PROVE  HostSide' /\ host'.session >= host.session
BY EndKeepsHostSide, GiveUpKeepsHostSide DEF Stop

\* The chunks that the credits allow.
LEMMA MinOfTwo ==
    ASSUME NEW m \in Nat, NEW n \in Nat
    PROVE  Min({m, n}) \in Nat /\ Min({m, n}) <= m /\ Min({m, n}) <= n /\ Min({m, n}) \in {m, n}
BY MinIsLeast

LEMMA ProceedKeepsHostSide ==
    ASSUME HostSide, NEW h \in HostType, h.session = host.session, h.session >= 1, Proceed(h)
    PROVE  HostSide' /\ host'.session >= host.session
<1>0. h.session \in Nat /\ h.sent \in 0 .. Chunks /\ h.credits \in Nat /\ h.stream \in Nat
      /\ h.session \in 1 .. MaxSessions /\ Chunks \in Nat
  BY ConstantsAssumption DEF HostType
<1>1. CASE h.durable < Chunks
  <2> DEFINE n == Min({h.credits, Chunks - h.sent})
             g == [h EXCEPT !.pc = "polling", !.sent = @ + n, !.credits = @ - n]
             frames == [k \in 1 .. n |-> [op |-> "data", seq |-> 0, id |-> h.stream,
                                          off |-> h.sent + k - 1, source |-> h.session]]
  <2>1. Step(g, frames)
    BY <1>1 DEF Proceed
  <2>2. n \in Nat /\ n <= h.credits /\ n <= Chunks - h.sent
    BY <1>0, MinOfTwo
  <2> HIDE DEF n
  <2>3. g \in HostType /\ g.session = h.session
    <3>1. h.sent + n \in 0 .. Chunks /\ h.credits - n \in Nat
      BY <1>0, <2>2
    <3>2. "polling" \in Places
      BY DEF Places, Waiting
    <3> QED BY <3>1, <3>2 DEF HostType
  <2>4. \A k \in 1 .. n : frames[k] \in Sent /\ frames[k].source = h.session /\ frames[k].off < Chunks
    <3>1. \A k \in 1 .. n : h.sent + k - 1 \in Nat /\ h.sent + k - 1 < Chunks
      BY <1>0, <2>2
    <3> QED BY <1>0, <3>1 DEF Sent, Ops
  <2>5. frames \in Seq(Sent) /\ Len(frames) = n
    BY <2>2, <2>4
  <2> HIDE DEF g, frames
  <2> QED BY <1>0, <2>1, <2>3, <2>4, <2>5, StepKeepsHostSide
<1>2. CASE ~ (h.durable < Chunks)
  <2>1. Ask(h, "finishing", "finish")
    BY <1>2 DEF Proceed
  <2>2. "finishing" \in Places /\ "finish" \in Ops \ {"data"}
    BY DEF Places, Waiting, Ops
  <2> QED BY <1>0, <2>1, <2>2, AskKeepsHostSide
<1> QED BY <1>1, <1>2

LEMMA PositionType ==
    ASSUME toHost \in Seq(FrameType), Position # 0
    PROVE  Position \in 1 .. Len(toHost)
<1> DEFINE I == {i \in 1 .. Len(toHost) :
                    IF host.pc = "polling" THEN toHost[i].op = "credit" ELSE toHost[i].seq = host.seq}
<1>1. Position = IF I # {} THEN Min(I) ELSE 0
  BY DEF Position, SelectInSeq
<1>2. I \in SUBSET Nat /\ I \subseteq 1 .. Len(toHost)
  OBVIOUS
<1> HIDE DEF I
<1> QED BY <1>1, <1>2, MinIsLeast

LEMMA ReceiveKeepsHostSide ==
    ASSUME HostInv, Receive
    PROVE  HostSide' /\ host'.session >= host.session
<1> DEFINE f == toHost[Position]
<1>1. f \in FrameType /\ f.durable \in Nat /\ f.value \in Nat /\ f.id \in Nat /\ f.ok \in BOOLEAN
  <2>1. Position \in 1 .. Len(toHost) /\ toHost \in Seq(FrameType)
    BY PositionType DEF Receive, HostInv
  <2>2. f \in FrameType
    BY <2>1
  <2> HIDE DEF f
  <2> QED BY <2>2 DEF FrameType
<1>2. /\ HostSide /\ host.pc \in Waiting /\ host \in HostType
      /\ host.session >= 1 /\ host.session \in Nat /\ host.credits \in Nat /\ host.sent \in 0 .. Chunks
      /\ Window \in Nat /\ Chunks \in Nat
  BY ConstantsAssumption DEF Receive, HostInv, HostSide, HostType
<1>3. CASE f.op = "open" /\ GotOpen(f)
  <2> DEFINE h == [host EXCEPT !.stream = f.id, !.credits = Window]
  <2>1. h \in HostType /\ h.session = host.session
    BY <1>1, <1>2 DEF HostType
  <2>2. CASE f.ok
    BY <1>2, <1>3, <2>1, <2>2, ProceedKeepsHostSide DEF GotOpen
  <2>3. CASE ~ f.ok
    BY <1>2, <1>3, <2>3, EndKeepsHostSide DEF GotOpen
  <2> QED BY <2>2, <2>3
<1>4. CASE f.op = "credit" /\ GotCredit(f)
  <2> DEFINE h == [host EXCEPT !.durable = f.durable, !.credits = @ + f.value]
  <2>1. h \in HostType /\ h.session = host.session
    <3>1. host.credits + f.value \in Nat
      BY <1>1, <1>2
    <3> QED BY <1>1, <1>2, <3>1 DEF HostType
  <2>2. CASE f.id = host.stream /\ ValidDurable(f) /\ host.credits + f.value <= Window
    BY <1>2, <1>4, <2>1, <2>2, ProceedKeepsHostSide DEF GotCredit
  <2>3. CASE ~ (f.id = host.stream /\ ValidDurable(f) /\ host.credits + f.value <= Window)
    BY <1>2, <1>4, <2>3, GiveUpKeepsHostSide DEF GotCredit
  <2> QED BY <2>2, <2>3
<1>5. CASE f.op = "status" /\ GotStatus(f)
  <2> DEFINE h == [host EXCEPT !.durable = f.durable, !.sent = f.durable, !.credits = f.value]
  <2>2. CASE f.ok /\ f.id = host.stream /\ ValidDurable(f)
    <3>1. f.durable \in 0 .. Chunks
      BY <1>1, <1>2, <2>2 DEF ValidDurable
    <3>2. h \in HostType /\ h.session = host.session
      BY <1>1, <1>2, <3>1 DEF HostType
    <3> QED BY <1>2, <1>5, <2>2, <3>2, ProceedKeepsHostSide DEF GotStatus
  <2>3. CASE ~ (f.ok /\ f.id = host.stream /\ ValidDurable(f))
    BY <1>2, <1>5, <2>3, GiveUpKeepsHostSide DEF GotStatus
  <2> QED BY <2>2, <2>3
<1>6. CASE f.op = "finish" /\ GotFinish(f)
  <2> DEFINE h == [host EXCEPT !.pc = "done"]
  <2>1. h \in HostType /\ h.session = host.session /\ h.session >= 1
    BY <1>2 DEF HostType, Places
  <2>2. CASE f.ok /\ f.value = 1 /\ f.id = host.stream
    <3>1. <<>> \in Seq(Sent)
      OBVIOUS
    <3>2. Len(<<>>) = 0
      OBVIOUS
    <3>3. Step(h, <<>>)
      BY <1>6, <2>2 DEF GotFinish
    <3>4. h.session >= host.session
      BY <1>2, <2>1
    <3> HIDE DEF h
    <3>5. \A i \in 1 .. Len(<<>>) :
             <<>>[i].source <= h.session /\ (<<>>[i].op = "data" => <<>>[i].off < Chunks)
      BY <3>2
    <3> QED BY <1>2, <2>1, <3>1, <3>3, <3>4, <3>5, StepKeepsHostSide
  <2>3. CASE ~ (f.ok /\ f.value = 1 /\ f.id = host.stream)
    BY <1>2, <1>6, <2>3, GiveUpKeepsHostSide DEF GotFinish
  <2> QED BY <2>2, <2>3
<1>7. CASE f.op = "abort" /\ End(f.ok /\ f.id = host.stream)
  BY <1>1, <1>2, <1>7, EndKeepsHostSide
<1>8. f.op \in {"open", "credit", "status", "finish", "abort"}
  BY DEF Receive, Awaited, Waiting
<1> QED BY <1>3, <1>4, <1>5, <1>6, <1>7, <1>8 DEF Receive

HostMoves == Start \/ Receive \/ Timeout \/ Unroutable \/ Garble \/ Kill \/ Lose

(* What the host and the line do, whatever they lose and however late.     *)
LEMMA HostMovesSoundly ==
    ASSUME HostInv, HostMoves
    PROVE  /\ HostInv' /\ host'.session >= host.session /\ host.session \in Nat
           /\ UNCHANGED <<device, owner, shelf>>
           /\ changed' \in {changed, changed \cup {host.session + 1}}
           /\ changed' # changed => host'.session = host.session + 1
<1>1. /\ HostSide /\ host \in HostType /\ host.session \in Nat
      /\ toHost \in Seq(FrameType) /\ tx \in Seq(FrameType)
  BY DEF HostInv, HostSide, HostType
<1>2. \A k \in 1 .. Len(toHost) : RemoveAt(toHost, k) \in Seq(FrameType)
  BY <1>1, RemoveAtProperties
<1>3. CASE Start
  <2> DEFINE h == [Idling EXCEPT !.session = host.session + 1]
  <2>1. h \in HostType /\ h.session = host.session + 1
    <3>1. host.session + 1 \in 0 .. MaxSessions
      BY <1>1, <1>3, ConstantsAssumption DEF Start
    <3>2. 0 \in 0 .. MaxSessions /\ 0 \in 0 .. Chunks
      BY ConstantsAssumption
    <3>3. Idling \in HostType
      BY <3>2 DEF Idling, HostType, Places
    <3> QED BY <3>1, <3>3 DEF HostType
  <2>2. Ask(h, "opening", "open") /\ "opening" \in Places /\ "open" \in Ops \ {"data"}
    BY <1>3 DEF Start, Places, Waiting, Ops
  <2>3. h.session >= 1 /\ h.session >= host.session
    BY <1>1, <2>1
  <2>4. HostSide' /\ host'.session = host.session + 1
    <3>1. host'.session = h.session
      BY <2>1, <2>2 DEF Ask, Step, HostType
    <3> HIDE DEF h
    <3> QED BY <1>1, <2>1, <2>2, <2>3, <3>1, AskKeepsHostSide
  <2>5. <<>> \in Seq(FrameType)
    OBVIOUS
  <2> QED BY <1>1, <1>3, <2>4, <2>5 DEF Start, HostInv
<1>4. CASE Receive
  BY <1>1, <1>2, <1>4, ReceiveKeepsHostSide, PositionType DEF Receive, HostInv
<1>5. CASE Timeout
  <2>1. host.session >= 1 /\ host.pc \in Waiting
    BY <1>1, <1>5 DEF HostSide, Timeout
  <2>2. "status" \in Places /\ "status" \in Ops \ {"data"} /\ host.session >= host.session
    BY <1>1 DEF Places, Waiting, Ops
  <2>3. HostSide' /\ host'.session >= host.session
    BY <1>1, <1>5, <2>1, <2>2, AskKeepsHostSide, StopKeepsHostSide DEF Timeout
  <2> QED BY <1>1, <1>5, <2>3 DEF Timeout, HostInv
<1>6. CASE Unroutable
  <2>1. toHost' \in Seq(FrameType)
    <3>1. Len(toHost) > QueueCapacity => QueueCapacity + 1 \in 1 .. Len(toHost)
      BY <1>1, ConstantsAssumption
    <3> QED BY <1>1, <1>2, <1>6, <3>1 DEF Unroutable
  <2> QED BY <1>1, <1>6, <2>1, StopKeepsHostSide DEF Unroutable, HostInv
<1>7. CASE Garble
  BY <1>1, <1>2, <1>7, StopKeepsHostSide DEF Garble, HostInv
<1>8. CASE Kill
  <2>1. host' = [host EXCEPT !.pc = "gone"] /\ toDevice' = toDevice
    BY <1>8 DEF Kill, wires
  <2>2. host' \in HostType /\ host'.session = host.session /\ host'.pc = "gone"
    BY <1>1, <2>1 DEF HostType, Places
  <2>3. HostSide' /\ host'.session >= host.session
    BY <1>1, <2>1, <2>2 DEF HostSide, Waiting
  <2> QED BY <1>1, <1>8, <2>3 DEF Kill, wires, HostInv
<1>9. CASE Lose
  <2>1. /\ toDevice # <<>> /\ toDevice' = Tail(toDevice) /\ host' = host
        /\ toDevice \in Seq(Sent)
    BY <1>1, <1>9 DEF Lose, HostSide
  <2>2. toDevice' \in Seq(Sent) /\ Len(toDevice') = Len(toDevice) - 1
        /\ \A i \in 1 .. Len(toDevice) - 1 : toDevice'[i] = toDevice[i + 1]
    BY <2>1
  <2>3. HostSide' /\ host'.session >= host.session
    BY <1>1, <2>1, <2>2 DEF HostSide
  <2> QED BY <1>1, <1>9, <2>3 DEF Lose, HostInv
<1> QED BY <1>3, <1>4, <1>5, <1>6, <1>7, <1>8, <1>9 DEF HostMoves

(***************************************************************************)
(* The owner.                                                              *)
(***************************************************************************)
(* An abort is next, wherever it is; otherwise the oldest request.         *)
LEMMA NextRequestIs ==
    ASSUME owner \in OwnerRecord, owner.mail # <<>>
    PROVE  /\ NextRequest \in 1 .. Len(owner.mail)
           /\ owner.mail[NextRequest].op # "abort" =>
                 NextRequest = 1 /\ \A i \in 1 .. Len(owner.mail) : owner.mail[i].op # "abort"
<1> DEFINE I == {i \in 1 .. Len(owner.mail) : owner.mail[i].op = "abort"}
<1>1. NextRequest = IF (IF I # {} THEN Min(I) ELSE 0) # 0 THEN Min(I) ELSE 1
  BY DEF NextRequest, SelectInSeq
<1>2. I \in SUBSET Nat /\ I \subseteq 1 .. Len(owner.mail)
  OBVIOUS
<1>3. Len(owner.mail) \in Nat /\ Len(owner.mail) >= 1
  BY DEF OwnerRecord
<1>4. CASE I = {}
  BY <1>1, <1>3, <1>4
<1>5. CASE I # {}
  <2>1. Min(I) \in I
    BY <1>2, <1>5, MinIsLeast
  <2>2. PICK n \in I : n = Min(I)
    BY <2>1
  <2>3. n \in 1 .. Len(owner.mail) /\ n # 0 /\ owner.mail[n].op = "abort"
    OBVIOUS
  <2>4. NextRequest = n
    <3> HIDE DEF I
    <3> QED BY <1>1, <1>5, <2>2, <2>3
  <2> QED BY <2>3, <2>4
<1> QED BY <1>4, <1>5

\* The owner when the next request has been answered with a.
Moved(a) == [owner EXCEPT !.mail = RemoveAt(@, NextRequest), !.answers = Append(@, a)]

LEMMA AnswerMoves ==
    ASSUME NEW r, NEW ok, NEW id
    PROVE  Answer(r, ok, id) = Moved([for |-> r.for, ok |-> ok, id |-> id])
BY DEF Answer, Moved

(* What an answer leaves of the mailbox.                                   *)
LEMMA MovedIs ==
    ASSUME owner \in OwnerRecord, owner.mail # <<>>, NEW a \in OwnerAnswer
    PROVE  /\ Moved(a) \in OwnerRecord
           /\ Moved(a).upload = owner.upload /\ Moved(a).nextId = owner.nextId
           /\ Moved(a).file = owner.file
           /\ Len(Moved(a).mail) = Len(owner.mail) - 1
           /\ \A j \in 1 .. Len(owner.mail) - 1 :
                 Moved(a).mail[j] = IF j < NextRequest THEN owner.mail[j] ELSE owner.mail[j + 1]
           /\ Len(Moved(a).answers) = Len(owner.answers) + 1
           /\ Moved(a).answers[Len(owner.answers) + 1] = a
           /\ \A j \in 1 .. Len(owner.answers) : Moved(a).answers[j] = owner.answers[j]
<1> DEFINE mail == RemoveAt(owner.mail, NextRequest)
           answers == Append(owner.answers, a)
<1>1. owner.mail \in Seq(OwnerRequest) /\ owner.answers \in Seq(OwnerAnswer)
  BY DEF OwnerRecord
<1>2. NextRequest \in 1 .. Len(owner.mail)
  BY NextRequestIs
<1>3. /\ mail \in Seq(OwnerRequest) /\ Len(mail) = Len(owner.mail) - 1
      /\ \A j \in 1 .. Len(owner.mail) - 1 :
            mail[j] = IF j < NextRequest THEN owner.mail[j] ELSE owner.mail[j + 1]
  BY <1>1, <1>2, RemoveAtProperties
<1>4. /\ answers \in Seq(OwnerAnswer) /\ Len(answers) = Len(owner.answers) + 1
      /\ answers[Len(owner.answers) + 1] = a
      /\ \A j \in 1 .. Len(owner.answers) : answers[j] = owner.answers[j]
  BY <1>1
<1>5. Moved(a) = [owner EXCEPT !.mail = mail, !.answers = answers]
  BY DEF Moved
<1> HIDE DEF mail, answers
<1>6. /\ Moved(a) \in OwnerRecord /\ Moved(a).mail = mail /\ Moved(a).answers = answers
      /\ Moved(a).upload = owner.upload /\ Moved(a).nextId = owner.nextId
      /\ Moved(a).file = owner.file
  BY <1>3, <1>4, <1>5 DEF OwnerRecord
<1> QED BY <1>3, <1>4, <1>6

(* The answer to the only request.                                         *)
LEMMA OnlyMoved ==
    ASSUME owner \in OwnerRecord, Len(owner.mail) = 1, Len(owner.answers) = 0,
           NEW a \in OwnerAnswer
    PROVE  /\ Moved(a) \in OwnerRecord
           /\ Moved(a).upload = owner.upload /\ Moved(a).nextId = owner.nextId
           /\ Moved(a).file = owner.file
           /\ Len(Moved(a).mail) = 0 /\ Len(Moved(a).answers) = 1 /\ Moved(a).answers[1] = a
<1>1. owner.mail # <<>>
  OBVIOUS
<1> QED BY <1>1, MovedIs

(* What the owner does with a request of an open or of a finish.           *)
LEMMA OwnerControlGood ==
    ASSUME Good(device, owner), ShelfInv, OwnerStep,
           OpenPhase(device, owner) \/ FinishPhase(device, owner)
    PROVE  Good(device, owner') /\ ShelfInv'
<1> DEFINE r == owner.mail[NextRequest]
<1>1. owner \in OwnerRecord /\ owner.mail # <<>> /\ UNCHANGED <<host, device, changed>>
  BY DEF Good, OwnerStep
<1>2. CASE OpenPhase(device, owner)
  <2>1. /\ owner.mail = <<Request("begin", "open", 0, 0, device.source)>> /\ owner.answers = <<>>
        /\ owner.upload = 0 /\ device.controls = {"open"}
    BY <1>1, <1>2 DEF OpenPhase
  <2>2. Len(owner.mail) = 1 /\ Len(owner.answers) = 0
    BY <2>1
  <2>3. NextRequest = 1 /\ r = Request("begin", "open", 0, 0, device.source)
    BY <1>1, <2>1, <2>2, NextRequestIs
  <2>4. r.op = "begin" /\ r.for = "open"
    BY <2>3 DEF Request
  <2>5. OwnerBegin(r)
    BY <2>4 DEF OwnerStep, OwnerBegin, OwnerWrite, OwnerCommit, OwnerAbort
  <2> DEFINE refused == Answer(r, FALSE, 0)
             opened == Answer(r, TRUE, owner.nextId)
             begun == [opened EXCEPT !.upload = owner.nextId, !.nextId = @ + 1, !.file = NoFile]
  <2>6. owner' = refused \/ owner' = begun
    BY <2>1, <2>5 DEF OwnerBegin
  <2>7. owner.nextId \in Nat /\ owner.nextId # 0
    BY <1>1 DEF OwnerRecord
  <2>8. CASE owner' = refused
    <3>0. /\ refused \in OwnerRecord /\ refused.upload = 0
          /\ Len(refused.mail) = 0 /\ Len(refused.answers) = 1
          /\ refused.answers[1] = [for |-> "open", ok |-> FALSE, id |-> 0]
      <4>1. [for |-> "open", ok |-> FALSE, id |-> 0] \in OwnerAnswer
        BY DEF OwnerAnswer
      <4>2. refused = Moved([for |-> "open", ok |-> FALSE, id |-> 0])
        BY <2>4, AnswerMoves
      <4> QED BY <1>1, <2>1, <2>2, <4>1, <4>2, OnlyMoved
    <3>1. /\ owner' \in OwnerRecord /\ owner'.upload = 0
          /\ Len(owner'.mail) = 0 /\ Len(owner'.answers) = 1
          /\ owner'.answers[1] = [for |-> "open", ok |-> FALSE, id |-> 0]
      <4> HIDE DEF refused
      <4> QED BY <2>8, <3>0
    <3>2. owner'.mail = <<>> /\ owner'.answers = <<[for |-> "open", ok |-> FALSE, id |-> 0]>>
      BY <3>1 DEF OwnerRecord
    <3>3. OpenPhase(device, owner')
      BY <1>2, <2>1, <3>1, <3>2 DEF OpenPhase
    <3> QED BY <1>1, <2>5, <3>1, <3>3 DEF Good, Phase, OwnerBegin, ShelfInv
  <2>9. CASE owner' = begun
    <3>1. /\ opened \in OwnerRecord /\ opened.nextId = owner.nextId
          /\ Len(opened.mail) = 0 /\ Len(opened.answers) = 1
          /\ opened.answers[1] = [for |-> "open", ok |-> TRUE, id |-> owner.nextId]
      <4>1. [for |-> "open", ok |-> TRUE, id |-> owner.nextId] \in OwnerAnswer
        BY <2>7 DEF OwnerAnswer
      <4>2. opened = Moved([for |-> "open", ok |-> TRUE, id |-> owner.nextId])
        BY <2>4, AnswerMoves
      <4>3. PICK yes \in OwnerAnswer : yes = [for |-> "open", ok |-> TRUE, id |-> owner.nextId]
        BY <4>1
      <4>4. /\ Moved(yes) \in OwnerRecord /\ Moved(yes).nextId = owner.nextId
            /\ Len(Moved(yes).mail) = 0 /\ Len(Moved(yes).answers) = 1
            /\ Moved(yes).answers[1] = yes
        BY <1>1, <2>2, OnlyMoved
      <4> HIDE DEF opened
      <4> QED BY <4>2, <4>3, <4>4
    <3> HIDE DEF opened
    <3>2. NoFile \in [0 .. Chunks - 1 -> 0 .. MaxSessions]
      BY ConstantsAssumption DEF NoFile
    <3>3. /\ owner' \in OwnerRecord /\ owner'.upload = owner.nextId
          /\ owner'.mail = opened.mail /\ owner'.answers = opened.answers
      <4>1. owner.nextId + 1 \in Nat \ {0} /\ begun = [opened EXCEPT !.upload = owner.nextId,
                                                       !.nextId = owner.nextId + 1, !.file = NoFile]
        BY <2>7, <3>1 DEF OwnerRecord
      <4> HIDE DEF begun
      <4> QED BY <2>7, <2>9, <3>1, <3>2, <4>1 DEF OwnerRecord
    <3>4. owner'.mail = <<>> /\ owner'.answers = <<[for |-> "open", ok |-> TRUE, id |-> owner.nextId]>>
      BY <3>1, <3>3 DEF OwnerRecord
    <3>5. OpenPhase(device, owner')
      BY <1>2, <2>1, <2>7, <3>3, <3>4 DEF OpenPhase
    <3> QED BY <1>1, <2>5, <3>3, <3>5 DEF Good, Phase, OwnerBegin, ShelfInv
  <2> QED BY <2>6, <2>8, <2>9
<1>3. CASE FinishPhase(device, owner)
  <2>1. /\ owner.mail = <<Request(IF device.publishes THEN "commit" ELSE "abort", "finish",
                                  device.id, 0, device.source)>>
        /\ owner.answers = <<>> /\ device.controls = {"finish"}
        /\ device.publishes => device.source \notin changed /\ owner.file = Whole(device.source)
    BY <1>1, <1>3 DEF FinishPhase
  <2>2. Len(owner.mail) = 1 /\ Len(owner.answers) = 0
    BY <2>1
  <2>3. NextRequest = 1 /\ r = Request(IF device.publishes THEN "commit" ELSE "abort", "finish",
                                       device.id, 0, device.source)
    BY <1>1, <2>1, <2>2, NextRequestIs
  <2>4. r.op = (IF device.publishes THEN "commit" ELSE "abort") /\ r.for = "finish"
    BY <2>3 DEF Request
  <2>5. (device.publishes /\ OwnerCommit(r)) \/ (~ device.publishes /\ OwnerAbort(r))
    BY <2>4 DEF OwnerStep, OwnerBegin, OwnerWrite, OwnerCommit, OwnerAbort
  <2> DEFINE yes == Answer(r, TRUE, 0)
             no == Answer(r, FALSE, 0)
             ended == [yes EXCEPT !.upload = 0]
             dropped == [yes EXCEPT !.upload = 0, !.file = NoFile]
  <2>6a. /\ yes \in OwnerRecord /\ yes.file = owner.file
         /\ Len(yes.mail) = 0 /\ Len(yes.answers) = 1
         /\ yes.answers[1] = [for |-> "finish", ok |-> TRUE, id |-> 0]
    <3>1. [for |-> "finish", ok |-> TRUE, id |-> 0] \in OwnerAnswer
      BY DEF OwnerAnswer
    <3>2. yes = Moved([for |-> "finish", ok |-> TRUE, id |-> 0])
      BY <2>4, AnswerMoves
    <3>3. PICK a \in OwnerAnswer : a = [for |-> "finish", ok |-> TRUE, id |-> 0]
      BY <3>1
    <3>4. /\ Moved(a) \in OwnerRecord /\ Moved(a).file = owner.file
          /\ Len(Moved(a).mail) = 0 /\ Len(Moved(a).answers) = 1
          /\ Moved(a).answers[1] = a
      BY <1>1, <2>2, OnlyMoved
    <3> HIDE DEF yes
    <3> QED BY <3>2, <3>3, <3>4
  <2>6b. /\ no \in OwnerRecord /\ no.file = owner.file
         /\ Len(no.mail) = 0 /\ Len(no.answers) = 1
         /\ no.answers[1] = [for |-> "finish", ok |-> FALSE, id |-> 0]
    <3>1. [for |-> "finish", ok |-> FALSE, id |-> 0] \in OwnerAnswer
      BY DEF OwnerAnswer
    <3>2. no = Moved([for |-> "finish", ok |-> FALSE, id |-> 0])
      BY <2>4, AnswerMoves
    <3>3. PICK a \in OwnerAnswer : a = [for |-> "finish", ok |-> FALSE, id |-> 0]
      BY <3>1
    <3>4. /\ Moved(a) \in OwnerRecord /\ Moved(a).file = owner.file
          /\ Len(Moved(a).mail) = 0 /\ Len(Moved(a).answers) = 1
          /\ Moved(a).answers[1] = a
      BY <1>1, <2>2, OnlyMoved
    <3> HIDE DEF no
    <3> QED BY <3>2, <3>3, <3>4
  <2>7. NoFile \in [0 .. Chunks - 1 -> 0 .. MaxSessions]
    BY ConstantsAssumption DEF NoFile
  <2>8. \/ owner' = no
        \/ owner' = ended
        \/ ~ device.publishes /\ owner' = dropped
    BY <2>5 DEF OwnerCommit, OwnerAbort
  <2> HIDE DEF yes, no
  <2>9. /\ owner' \in OwnerRecord
        /\ Len(owner'.mail) = 0 /\ Len(owner'.answers) = 1 /\ owner'.answers[1].for = "finish"
        /\ owner'.answers[1].ok => owner'.upload = 0
        /\ device.publishes => owner'.file = owner.file
    <3>1. CASE owner' = no
      BY <2>6b, <3>1
    <3>2. CASE owner' = ended
      <4>1. /\ owner' \in OwnerRecord /\ owner'.mail = yes.mail /\ owner'.answers = yes.answers
            /\ owner'.upload = 0 /\ owner'.file = owner.file
        BY <2>6a, <3>2 DEF OwnerRecord
      <4> QED BY <2>6a, <4>1
    <3>3. CASE ~ device.publishes /\ owner' = dropped
      <4>1. /\ owner' \in OwnerRecord /\ owner'.mail = yes.mail /\ owner'.answers = yes.answers
            /\ owner'.upload = 0
        BY <2>6a, <2>7, <3>3 DEF OwnerRecord
      <4> QED BY <2>6a, <3>3, <4>1
    <3> QED BY <2>8, <3>1, <3>2, <3>3
  <2>10. owner'.mail = <<>>
    BY <2>9 DEF OwnerRecord
  <2>11. FinishPhase(device, owner')
    BY <1>3, <2>1, <2>9, <2>10 DEF FinishPhase
  <2>12. Good(device, owner')
    BY <1>1, <2>9, <2>11 DEF Good, Known, Phase
  <2>13. shelf' \subseteq shelf \cup {[id |-> r.id, file |-> owner.file]}
         /\ (shelf' # shelf => device.publishes)
    BY <2>5 DEF OwnerCommit, OwnerAbort
  <2>14. ShelfInv'
    <3> SUFFICES ASSUME NEW b \in shelf'
                 PROVE  \E s \in 1 .. host.session : s \notin changed /\ b.file = Whole(s)
      BY <1>1 DEF ShelfInv
    <3>1. CASE b \in shelf
      BY <3>1 DEF ShelfInv
    <3>2. CASE b \notin shelf
      <4>1. b = [id |-> r.id, file |-> owner.file] /\ device.publishes
        BY <2>13, <3>2
      <4>2. device.source \in 1 .. host.session
        BY <1>3 DEF Good, Known, FinishPhase
      <4> QED BY <2>1, <4>1, <4>2
    <3> QED BY <3>1, <3>2
  <2> QED BY <2>12, <2>14
<1> QED BY <1>2, <1>3

(* A write of the stream that is active: the answer is that of the oldest  *)
(* write that is not answered, and no other chunk of the file changes.     *)
LEMMA WriteAnswered ==
    ASSUME NEW d \in DeviceRecord, NEW o \in OwnerRecord, NEW p \in OwnerRecord,
           NEW w \in Write,
           ActivePhase(d, o), o.mail # <<>>,
           w = d.outstanding[Len(o.answers) + 1],
           p.upload = o.upload,
           Len(p.mail) = Len(o.mail) - 1,
           \A j \in 1 .. Len(o.mail) - 1 : p.mail[j] = o.mail[j + 1],
           Len(p.answers) = Len(o.answers) + 1,
           \A j \in 1 .. Len(o.answers) : p.answers[j] = o.answers[j],
           p.answers[Len(o.answers) + 1].for = "write",
           p.answers[Len(o.answers) + 1].ok => p.file[w.off] = w.source,
           \A k \in 0 .. Chunks - 1 : k # w.off => p.file[k] = o.file[k]
    PROVE  ActivePhase(d, p)
<1>1. PICK waited \in Nat : waited = Len(d.outstanding)
  BY DEF DeviceRecord
<1>0. PICK n \in Nat : n = Len(o.answers)
  BY DEF OwnerRecord
<1>2. PICK m \in Nat : m = Len(o.mail) /\ m >= 1
  BY DEF OwnerRecord
<1>3. PICK admitted \in Nat : admitted = d.admitted
  BY DEF DeviceRecord
<1>4. PICK durable \in Nat : durable = d.durable
  BY DEF DeviceRecord
<1>5. /\ durable + waited <= admitted /\ admitted <= Chunks
      /\ \A i \in 1 .. waited : d.outstanding[i].off = admitted - waited + i - 1
      /\ n + m = waited
      /\ \A i \in 1 .. m :
            o.mail[i] = Request("write", "write", d.id, d.outstanding[n + i].off,
                                d.outstanding[n + i].source)
      /\ \A i \in 1 .. n :
            /\ o.answers[i].for = "write"
            /\ o.answers[i].ok => o.file[d.outstanding[i].off] = d.outstanding[i].source
  BY <1>0, <1>1, <1>2, <1>3, <1>4 DEF ActivePhase, Writes, WritesOf
<1>6. \A i \in 1 .. waited : d.outstanding[i] \in Write
  BY <1>1 DEF DeviceRecord
<1>7. w.off = admitted - waited + n /\ n < waited /\ Chunks \in Nat
  <2>1. n + 1 \in 1 .. waited
    BY <1>2, <1>5
  <2>2. w.off = admitted - waited + (n + 1) - 1
    BY <1>0, <1>5, <2>1
  <2> QED BY <2>1, <2>2, ConstantsAssumption
<1>p. /\ Len(p.mail) = m - 1 /\ \A j \in 1 .. m - 1 : p.mail[j] = o.mail[j + 1]
      /\ Len(p.answers) = n + 1 /\ \A j \in 1 .. n : p.answers[j] = o.answers[j]
      /\ p.answers[n + 1].for = "write"
      /\ p.answers[n + 1].ok => p.file[w.off] = w.source
      /\ w = d.outstanding[n + 1]
  BY <1>0, <1>2
<1>8. ASSUME NEW i \in 1 .. m - 1
      PROVE  p.mail[i] = Request("write", "write", d.id, d.outstanding[n + 1 + i].off,
                                 d.outstanding[n + 1 + i].source)
  <2>1. i \in Nat /\ i + 1 \in 1 .. m
    OBVIOUS
  <2>2. n + (i + 1) = n + 1 + i
    BY <2>1
  <2>3. o.mail[i + 1] = Request("write", "write", d.id, d.outstanding[n + (i + 1)].off,
                                d.outstanding[n + (i + 1)].source)
    BY <1>5, <2>1
  <2> QED BY <1>p, <2>2, <2>3
<1>9. ASSUME NEW i \in 1 .. n + 1
      PROVE  /\ p.answers[i].for = "write"
             /\ p.answers[i].ok => p.file[d.outstanding[i].off] = d.outstanding[i].source
  <2>1. CASE i = n + 1
    BY <1>p, <2>1
  <2>2. CASE i # n + 1
    <3>1. i \in 1 .. n /\ i \in 1 .. waited
      BY <1>7, <2>2
    <3>2. p.answers[i] = o.answers[i]
      BY <1>p, <3>1
    <3>3. d.outstanding[i].off = admitted - waited + i - 1 /\ d.outstanding[i].off \in 0 .. Chunks - 1
      BY <1>5, <1>6, <3>1 DEF Write
    <3>4. admitted - waited + i - 1 # admitted - waited + n
      BY <3>1
    <3> QED BY <1>5, <1>7, <3>1, <3>2, <3>3, <3>4
  <2> QED BY <2>1, <2>2
<1>10. Len(p.answers) + Len(p.mail) = waited
  <2>1. (n + 1) + (m - 1) = n + m
    OBVIOUS
  <2>2. n + m = waited
    BY <1>5
  <2> QED BY <1>p, <2>1, <2>2
<1>11. Writes(d, p)
  BY <1>1, <1>3, <1>4, <1>5, <1>8, <1>9, <1>10, <1>p DEF Writes, WritesOf
<1>12. ASSUME d.intact, NEW k \in 0 .. durable - 1 PROVE p.file[k] = d.source
  <2>1. k # w.off /\ k \in 0 .. Chunks - 1
    <3>1. durable + waited <= admitted /\ admitted <= Chunks
      BY <1>5
    <3>2. durable <= admitted - waited + n /\ durable <= Chunks
      BY <1>7, <3>1
    <3>3. k < admitted - waited + n /\ k < Chunks
      BY <1>7, <3>2
    <3> QED BY <1>7, <3>3
  <2>2. o.file[k] = d.source
    BY <1>4, <1>12 DEF ActivePhase
  <2> QED BY <2>1, <2>2
<1> QED BY <1>4, <1>11, <1>12 DEF ActivePhase

(* The owner writes, or refuses to, and may have written all the same.     *)
LEMMA OwnerWriteGood ==
    ASSUME Good(device, owner), OwnerStep, ActivePhase(device, owner)
    PROVE  Good(device, owner') /\ shelf' = shelf
<1>1. /\ owner \in OwnerRecord /\ owner.mail # <<>> /\ UNCHANGED <<host, device, changed>>
      /\ device \in DeviceRecord /\ Known(device)
  BY DEF Good, Known, OwnerStep
<1>2. PICK n \in Nat : n = Len(owner.answers)
  BY <1>1 DEF OwnerRecord
<1>3. PICK m \in Nat : m = Len(owner.mail)
  BY <1>1 DEF OwnerRecord
<1>4. m >= 1
  BY <1>1, <1>3 DEF OwnerRecord
<1>5. PICK waited \in Nat : waited = Len(device.outstanding)
  BY <1>1 DEF DeviceRecord
<1>6. /\ n + m = waited
      /\ \A i \in 1 .. m :
            owner.mail[i] = Request("write", "write", device.id, device.outstanding[n + i].off,
                                    device.outstanding[n + i].source)
  BY <1>2, <1>3, <1>5 DEF ActivePhase, Writes, WritesOf
<1>7. n + 1 \in 1 .. waited
  BY <1>4, <1>6
<1>8. PICK w \in Write : w = device.outstanding[n + 1]
  BY <1>1, <1>5, <1>7 DEF DeviceRecord
<1>9. NextRequest = 1
  <2>1. ASSUME NEW i \in 1 .. m PROVE owner.mail[i].op # "abort"
    <3>1. owner.mail[i] = Request("write", "write", device.id, device.outstanding[n + i].off,
                                  device.outstanding[n + i].source)
      BY <1>6
    <3> QED BY <3>1 DEF Request
  <2> QED BY <1>1, <1>3, <2>1, NextRequestIs
<1>10. PICK r : r = owner.mail[NextRequest]
  OBVIOUS
<1>11. r = Request("write", "write", device.id, w.off, w.source)
  <2>1. 1 \in 1 .. m
    BY <1>4
  <2> QED BY <1>6, <1>8, <1>9, <1>10, <2>1
<1>12. r.op = "write" /\ r.for = "write" /\ r.off = w.off /\ r.source = w.source
  BY <1>11 DEF Request
<1>13. OwnerWrite(r)
  BY <1>10, <1>12 DEF OwnerStep, OwnerBegin, OwnerWrite, OwnerCommit, OwnerAbort
<1>14. PICK yes \in OwnerAnswer : yes = [for |-> "write", ok |-> TRUE, id |-> 0]
  BY DEF OwnerAnswer
<1>15. PICK no \in OwnerAnswer : no = [for |-> "write", ok |-> FALSE, id |-> 0]
  BY DEF OwnerAnswer
<1>16. Answer(r, TRUE, 0) = Moved(yes) /\ Answer(r, FALSE, 0) = Moved(no)
  BY <1>12, <1>14, <1>15, AnswerMoves
<1>17. PICK a \in OwnerAnswer :
          /\ a.for = "write"
          /\ \/ owner' = [Moved(a) EXCEPT !.file[w.off] = w.source]
             \/ ~ a.ok /\ owner' = Moved(a)
  <2>1. yes.for = "write" /\ no.for = "write" /\ ~ no.ok
    BY <1>14, <1>15
  <2>2. \/ owner' = [Moved(yes) EXCEPT !.file[w.off] = w.source]
        \/ owner' = [Moved(no) EXCEPT !.file[w.off] = w.source]
        \/ owner' = Moved(no)
    BY <1>12, <1>13, <1>16 DEF OwnerWrite
  <2> QED BY <2>1, <2>2
<1>18. PICK q : q = Moved(a)
  OBVIOUS
<1>19. /\ q \in OwnerRecord /\ q.upload = owner.upload /\ q.file = owner.file
       /\ Len(q.mail) = m - 1
       /\ \A j \in 1 .. m - 1 : q.mail[j] = owner.mail[j + 1]
       /\ Len(q.answers) = n + 1
       /\ q.answers[n + 1] = a
       /\ \A j \in 1 .. n : q.answers[j] = owner.answers[j]
  <2>1. \A j \in 1 .. m - 1 : ~ (j < NextRequest)
    BY <1>9
  <2> QED BY <1>1, <1>2, <1>3, <1>18, <2>1, MovedIs
<1>20. w.off \in 0 .. Chunks - 1 /\ w.source \in 0 .. MaxSessions
  BY ConstantsAssumption DEF Write
<1>21. /\ owner' \in OwnerRecord /\ owner'.upload = q.upload
       /\ owner'.mail = q.mail /\ owner'.answers = q.answers
       /\ a.ok => owner'.file[w.off] = w.source
       /\ \A k \in 0 .. Chunks - 1 : k # w.off => owner'.file[k] = owner.file[k]
  <2>1. CASE owner' = q /\ ~ a.ok
    BY <1>19, <2>1
  <2>2. CASE owner' = [q EXCEPT !.file[w.off] = w.source]
    <3>1. PICK stored : stored = [q.file EXCEPT ![w.off] = w.source]
      OBVIOUS
    <3>2. q.file \in [0 .. Chunks - 1 -> 0 .. MaxSessions]
      BY <1>19 DEF OwnerRecord
    <3>3. stored \in [0 .. Chunks - 1 -> 0 .. MaxSessions] /\ stored[w.off] = w.source
          /\ \A k \in 0 .. Chunks - 1 : k # w.off => stored[k] = q.file[k]
      BY <1>20, <3>1, <3>2
    <3>4. owner' = [q EXCEPT !.file = stored]
      BY <2>2, <3>1
    <3>5. /\ owner' \in OwnerRecord /\ owner'.file = stored /\ owner'.upload = q.upload
          /\ owner'.mail = q.mail /\ owner'.answers = q.answers
      BY <1>19, <3>3, <3>4 DEF OwnerRecord
    <3> QED BY <1>19, <3>3, <3>5
  <2> QED BY <1>17, <1>18, <2>1, <2>2
<1>22. PICK p : p = owner'
  OBVIOUS
<1>23. ActivePhase(device, p)
  <2>1. p \in OwnerRecord /\ p.upload = owner.upload
    BY <1>19, <1>21, <1>22
  <2>2. w = device.outstanding[Len(owner.answers) + 1]
    BY <1>2, <1>8
  <2>3. /\ Len(p.mail) = Len(owner.mail) - 1
        /\ \A j \in 1 .. Len(owner.mail) - 1 : p.mail[j] = owner.mail[j + 1]
    BY <1>3, <1>19, <1>21, <1>22
  <2>4. /\ Len(p.answers) = Len(owner.answers) + 1
        /\ \A j \in 1 .. Len(owner.answers) : p.answers[j] = owner.answers[j]
        /\ p.answers[Len(owner.answers) + 1] = a
    BY <1>2, <1>19, <1>21, <1>22
  <2>5. /\ a.ok => p.file[w.off] = w.source
        /\ \A k \in 0 .. Chunks - 1 : k # w.off => p.file[k] = owner.file[k]
    BY <1>21, <1>22
  <2> QED BY <1>1, <1>17, <2>1, <2>2, <2>3, <2>4, <2>5, WriteAnswered
<1>24. shelf' = shelf
  BY <1>13 DEF OwnerWrite
<1> QED BY <1>1, <1>21, <1>22, <1>23, <1>24 DEF Good, Phase

(* A request of a stream that was aborted: the abort, or what it left.     *)
LEMMA StaleAnswered ==
    ASSUME NEW d \in DeviceRecord, NEW o \in OwnerRecord, NEW p \in OwnerRecord,
           AbortPhase(d, o), NEW k \in 1 .. Len(o.mail),
           o.mail[k].op # "abort" => k = 1 /\ \A i \in 1 .. Len(o.mail) : o.mail[i].op # "abort",
           Len(p.mail) = Len(o.mail) - 1,
           \A j \in 1 .. Len(o.mail) - 1 : p.mail[j] = IF j < k THEN o.mail[j] ELSE o.mail[j + 1],
           Len(p.answers) = Len(o.answers) + 1,
           \A j \in 1 .. Len(o.answers) : p.answers[j] = o.answers[j],
           p.answers[Len(o.answers) + 1].for = o.mail[k].for,
           o.mail[k].op = "write" => p.upload = o.upload,
           o.mail[k].op = "abort" =>
              p.upload \in {0, o.upload} /\ (p.answers[Len(o.answers) + 1].ok => p.upload = 0)
    PROVE  AbortPhase(d, p)
<1>1. PICK n \in Nat : n = Len(o.answers)
  BY DEF OwnerRecord
<1>2. PICK m \in Nat : m = Len(o.mail) /\ k <= m
  BY DEF OwnerRecord
<1>3. /\ \A i \in 1 .. m :
            IF o.mail[i].op = "abort"
            THEN i = m /\ o.mail[i].for = "abort" /\ d.controls # {}
            ELSE o.mail[i].op = "write" /\ o.mail[i].for = "write"
      /\ \A i \in 1 .. n :
            IF o.answers[i].for = "abort"
            THEN /\ d.controls # {}
                 /\ o.answers[i].ok => o.upload = 0
                 /\ \A j \in 1 .. n : o.answers[j].for = "abort" => i = j
                 /\ \A j \in 1 .. m : o.mail[j].op # "abort"
            ELSE o.answers[i].for = "write"
      /\ d.controls # {} =>
            \/ \E i \in 1 .. m : o.mail[i].op = "abort"
            \/ \E i \in 1 .. n : o.answers[i].for = "abort"
      /\ n + m = Len(d.outstanding) + (IF d.controls = {} THEN 0 ELSE 1)
  BY <1>1, <1>2 DEF AbortPhase, Stale
<1>4. /\ Len(p.mail) = m - 1
      /\ \A j \in 1 .. m - 1 : p.mail[j] = IF j < k THEN o.mail[j] ELSE o.mail[j + 1]
      /\ Len(p.answers) = n + 1 /\ \A j \in 1 .. n : p.answers[j] = o.answers[j]
      /\ p.answers[n + 1].for = o.mail[k].for
      /\ o.mail[k].op = "write" => p.upload = o.upload
      /\ o.mail[k].op = "abort" =>
            p.upload \in {0, o.upload} /\ (p.answers[n + 1].ok => p.upload = 0)
      /\ o.mail[k].op # "abort" => k = 1 /\ \A i \in 1 .. m : o.mail[i].op # "abort"
  BY <1>1, <1>2
<1>5. k \in 1 .. m
  BY <1>2
<1>6. (n + 1) + (m - 1) = Len(d.outstanding) + (IF d.controls = {} THEN 0 ELSE 1)
  <2>1. (n + 1) + (m - 1) = n + m
    OBVIOUS
  <2> QED BY <1>3, <2>1
<1>7. CASE o.mail[k].op = "abort"
  <2>1. k = m /\ o.mail[k].for = "abort" /\ d.controls # {}
    BY <1>3, <1>5, <1>7
  <2>2. \A i \in 1 .. n : o.answers[i].for = "write"
    BY <1>3, <1>5, <1>7
  <2>3. \A j \in 1 .. m - 1 : p.mail[j].op = "write" /\ p.mail[j].for = "write"
    <3>1. \A j \in 1 .. m - 1 : j \in 1 .. m /\ j # m /\ j < k
      BY <2>1
    <3>2. \A j \in 1 .. m - 1 : p.mail[j] = o.mail[j]
      BY <1>4, <3>1
    <3> QED BY <1>3, <3>1, <3>2
  <2>4. p.answers[n + 1].for = "abort" /\ (p.answers[n + 1].ok => p.upload = 0)
    BY <1>4, <1>7, <2>1
  <2>5. \A i \in 1 .. n + 1 : p.answers[i].for = "abort" => i = n + 1
    <3>1. \A i \in 1 .. n + 1 : i # n + 1 => i \in 1 .. n
      OBVIOUS
    <3> QED BY <1>4, <2>2, <3>1
  <2>6. \A i \in 1 .. n + 1 : i # n + 1 => p.answers[i].for = "write"
    <3>1. \A i \in 1 .. n + 1 : i # n + 1 => i \in 1 .. n
      OBVIOUS
    <3> QED BY <1>4, <2>2, <3>1
  <2>7. n + 1 \in 1 .. n + 1
    OBVIOUS
  <2>8. Stale(d, p)
    BY <1>4, <1>6, <2>1, <2>3, <2>4, <2>5, <2>6, <2>7 DEF Stale
  <2>9. d.held # {}
    BY <2>1 DEF AbortPhase
  <2> QED BY <2>8, <2>9 DEF AbortPhase
<1>8. CASE o.mail[k].op # "abort"
  <2>1. k = 1 /\ (\A i \in 1 .. m : o.mail[i].op # "abort") /\ o.mail[k].op = "write"
        /\ o.mail[k].for = "write" /\ p.upload = o.upload
    BY <1>3, <1>4, <1>5, <1>8
  <2>2. \A j \in 1 .. m - 1 : p.mail[j].op = "write" /\ p.mail[j].for = "write"
    <3> SUFFICES ASSUME NEW j \in 1 .. m - 1
                 PROVE  p.mail[j].op = "write" /\ p.mail[j].for = "write"
      OBVIOUS
    <3>1. j + 1 \in 1 .. m /\ ~ (j < 1)
      OBVIOUS
    <3>2. p.mail[j] = o.mail[j + 1]
      BY <1>4, <2>1, <3>1
    <3>3. o.mail[j + 1].op # "abort"
      BY <2>1, <3>1
    <3>4. o.mail[j + 1].op = "write" /\ o.mail[j + 1].for = "write"
      BY <1>3, <3>1, <3>3
    <3> QED BY <3>2, <3>4
  <2>3. p.answers[n + 1].for = "write"
    BY <1>4, <2>1
  <2>4. \A i \in 1 .. n + 1 : i # n + 1 => i \in 1 .. n /\ p.answers[i] = o.answers[i]
    <3>1. \A i \in 1 .. n + 1 : i # n + 1 => i \in 1 .. n
      OBVIOUS
    <3> QED BY <1>4, <3>1
  <2>5. ASSUME NEW i \in 1 .. n + 1
        PROVE  IF p.answers[i].for = "abort"
               THEN /\ d.controls # {}
                    /\ p.answers[i].ok => p.upload = 0
                    /\ \A j \in 1 .. n + 1 : p.answers[j].for = "abort" => i = j
               ELSE p.answers[i].for = "write"
    <3>1. CASE i = n + 1
      BY <2>3, <3>1
    <3>2. CASE i # n + 1
      <4>1. i \in 1 .. n /\ p.answers[i] = o.answers[i]
        BY <2>4, <3>2
      <4>2. \A j \in 1 .. n + 1 : p.answers[j].for = "abort" =>
                                   j \in 1 .. n /\ o.answers[j].for = "abort"
        BY <2>3, <2>4
      <4> QED BY <1>3, <2>1, <4>1, <4>2
    <3> QED BY <3>1, <3>2
  <2>6. d.controls # {} => \E i \in 1 .. n + 1 : p.answers[i].for = "abort"
    <3>1. \A i \in 1 .. n : i \in 1 .. n + 1
      OBVIOUS
    <3> QED BY <1>3, <1>4, <2>1, <3>1
  <2>7. Stale(d, p)
    BY <1>4, <1>6, <2>2, <2>5, <2>6 DEF Stale
  <2> QED BY <2>1, <2>7 DEF AbortPhase
<1> QED BY <1>7, <1>8

(* The owner and an aborted stream: the abort overtakes the writes.        *)
LEMMA OwnerStaleGood ==
    ASSUME Good(device, owner), OwnerStep, AbortPhase(device, owner)
    PROVE  Good(device, owner') /\ shelf' = shelf
<1>1. /\ owner \in OwnerRecord /\ owner.mail # <<>> /\ UNCHANGED <<host, device, changed>>
      /\ device \in DeviceRecord /\ Known(device)
  BY DEF Good, Known, OwnerStep
<1>2. PICK k \in 1 .. Len(owner.mail) :
         /\ k = NextRequest
         /\ owner.mail[k].op # "abort" =>
               k = 1 /\ \A i \in 1 .. Len(owner.mail) : owner.mail[i].op # "abort"
  BY <1>1, NextRequestIs
<1>3. PICK r \in OwnerRequest : r = owner.mail[k]
  BY <1>1 DEF OwnerRecord
<1>4. IF r.op = "abort" THEN r.for = "abort" ELSE r.op = "write" /\ r.for = "write"
  BY <1>3 DEF AbortPhase, Stale
<1>5. r.source \in 0 .. MaxSessions
  BY DEF OwnerRequest
<1>6. PICK yes \in OwnerAnswer : yes = [for |-> r.for, ok |-> TRUE, id |-> 0]
  BY <1>4 DEF OwnerAnswer
<1>7. PICK no \in OwnerAnswer : no = [for |-> r.for, ok |-> FALSE, id |-> 0]
  BY <1>4 DEF OwnerAnswer
<1>8. Answer(r, TRUE, 0) = Moved(yes) /\ Answer(r, FALSE, 0) = Moved(no)
  BY <1>6, <1>7, AnswerMoves
<1>9. NoFile \in [0 .. Chunks - 1 -> 0 .. MaxSessions]
  BY ConstantsAssumption DEF NoFile
<1>10. ASSUME NEW a \in OwnerAnswer
       PROVE  /\ Moved(a) \in OwnerRecord /\ Moved(a).upload = owner.upload
              /\ Len(Moved(a).mail) = Len(owner.mail) - 1
              /\ \A j \in 1 .. Len(owner.mail) - 1 :
                    Moved(a).mail[j] = IF j < k THEN owner.mail[j] ELSE owner.mail[j + 1]
              /\ Len(Moved(a).answers) = Len(owner.answers) + 1
              /\ Moved(a).answers[Len(owner.answers) + 1] = a
              /\ \A j \in 1 .. Len(owner.answers) : Moved(a).answers[j] = owner.answers[j]
  BY <1>1, <1>2, MovedIs
<1>11. PICK a \in OwnerAnswer, q \in OwnerRecord :
          /\ q = Moved(a) /\ a.for = r.for
          /\ owner' \in OwnerRecord /\ owner'.mail = q.mail /\ owner'.answers = q.answers
          /\ r.op = "write" => owner'.upload = owner.upload
          /\ r.op = "abort" => owner'.upload \in {0, owner.upload} /\ (a.ok => owner'.upload = 0)
  <2>1. CASE r.op = "abort"
    <3>1. OwnerAbort(r)
      BY <1>2, <1>3, <2>1 DEF OwnerStep, OwnerBegin, OwnerWrite, OwnerCommit, OwnerAbort
    <3>2. owner' = [Moved(yes) EXCEPT !.upload = 0, !.file = NoFile] \/ owner' = Moved(no)
      BY <1>8, <3>1 DEF OwnerAbort
    <3>3. CASE owner' = Moved(no)
      BY <1>7, <1>10, <2>1, <3>3
    <3>4. CASE owner' = [Moved(yes) EXCEPT !.upload = 0, !.file = NoFile]
      <4>1. PICK q \in OwnerRecord : q = Moved(yes)
        BY <1>10
      <4>2. /\ owner' \in OwnerRecord /\ owner'.mail = q.mail /\ owner'.answers = q.answers
            /\ owner'.upload = 0
        BY <1>9, <3>4, <4>1 DEF OwnerRecord
      <4> QED BY <1>6, <2>1, <4>1, <4>2
    <3> QED BY <3>2, <3>3, <3>4
  <2>2. CASE r.op = "write"
    <3>1. OwnerWrite(r)
      BY <1>2, <1>3, <2>2 DEF OwnerStep, OwnerBegin, OwnerWrite, OwnerCommit, OwnerAbort
    <3>2. \/ owner' = Moved(no)
          \/ \E a \in {yes, no} : owner' = [Moved(a) EXCEPT !.file[r.off] = r.source]
      BY <1>8, <3>1 DEF OwnerWrite
    <3>3. CASE owner' = Moved(no)
      BY <1>7, <1>10, <2>2, <3>3
    <3>4. ASSUME NEW a \in {yes, no}, owner' = [Moved(a) EXCEPT !.file[r.off] = r.source]
          PROVE  \E q \in OwnerRecord :
                    /\ q = Moved(a) /\ owner' \in OwnerRecord /\ owner'.mail = q.mail
                    /\ owner'.answers = q.answers /\ owner'.upload = owner.upload
      <4>1. PICK q \in OwnerRecord : q = Moved(a) /\ q.upload = owner.upload
        BY <1>10
      <4>2. PICK file : file = [q.file EXCEPT ![r.off] = r.source]
        OBVIOUS
      <4>3. file \in [0 .. Chunks - 1 -> 0 .. MaxSessions]
        <5>1. q.file \in [0 .. Chunks - 1 -> 0 .. MaxSessions]
          BY DEF OwnerRecord
        <5> QED BY <1>5, <4>2, <5>1
      <4>4. owner' = [q EXCEPT !.file = file]
        BY <3>4, <4>1, <4>2
      <4>5. /\ owner' \in OwnerRecord /\ owner'.mail = q.mail /\ owner'.answers = q.answers
            /\ owner'.upload = q.upload
        BY <4>3, <4>4 DEF OwnerRecord
      <4> QED BY <4>1, <4>5
    <3>5. yes.for = r.for /\ no.for = r.for
      BY <1>6, <1>7
    <3>6. CASE \E a \in {yes, no} : owner' = [Moved(a) EXCEPT !.file[r.off] = r.source]
      <4>1. PICK a \in {yes, no} : owner' = [Moved(a) EXCEPT !.file[r.off] = r.source]
        BY <3>6
      <4>2. a \in OwnerAnswer /\ a.for = r.for
        BY <3>5
      <4> QED BY <2>2, <3>4, <4>1, <4>2
    <3> QED BY <3>2, <3>3, <3>6
  <2> QED BY <1>4, <2>1, <2>2
<1>12. PICK p \in OwnerRecord : p = owner'
  BY <1>11
<1>13. AbortPhase(device, p)
  <2>0. p.mail = Moved(a).mail /\ p.answers = Moved(a).answers
    BY <1>11, <1>12
  <2>1. /\ Len(p.mail) = Len(owner.mail) - 1
        /\ \A j \in 1 .. Len(owner.mail) - 1 :
              p.mail[j] = IF j < k THEN owner.mail[j] ELSE owner.mail[j + 1]
        /\ Len(p.answers) = Len(owner.answers) + 1
        /\ \A j \in 1 .. Len(owner.answers) : p.answers[j] = owner.answers[j]
        /\ p.answers[Len(owner.answers) + 1] = a
    BY <1>10, <2>0
  <2>2. p.answers[Len(owner.answers) + 1].for = owner.mail[k].for
    BY <1>3, <1>11, <2>1
  <2>3. owner.mail[k].op = "write" => p.upload = owner.upload
    BY <1>3, <1>11, <1>12
  <2>4. owner.mail[k].op = "abort" =>
              p.upload \in {0, owner.upload} /\ (p.answers[Len(owner.answers) + 1].ok => p.upload = 0)
    BY <1>3, <1>11, <1>12, <2>1
  <2> QED BY <1>1, <1>2, <2>1, <2>2, <2>3, <2>4, StaleAnswered
<1>14. shelf' = shelf
  BY <1>2, <1>3, <1>4 DEF OwnerStep, OwnerBegin, OwnerWrite, OwnerCommit, OwnerAbort
<1> QED BY <1>1, <1>12, <1>13, <1>14 DEF Good, Phase

(* Every step of the owner.                                                *)
LEMMA OwnerStepGood ==
    ASSUME Good(device, owner), ShelfInv, OwnerStep
    PROVE  Good(device, owner') /\ ShelfInv' /\ UNCHANGED <<host, wires, device, changed>>
<1>1. UNCHANGED <<host, wires, device, changed>> /\ owner.mail # <<>>
  BY DEF OwnerStep
<1>2. shelf' = shelf => ShelfInv'
  BY <1>1 DEF ShelfInv
<1>3. ~ IdlePhase(device, owner)
  BY <1>1 DEF IdlePhase
<1> QED BY <1>1, <1>2, <1>3, OwnerControlGood, OwnerWriteGood, OwnerStaleGood DEF Good, Phase

(***************************************************************************)
(* The device: what its handlers promise.                                  *)
(***************************************************************************)
Extended(o, requests) == [o EXCEPT !.mail = @ \o requests]

\* A result leaves the device and the owner, with the requests, in a phase.
Sound(result, o) ==
    Good(result.device, Extended(o, result.requests)) /\ result.frames \in Seq(FrameType)

LEMMA NothingAdded ==
    ASSUME NEW o \in OwnerRecord
    PROVE  Extended(o, <<>>) = o
<1>1. o.mail \o <<>> = o.mail
  BY ConcatEmptySeq DEF OwnerRecord
<1> QED BY <1>1 DEF Extended, OwnerRecord

LEMMA OneAdded ==
    ASSUME NEW o \in OwnerRecord, NEW q \in OwnerRequest
    PROVE  /\ Extended(o, <<q>>) \in OwnerRecord
           /\ Extended(o, <<q>>).answers = o.answers /\ Extended(o, <<q>>).upload = o.upload
           /\ Extended(o, <<q>>).file = o.file
           /\ Len(Extended(o, <<q>>).mail) = Len(o.mail) + 1
           /\ Extended(o, <<q>>).mail[Len(o.mail) + 1] = q
           /\ \A j \in 1 .. Len(o.mail) : Extended(o, <<q>>).mail[j] = o.mail[j]
           /\ o.mail = <<>> => Extended(o, <<q>>).mail = <<q>>
<1>1. PICK mail : mail = o.mail \o <<q>>
  OBVIOUS
<1>2. o.mail \in Seq(OwnerRequest) /\ <<q>> \in Seq(OwnerRequest) /\ Len(<<q>>) = 1 /\ <<q>>[1] = q
  BY DEF OwnerRecord
<1>3. PICK m \in Nat : m = Len(o.mail)
  BY <1>2
<1>4. /\ mail \in Seq(OwnerRequest) /\ Len(mail) = m + 1
      /\ \A i \in 1 .. m + 1 : mail[i] = IF i <= m THEN o.mail[i] ELSE <<q>>[i - m]
  BY <1>1, <1>2, <1>3, ConcatType
<1>5. mail[m + 1] = q
  <2>1. m + 1 \in 1 .. m + 1 /\ ~ (m + 1 <= m) /\ (m + 1) - m = 1
    OBVIOUS
  <2> QED BY <1>2, <1>4, <2>1
<1>6. \A j \in 1 .. m : mail[j] = o.mail[j]
  <2>1. \A j \in 1 .. m : j \in 1 .. m + 1 /\ j <= m
    OBVIOUS
  <2> QED BY <1>4, <2>1
<1>7. o.mail = <<>> => mail = <<q>>
  BY <1>1, <1>2, ConcatEmptySeq
<1>8. Extended(o, <<q>>) = [o EXCEPT !.mail = mail]
  BY <1>1 DEF Extended
<1>9. /\ Extended(o, <<q>>) \in OwnerRecord /\ Extended(o, <<q>>).mail = mail
      /\ Extended(o, <<q>>).answers = o.answers /\ Extended(o, <<q>>).upload = o.upload
      /\ Extended(o, <<q>>).file = o.file
  BY <1>4, <1>8 DEF OwnerRecord
<1> QED BY <1>3, <1>4, <1>5, <1>6, <1>7, <1>9

LEMMA FramesTyped ==
    ASSUME NEW d \in DeviceRecord, NEW op \in Ops \cup {"credit"}, NEW seq \in Nat
    PROVE  /\ BadRequest(op, seq) \in FrameType /\ Reply(op, seq, d) \in FrameType
           /\ <<>> \in Seq(FrameType)
<1>1. d.id \in Nat /\ d.durable \in Nat /\ Window \in Nat
  BY ConstantsAssumption DEF DeviceRecord
<1> QED BY <1>1 DEF BadRequest, Reply, Frame, FrameType

\* The phases do not depend on what waits or is to be answered.
LEMMA AlikeGood ==
    ASSUME NEW d, NEW o, NEW e \in DeviceRecord, Good(d, o),
           e.mode = d.mode, e.source = d.source, e.active = d.active, e.id = d.id,
           e.admitted = d.admitted, e.durable = d.durable, e.credits = d.credits,
           e.owed = d.owed, e.occupied = d.occupied, e.intact = d.intact, e.gen = d.gen,
           e.tombstone = d.tombstone, e.outstanding = d.outstanding,
           e.publishes = d.publishes, e.held = d.held, e.controls = d.controls
    PROVE  Good(e, o)
<1>1. Known(e) /\ o \in OwnerRecord
  BY DEF Good, Known
<1>2. CASE IdlePhase(d, o)
  BY <1>1, <1>2 DEF Good, Phase, IdlePhase
<1>3. CASE OpenPhase(d, o)
  BY <1>1, <1>3 DEF Good, Phase, OpenPhase
<1>4. CASE ActivePhase(d, o)
  <2>1. Writes(e, o)
    BY <1>4 DEF ActivePhase, Writes
  <2>2. ActivePhase(e, o)
    BY <1>4, <2>1 DEF ActivePhase
  <2> QED BY <1>1, <2>2 DEF Good, Phase
<1>5. CASE FinishPhase(d, o)
  BY <1>1, <1>5 DEF Good, Phase, FinishPhase
<1>6. CASE AbortPhase(d, o)
  BY <1>1, <1>6 DEF Good, Phase, AbortPhase, Stale
<1> QED BY <1>2, <1>3, <1>4, <1>5, <1>6 DEF Good, Phase

LEMMA AnswerOnly ==
    ASSUME NEW d, NEW o, Good(d, o), NEW frames \in Seq(FrameType)
    PROVE  Sound(Result(d, frames, <<>>), o)
<1>1. Extended(o, <<>>) = o
  BY NothingAdded DEF Good
<1> QED BY <1>1 DEF Sound, Result

LEMMA Refuses ==
    ASSUME NEW d, NEW o, Good(d, o), NEW op \in Ops, NEW seq \in Nat
    PROVE  Sound(Result(d, <<BadRequest(op, seq)>>, <<>>), o)
<1>1. BadRequest(op, seq) \in FrameType
  BY FramesTyped DEF Good, Known
<1>2. <<BadRequest(op, seq)>> \in Seq(FrameType)
  BY <1>1
<1> QED BY <1>2, AnswerOnly

(***************************************************************************)
(* The commands of the host.                                               *)
(***************************************************************************)
Heard(f) ==
    f \in Sent /\ f.source <= host.session /\ (f.op = "data" => f.off < Chunks)

LEMMA OpenGood ==
    ASSUME NEW d, NEW o, Good(d, o), NEW f, Heard(f), f.op = "open"
    PROVE  Sound(Open(d, f), o)
<1>1. d \in DeviceRecord /\ o \in OwnerRecord /\ f \in Sent
  BY DEF Good, Known, Heard
<1>2. f.seq \in Nat /\ f.source \in 1 .. MaxSessions /\ "open" \in Ops
      /\ (host.session \in Int => f.source \in 1 .. host.session)
  BY <1>1 DEF Sent, Heard, Ops
<1>3. CASE d.mode # "idle"
  BY <1>2, <1>3, Refuses DEF Open
<1>4. CASE d.mode = "idle"
  <2>1. PICK e : e = [Opening(f.source, f.seq) EXCEPT !.deferred = d.deferred, !.armed = d.armed]
    OBVIOUS
  <2>2. PICK q : q = Request("begin", "open", 0, 0, f.source)
    OBVIOUS
  <2>3. Open(d, f) = Result(e, <<>>, <<q>>)
    BY <1>4, <2>1, <2>2 DEF Open
  <2>4. q \in OwnerRequest
    BY <1>2, <2>2 DEF Request, OwnerRequest
  <2>5. /\ e.mode = "upload" /\ e.source = f.source /\ ~ e.active /\ e.held = {"open"}
        /\ e.outstanding = <<>> /\ e.tombstone = 0 /\ e.admitted = 0 /\ e.durable = 0
        /\ e.owed = 0 /\ e.occupied = 0 /\ e.controls = {"open"}
    BY <2>1 DEF Opening
  <2>6. e \in DeviceRecord
    <3>1. <<>> \in Seq(Write)
      OBVIOUS
    <3>2. d.deferred \in [op : {"none", "status", "finish"}, seq : Nat, id : Nat] /\ d.armed \in BOOLEAN
      BY <1>1 DEF DeviceRecord
    <3>3. {"open"} \in SUBSET {"open", "finish", "abort"}
          /\ [open |-> f.seq, finish |-> 0, abort |-> 0] \in [open : Nat, finish : Nat, abort : Nat]
          /\ f.source \in 0 .. MaxSessions
      BY <1>2
    <3> QED BY <2>1, <3>1, <3>2, <3>3 DEF Opening, DeviceRecord
  <2>7. o.mail = <<>> /\ o.answers = <<>> /\ o.upload = 0
    BY <1>4 DEF Good, Phase, IdlePhase, OpenPhase, ActivePhase, FinishPhase, AbortPhase
  <2>8. PICK p \in OwnerRecord : /\ p = Extended(o, <<q>>) /\ p.mail = <<q>>
                                 /\ p.answers = <<>> /\ p.upload = 0
    BY <1>1, <2>4, <2>7, OneAdded
  <2>9. OpenPhase(e, p)
    BY <2>2, <2>5, <2>8 DEF OpenPhase
  <2>10. Good(e, p)
    <3>1. f.source \in 1 .. host.session
      BY <1>2 DEF Heard, HostSide
    <3> QED BY <2>5, <2>6, <2>9, <3>1 DEF Good, Known, Phase
  <2>11. <<>> \in Seq(FrameType)
    OBVIOUS
  <2> QED BY <2>3, <2>8, <2>10, <2>11 DEF Sound, Result
<1> QED BY <1>3, <1>4

LEMMA DeferGood ==
    ASSUME NEW d, NEW o, Good(d, o), NEW f, Heard(f), f.op \in {"status", "finish"}
    PROVE  Sound(Defer(d, f), o)
<1>1. d \in DeviceRecord /\ f \in Sent /\ f.seq \in Nat /\ f.id \in Nat /\ f.op \in Ops
  BY DEF Good, Known, Heard, Sent, Ops
<1>2. CASE d.deferred # NoRequest
  BY <1>1, <1>2, Refuses DEF Defer
<1>3. CASE d.deferred = NoRequest
  <2>1. PICK e : e = [d EXCEPT !.deferred = [op |-> f.op, seq |-> f.seq, id |-> f.id]]
    OBVIOUS
  <2>2. Defer(d, f) = Result(e, <<>>, <<>>)
    BY <1>3, <2>1 DEF Defer
  <2>3. [op |-> f.op, seq |-> f.seq, id |-> f.id]
            \in [op : {"none", "status", "finish"}, seq : Nat, id : Nat]
    BY <1>1
  <2>4. e \in DeviceRecord
    BY <1>1, <2>1, <2>3 DEF DeviceRecord
  <2>5. Good(e, o)
    <3>1. /\ e.mode = d.mode /\ e.source = d.source /\ e.active = d.active /\ e.id = d.id
          /\ e.admitted = d.admitted /\ e.durable = d.durable /\ e.credits = d.credits
          /\ e.owed = d.owed /\ e.occupied = d.occupied /\ e.intact = d.intact /\ e.gen = d.gen
          /\ e.tombstone = d.tombstone /\ e.outstanding = d.outstanding
          /\ e.publishes = d.publishes /\ e.held = d.held /\ e.controls = d.controls
      BY <1>1, <2>1 DEF DeviceRecord
    <3> QED BY <2>4, <3>1, AlikeGood
  <2>6. <<>> \in Seq(FrameType)
    OBVIOUS
  <2> QED BY <2>2, <2>5, <2>6, AnswerOnly
<1> QED BY <1>2, <1>3

LEMMA StatusGood ==
    ASSUME NEW d, NEW o, Good(d, o), NEW seq \in Nat, NEW id \in Nat
    PROVE  Sound(Status(d, seq, id), o)
<1>1. d \in DeviceRecord /\ "status" \in Ops /\ Window \in Nat
  BY ConstantsAssumption DEF Good, Known, Ops
<1>2. CASE ~ (d.mode = "upload" /\ d.active /\ id = d.id /\ d.occupied = 0)
  BY <1>1, <1>2, Refuses DEF Status
<1>3. CASE d.mode = "upload" /\ d.active /\ id = d.id /\ d.occupied = 0
  <2>1. PICK e : e = [d EXCEPT !.owed = 0, !.credits = Window]
    OBVIOUS
  <2>2. Status(d, seq, id) = Result(e, <<Reply("status", seq, d)>>, <<>>)
    BY <1>3, <2>1 DEF Status
  <2>3. e \in DeviceRecord
    BY <1>1, <2>1 DEF DeviceRecord
  <2>4. /\ e.mode = d.mode /\ e.source = d.source /\ e.active = d.active /\ e.id = d.id
        /\ e.admitted = d.admitted /\ e.durable = d.durable /\ e.credits = Window
        /\ e.owed = 0 /\ e.occupied = d.occupied /\ e.intact = d.intact /\ e.gen = d.gen
        /\ e.outstanding = d.outstanding /\ e.held = d.held /\ e.controls = d.controls
    BY <1>1, <2>1 DEF DeviceRecord
  <2>5. ActivePhase(d, o)
    BY <1>3 DEF Good, Phase, IdlePhase, OpenPhase, FinishPhase, AbortPhase
  <2>6. Writes(e, o)
    BY <2>4, <2>5 DEF ActivePhase, Writes
  <2>7. e.credits + e.owed + e.occupied = Window
    BY <1>1, <1>3, <2>4
  <2>8. ActivePhase(e, o)
    BY <2>4, <2>5, <2>6, <2>7 DEF ActivePhase
  <2>9. Good(e, o)
    BY <2>3, <2>4, <2>8 DEF Good, Known, Phase
  <2>10. Reply("status", seq, d) \in FrameType
    BY <1>1, FramesTyped
  <2>11. <<Reply("status", seq, d)>> \in Seq(FrameType)
    BY <2>10
  <2> QED BY <2>2, <2>9, <2>11, AnswerOnly
<1> QED BY <1>2, <1>3

LEMMA CreditTaken ==
    ASSUME NEW a \in Int, NEW b \in Int, NEW c \in Int
    PROVE  (a - 1) + b + (c + 1) = a + b + c
OBVIOUS

LEMMA BothShifted ==
    ASSUME NEW a \in Int, NEW b \in Int, NEW i \in Int
    PROVE  (a + 1) - (b + 1) + i - 1 = a - b + i - 1
OBVIOUS

(* A chunk that is admitted is written by the request that was added.      *)
LEMMA AdmitGood ==
    ASSUME NEW d, NEW o, Good(d, o), NEW f, Heard(f), f.op = "data"
    PROVE  Sound(Admit(d, f), o)
<1>1. d \in DeviceRecord /\ o \in OwnerRecord /\ f \in Sent /\ f.off < Chunks
      /\ f.off \in Nat /\ f.source \in 1 .. MaxSessions /\ "data" \in Ops /\ 0 \in Nat
  BY DEF Good, Known, Heard, Sent, Ops
<1>2. CASE ~ Admissible(d, f)
  BY <1>1, <1>2, Refuses DEF Admit
<1>3. CASE Admissible(d, f)
  <2>1. d.active /\ f.off = d.admitted /\ d.credits > 0
    BY <1>3 DEF Admissible
  <2>2. ActivePhase(d, o)
    BY <2>1 DEF Good, Phase, IdlePhase, OpenPhase, FinishPhase, AbortPhase
  <2>3. PICK w \in Write : w = [off |-> f.off, gen |-> d.gen, source |-> f.source]
    <3>1. f.off \in 0 .. Chunks - 1 /\ d.gen \in {1}
      BY <1>1, <2>2, ConstantsAssumption DEF ActivePhase
    <3> QED BY <1>1, <3>1 DEF Write
  <2>4. PICK outstanding \in Seq(Write) : outstanding = Append(d.outstanding, w)
    <3>1. d.outstanding \in Seq(Write)
      BY <1>1 DEF DeviceRecord
    <3>2. Append(d.outstanding, w) \in Seq(Write)
      BY <3>1
    <3> QED BY <3>2
  <2>5. PICK q \in OwnerRequest : q = Request("write", "write", d.id, f.off, f.source)
    <3>1. d.id \in Nat
      BY <1>1 DEF DeviceRecord
    <3>2. f.source \in 0 .. MaxSessions
      BY <1>1, ConstantsAssumption
    <3> QED BY <1>1, <3>1, <3>2 DEF OwnerRequest, Request
  <2>6. PICK e : e = [d EXCEPT !.credits = @ - 1, !.admitted = f.off + 1, !.occupied = @ + 1,
                               !.outstanding = outstanding]
    OBVIOUS
  <2>7. Admit(d, f) = Result(e, <<>>, <<q>>)
    BY <1>3, <2>3, <2>4, <2>5, <2>6 DEF Admit
  <2>8. d.credits - 1 \in Nat /\ f.off + 1 \in Nat /\ d.occupied + 1 \in Nat
        /\ d.credits \in Nat /\ d.occupied \in Nat /\ d.owed \in Nat
    <3>1. d.credits \in Nat /\ d.occupied \in Nat /\ d.owed \in Nat
      BY <1>1 DEF DeviceRecord
    <3>2. PICK off \in Nat : off = f.off
      BY <1>1
    <3>3. PICK credits \in Nat : credits = d.credits
      BY <3>1
    <3>4. PICK occupied \in Nat : occupied = d.occupied
      BY <3>1
    <3>5. credits > 0
      BY <2>1, <3>3
    <3>6. credits - 1 \in Nat /\ off + 1 \in Nat /\ occupied + 1 \in Nat
      BY <3>5
    <3> QED BY <3>1, <3>2, <3>3, <3>4, <3>6
  <2>9. /\ e \in DeviceRecord
        /\ e.mode = d.mode /\ e.source = d.source /\ e.active = d.active /\ e.id = d.id
        /\ e.admitted = f.off + 1 /\ e.durable = d.durable /\ e.credits = d.credits - 1
        /\ e.owed = d.owed /\ e.occupied = d.occupied + 1 /\ e.intact = d.intact
        /\ e.gen = d.gen /\ e.outstanding = outstanding /\ e.held = d.held
        /\ e.controls = d.controls
    BY <1>1, <2>6, <2>8 DEF DeviceRecord
  <2>10. PICK p \in OwnerRecord :
            /\ p = Extended(o, <<q>>) /\ p.answers = o.answers /\ p.upload = o.upload
            /\ p.file = o.file
            /\ Len(p.mail) = Len(o.mail) + 1 /\ p.mail[Len(o.mail) + 1] = q
            /\ \A j \in 1 .. Len(o.mail) : p.mail[j] = o.mail[j]
    BY <1>1, OneAdded
  <2>11. PICK n \in Nat : n = Len(o.answers)
    BY <1>1 DEF OwnerRecord
  <2>12. PICK m \in Nat : m = Len(o.mail)
    BY <1>1 DEF OwnerRecord
  <2>13. PICK waited \in Nat : waited = Len(d.outstanding)
    BY <1>1 DEF DeviceRecord
  <2>14. PICK durable \in Nat : durable = d.durable
    BY <1>1 DEF DeviceRecord
  <2>15. /\ durable + waited <= f.off /\ f.off <= Chunks
         /\ \A i \in 1 .. waited : d.outstanding[i].off = f.off - waited + i - 1
         /\ n + m = waited
         /\ \A i \in 1 .. m :
               o.mail[i] = Request("write", "write", d.id, d.outstanding[n + i].off,
                                   d.outstanding[n + i].source)
         /\ \A i \in 1 .. n :
               /\ o.answers[i].for = "write"
               /\ o.answers[i].ok => o.file[d.outstanding[i].off] = d.outstanding[i].source
    BY <2>1, <2>2, <2>11, <2>12, <2>13, <2>14 DEF ActivePhase, Writes, WritesOf
  <2>16. /\ Len(outstanding) = waited + 1 /\ outstanding[waited + 1] = w
         /\ \A i \in 1 .. waited : outstanding[i] = d.outstanding[i]
    BY <1>1, <2>4, <2>13 DEF DeviceRecord
  <2>17. ASSUME NEW i \in 1 .. waited + 1
         PROVE  outstanding[i].off = (f.off + 1) - (waited + 1) + i - 1
    <3>1. CASE i = waited + 1
      <4>1. w.off = f.off
        BY <2>3
      <4>2. (f.off + 1) - (waited + 1) + (waited + 1) - 1 = f.off
        BY <1>1
      <4> QED BY <2>16, <3>1, <4>1, <4>2
    <3>2. CASE i # waited + 1
      <4>1. i \in 1 .. waited
        BY <3>2
      <4>2. f.off - waited + i - 1 = (f.off + 1) - (waited + 1) + i - 1
        BY <1>1, BothShifted
      <4> QED BY <2>15, <2>16, <4>1, <4>2
    <3> QED BY <3>1, <3>2
  <2>18. ASSUME NEW i \in 1 .. m + 1
         PROVE  p.mail[i] = Request("write", "write", e.id, outstanding[n + i].off,
                                    outstanding[n + i].source)
    <3>1. CASE i = m + 1
      <4>1. n + i = waited + 1
        BY <2>15, <3>1
      <4>2. w.off = f.off /\ w.source = f.source
        BY <2>3
      <4> QED BY <2>5, <2>9, <2>10, <2>12, <2>16, <3>1, <4>1, <4>2
    <3>2. CASE i # m + 1
      <4>1. i \in 1 .. m /\ n + i \in 1 .. waited
        BY <2>15, <3>2
      <4> QED BY <2>9, <2>10, <2>12, <2>15, <2>16, <4>1
    <3> QED BY <3>1, <3>2
  <2>19. \A i \in 1 .. n :
            /\ p.answers[i].for = "write"
            /\ p.answers[i].ok => p.file[outstanding[i].off] = outstanding[i].source
    <3>1. \A i \in 1 .. n : i \in 1 .. waited
      BY <2>15
    <3> QED BY <2>10, <2>15, <2>16, <3>1
  <2>20. durable + (waited + 1) <= f.off + 1 /\ f.off + 1 <= Chunks /\ n + (m + 1) = waited + 1
    BY <1>1, <2>15, ConstantsAssumption
  <2>21. Writes(e, p)
    <3>1. Len(p.answers) = n /\ Len(p.mail) = m + 1
      BY <2>10, <2>11, <2>12
    <3> QED BY <2>9, <2>14, <2>16, <2>17, <2>18, <2>19, <2>20, <3>1 DEF Writes, WritesOf
  <2>22. e.credits + e.owed + e.occupied = Window /\ Len(e.outstanding) <= e.occupied
    <3>1. d.credits + d.owed + d.occupied = Window /\ waited <= d.occupied
      BY <2>2, <2>13 DEF ActivePhase
    <3>2. e.outstanding = outstanding /\ Len(outstanding) = waited + 1
      BY <2>9, <2>16
    <3>3. (d.credits - 1) + d.owed + (d.occupied + 1) = d.credits + d.owed + d.occupied
      <4>1. d.credits \in Int /\ d.owed \in Int /\ d.occupied \in Int
        BY <2>8
      <4> QED BY ONLY <4>1, CreditTaken, Zenon
    <3>4. waited + 1 <= d.occupied + 1
      BY <2>8, <3>1
    <3> QED BY <2>9, <3>1, <3>2, <3>3, <3>4
  <2>23. ActivePhase(e, p)
    BY <2>2, <2>9, <2>10, <2>21, <2>22 DEF ActivePhase
  <2>24. Good(e, p)
    BY <2>9, <2>23 DEF Good, Known, Phase
  <2>25. <<>> \in Seq(FrameType)
    OBVIOUS
  <2> QED BY <2>7, <2>10, <2>24, <2>25 DEF Sound, Result
<1> QED BY <1>2, <1>3

(* A file that is committed is all there, and all of one session.          *)
LEMMA FinishGood ==
    ASSUME NEW d, NEW o, Good(d, o), NEW seq \in Nat, NEW id \in Nat
    PROVE  Sound(Finish(d, seq, id), o)
<1>1. d \in DeviceRecord /\ o \in OwnerRecord /\ "finish" \in Ops /\ Chunks \in Nat
  BY ConstantsAssumption DEF Good, Known, Ops
<1>2. CASE ~ Finishable(d, id)
  BY <1>1, <1>2, Refuses DEF Finish
<1>3. CASE Finishable(d, id)
  <2>1. d.active /\ d.outstanding = <<>> /\ d.durable = Chunks /\ d.mode = "upload"
    BY <1>3 DEF Finishable
  <2>2. ActivePhase(d, o)
    BY <2>1 DEF Good, Phase, IdlePhase, OpenPhase, FinishPhase, AbortPhase
  <2>3. PICK same \in BOOLEAN : same = (d.intact /\ d.source \notin changed)
    OBVIOUS
  <2>4. PICK e : e = [d EXCEPT !.active = FALSE, !.publishes = same,
                               !.held = @ \cup {"finish"}, !.controls = @ \cup {"finish"},
                               !.replies.finish = seq]
    OBVIOUS
  <2>5. PICK q : q = Request(IF same THEN "commit" ELSE "abort", "finish", d.id, 0, d.source)
    OBVIOUS
  <2>6. Finish(d, seq, id) = Result(e, <<>>, <<q>>)
    BY <1>3, <2>3, <2>4, <2>5 DEF Finish
  <2>7. q \in OwnerRequest
    BY <1>1, <2>5 DEF DeviceRecord, OwnerRequest, Request
  <2>8. /\ e \in DeviceRecord
        /\ e.mode = "upload" /\ e.source = d.source /\ e.active = FALSE /\ e.id = d.id
        /\ e.outstanding = <<>> /\ e.publishes = same
        /\ e.held = {"finish"} /\ e.controls = {"finish"}
    <3>1. d.held = {} /\ d.controls = {}
      BY <2>2 DEF ActivePhase
    <3>2. [d.replies EXCEPT !.finish = seq] \in [open : Nat, finish : Nat, abort : Nat]
      BY <1>1 DEF DeviceRecord
    <3>3. {} \cup {"finish"} = {"finish"} /\ FALSE \in BOOLEAN
          /\ {"finish"} \in SUBSET {"open", "finish", "abort"}
      OBVIOUS
    <3>4. e = [d EXCEPT !.active = FALSE, !.publishes = same, !.held = {"finish"},
                        !.controls = {"finish"}, !.replies = [@ EXCEPT !.finish = seq]]
      BY <2>4, <3>1, <3>3
    <3>5. e \in DeviceRecord
      BY <1>1, <3>2, <3>3, <3>4, ZenonT(60) DEF DeviceRecord
    <3>6. /\ e.mode = d.mode /\ e.source = d.source /\ e.active = FALSE /\ e.id = d.id
          /\ e.outstanding = d.outstanding /\ e.publishes = same
          /\ e.held = {"finish"} /\ e.controls = {"finish"}
      BY <1>1, <3>4, Zenon DEF DeviceRecord
    <3> QED BY <2>1, <3>5, <3>6
  <2>9. Len(o.mail) = 0 /\ Len(o.answers) = 0
    BY <1>1, <2>1, <2>2 DEF ActivePhase, Writes, WritesOf, OwnerRecord
  <2>10. o.mail = <<>> /\ o.answers = <<>>
    BY <1>1, <2>9 DEF OwnerRecord
  <2>11. PICK p \in OwnerRecord :
            p = Extended(o, <<q>>) /\ p.mail = <<q>> /\ p.answers = <<>> /\ p.file = o.file
    BY <1>1, <2>7, <2>10, OneAdded
  <2>12. same => d.source \notin changed /\ p.file = Whole(d.source)
    <3> SUFFICES ASSUME same PROVE d.source \notin changed /\ p.file = Whole(d.source)
      OBVIOUS
    <3>1. d.intact /\ d.source \notin changed
      BY <2>3
    <3>2. \A k \in 0 .. Chunks - 1 : o.file[k] = d.source
      BY <2>1, <2>2, <3>1 DEF ActivePhase
    <3>3. o.file \in [0 .. Chunks - 1 -> 0 .. MaxSessions]
      BY <1>1 DEF OwnerRecord
    <3>4. o.file = Whole(d.source)
      BY <3>2, <3>3 DEF Whole
    <3> QED BY <2>11, <3>1, <3>4
  <2>13. FinishPhase(e, p)
    BY <2>5, <2>8, <2>11, <2>12 DEF FinishPhase
  <2>14. Good(e, p)
    BY <2>1, <2>8, <2>13 DEF Good, Known, Phase
  <2>15. <<>> \in Seq(FrameType)
    OBVIOUS
  <2> QED BY <2>6, <2>11, <2>14, <2>15 DEF Sound, Result
<1> QED BY <1>2, <1>3

(* The writes of an aborted stream are what is left of it; the abort is    *)
(* the last of its requests, and the only one.                             *)
LEMMA AbortGood ==
    ASSUME NEW d, NEW o, Good(d, o), NEW id \in Nat, Abortable(d, id)
    PROVE  Sound(Abort(d, id), o) /\ Abort(d, id).device \in DeviceRecord
<1>1. d \in DeviceRecord /\ o \in OwnerRecord /\ Known(d)
  BY DEF Good, Known
<1>2. PICK n \in Nat : n = Len(o.answers)
  BY <1>1 DEF OwnerRecord
<1>3. PICK m \in Nat : m = Len(o.mail)
  BY <1>1 DEF OwnerRecord
<1>4. PICK waited \in Nat : waited = Len(d.outstanding)
  BY <1>1 DEF DeviceRecord
<1>5. PICK gen \in Nat : gen = IF d.active THEN d.gen + 1 ELSE d.gen
  BY <1>1 DEF DeviceRecord
<1>6. /\ id # 0 /\ gen = 2 /\ d.held = {} /\ d.controls = {} /\ d.mode = "upload"
      /\ n + m = waited
      /\ \A i \in 1 .. m : o.mail[i].op = "write" /\ o.mail[i].for = "write"
      /\ \A i \in 1 .. n : o.answers[i].for = "write"
  <2>1. CASE ActivePhase(d, o)
    <3>1. d.active /\ id = d.id /\ id # 0 /\ d.gen = 1 /\ d.held = {} /\ d.controls = {}
          /\ d.mode = "upload" /\ Writes(d, o)
      BY <2>1 DEF ActivePhase, Abortable
    <3>2. gen = 2
      BY <1>5, <3>1
    <3>3. /\ n + m = waited
          /\ \A i \in 1 .. m :
                o.mail[i] = Request("write", "write", d.id, d.outstanding[n + i].off,
                                    d.outstanding[n + i].source)
          /\ \A i \in 1 .. n : o.answers[i].for = "write"
      BY <1>2, <1>3, <1>4, <3>1 DEF Writes, WritesOf
    <3>4. ASSUME NEW i \in 1 .. m
          PROVE  o.mail[i].op = "write" /\ o.mail[i].for = "write"
      <4>1. o.mail[i] = Request("write", "write", d.id, d.outstanding[n + i].off,
                                d.outstanding[n + i].source)
        BY <3>3
      <4> QED BY <4>1 DEF Request
    <3> QED BY <3>1, <3>2, <3>3, <3>4
  <2>2. CASE AbortPhase(d, o)
    <3>1. /\ ~ d.active /\ id = d.tombstone /\ id # 0 /\ d.mode = "upload" /\ d.gen = 2
          /\ d.held = {} /\ d.controls = {} /\ Stale(d, o)
      BY <2>2 DEF AbortPhase, Abortable
    <3>2. gen = 2
      BY <1>5, <3>1
    <3>3. n + m = waited + 0
      BY <1>2, <1>3, <1>4, <3>1 DEF Stale
    <3>4. /\ \A i \in 1 .. m : o.mail[i].op = "write" /\ o.mail[i].for = "write"
          /\ \A i \in 1 .. n : o.answers[i].for = "write"
      BY <1>2, <1>3, <3>1 DEF Stale
    <3> QED BY <3>1, <3>2, <3>3, <3>4
  <2>3. ~ IdlePhase(d, o) /\ ~ OpenPhase(d, o) /\ ~ FinishPhase(d, o)
    BY DEF IdlePhase, OpenPhase, FinishPhase, Abortable
  <2> QED BY <2>1, <2>2, <2>3 DEF Good, Phase
<1>7. PICK q \in OwnerRequest : q = Request("abort", "abort", id, 0, 0)
  <2>1. 0 \in 0 .. MaxSessions
    BY ConstantsAssumption
  <2> QED BY <2>1 DEF OwnerRequest, Request
<1>8. PICK e : e = [d EXCEPT !.active = FALSE, !.tombstone = id, !.occupied = 0, !.gen = gen,
                             !.held = @ \cup {"abort"}, !.controls = @ \cup {"abort"}]
  OBVIOUS
<1>9. Abort(d, id) = Result(e, <<>>, <<q>>)
  BY <1>5, <1>7, <1>8 DEF Abort
<1>10. /\ e \in DeviceRecord /\ e.mode = "upload" /\ ~ e.active /\ e.source = d.source
       /\ e.tombstone = id /\ e.gen = 2 /\ e.outstanding = d.outstanding
       /\ e.held = {"abort"} /\ e.controls = {"abort"}
  <2>1. /\ {} \cup {"abort"} = {"abort"} /\ FALSE \in BOOLEAN /\ 0 \in Nat
        /\ {"abort"} \in SUBSET {"open", "finish", "abort"}
    OBVIOUS
  <2>2. e = [d EXCEPT !.active = FALSE, !.tombstone = id, !.occupied = 0, !.gen = gen,
                      !.held = {"abort"}, !.controls = {"abort"}]
    BY <1>6, <1>8, <2>1
  <2>3. e \in DeviceRecord
    BY <1>1, <2>1, <2>2, ZenonT(60) DEF DeviceRecord
  <2>4. /\ e.mode = d.mode /\ e.active = FALSE /\ e.source = d.source
        /\ e.tombstone = id /\ e.gen = gen /\ e.outstanding = d.outstanding
        /\ e.held = {"abort"} /\ e.controls = {"abort"}
    BY <1>1, <2>2, Zenon DEF DeviceRecord
  <2> QED BY <1>6, <2>3, <2>4
<1>11. PICK p \in OwnerRecord :
          /\ p = Extended(o, <<q>>) /\ p.answers = o.answers
          /\ Len(p.mail) = m + 1 /\ p.mail[m + 1] = q
          /\ \A j \in 1 .. m : p.mail[j] = o.mail[j]
  BY <1>1, <1>3, OneAdded
<1>12. q.op = "abort" /\ q.for = "abort"
  BY <1>7 DEF Request
<1>13. Stale(e, p)
  <2>1. n + (m + 1) = waited + 1
    BY <1>6
  <2>2. e.controls # {}
    BY <1>10
  <2>3. Len(p.answers) + Len(p.mail) = Len(e.outstanding) + (IF e.controls = {} THEN 0 ELSE 1)
    BY <1>2, <1>4, <1>10, <1>11, <2>1, <2>2
  <2>4. ASSUME NEW i \in 1 .. m + 1
        PROVE  IF p.mail[i].op = "abort"
               THEN i = m + 1 /\ p.mail[i].for = "abort" /\ e.controls # {}
               ELSE p.mail[i].op = "write" /\ p.mail[i].for = "write"
    <3>1. CASE i = m + 1
      BY <1>11, <1>12, <2>2, <3>1
    <3>2. CASE i # m + 1
      <4>1. i \in 1 .. m
        BY <3>2
      <4> QED BY <1>6, <1>11, <4>1
    <3> QED BY <3>1, <3>2
  <2>5. \A i \in 1 .. n : p.answers[i].for = "write"
    BY <1>6, <1>11
  <2>6. m + 1 \in 1 .. m + 1 /\ p.mail[m + 1].op = "abort"
    BY <1>11, <1>12
  <2> QED BY <1>2, <1>11, <2>3, <2>4, <2>5, <2>6 DEF Stale
<1>14. AbortPhase(e, p)
  BY <1>6, <1>10, <1>13 DEF AbortPhase
<1>15. Good(e, p)
  BY <1>1, <1>6, <1>10, <1>14 DEF Good, Known, Phase
<1>16. <<>> \in Seq(FrameType)
  OBVIOUS
<1> QED BY <1>9, <1>10, <1>11, <1>15, <1>16 DEF Sound, Result

(* Every frame of the host, in every phase.                                *)
LEMMA DispatchGood ==
    ASSUME NEW d, NEW o, Good(d, o), NEW f, Heard(f)
    PROVE  Sound(Dispatch(d, f), o)
<1>1. d \in DeviceRecord /\ o \in OwnerRecord /\ f \in Sent
  BY DEF Good, Known, Heard
<1>2. f.seq \in Nat /\ f.id \in Nat
      /\ f.op \in {"open", "data", "status", "finish", "abort"} /\ "abort" \in Ops
  BY <1>1 DEF Sent, Ops
<1>3. PICK waits : waits = (d.mode = "upload" /\ Pending(d))
  OBVIOUS
<1>4. CASE f.op = "open"
  <2>1. Dispatch(d, f) = Open(d, f)
    BY <1>4 DEF Dispatch
  <2> QED BY <1>4, <2>1, OpenGood
<1>5. CASE f.op = "data"
  <2>1. Dispatch(d, f) = Admit(d, f)
    BY <1>5 DEF Dispatch
  <2> QED BY <1>5, <2>1, AdmitGood
<1>6. CASE f.op \in {"status", "finish"} /\ d.mode = "upload" /\ Pending(d)
  <2>1. Dispatch(d, f) = Defer(d, f)
    BY <1>6 DEF Dispatch
  <2> QED BY <1>6, <2>1, DeferGood
<1>7. CASE f.op = "status" /\ ~ (d.mode = "upload" /\ Pending(d))
  <2>1. Dispatch(d, f) = Status(d, f.seq, f.id)
    BY <1>7 DEF Dispatch
  <2> QED BY <1>2, <2>1, StatusGood
<1>8. CASE f.op = "finish" /\ ~ (d.mode = "upload" /\ Pending(d))
  <2>1. Dispatch(d, f) = Finish(d, f.seq, f.id)
    BY <1>8 DEF Dispatch
  <2> QED BY <1>2, <2>1, FinishGood
<1>9. CASE f.op = "abort" /\ ~ Abortable(d, f.id)
  <2>1. Dispatch(d, f) = Result(d, <<BadRequest("abort", f.seq)>>, <<>>)
    BY <1>9 DEF Dispatch
  <2> QED BY <1>2, <2>1, Refuses
<1>10. CASE f.op = "abort" /\ Abortable(d, f.id)
  <2>1. PICK r : r = Abort(d, f.id)
    OBVIOUS
  <2>2. Sound(r, o) /\ r.device \in DeviceRecord
    BY <1>2, <1>10, <2>1, AbortGood
  <2>3. PICK e : e = [r.device EXCEPT !.replies = [@ EXCEPT !.abort = f.seq]]
    OBVIOUS
  <2>4. Dispatch(d, f) = [r EXCEPT !.device.replies.abort = f.seq]
    BY <1>10, <2>1 DEF Dispatch
  <2>5. r = Result(r.device, r.frames, r.requests)
    BY <2>1 DEF Abort, Result
  <2>6. Dispatch(d, f) = Result(e, r.frames, r.requests)
    BY <2>3, <2>4, <2>5 DEF Result
  <2>7. [r.device.replies EXCEPT !.abort = f.seq] \in [open : Nat, finish : Nat, abort : Nat]
    BY <1>2, <2>2 DEF DeviceRecord
  <2>8. /\ e \in DeviceRecord
        /\ e.mode = r.device.mode /\ e.source = r.device.source /\ e.active = r.device.active
        /\ e.id = r.device.id /\ e.admitted = r.device.admitted /\ e.durable = r.device.durable
        /\ e.credits = r.device.credits /\ e.owed = r.device.owed
        /\ e.occupied = r.device.occupied /\ e.intact = r.device.intact /\ e.gen = r.device.gen
        /\ e.tombstone = r.device.tombstone /\ e.outstanding = r.device.outstanding
        /\ e.publishes = r.device.publishes /\ e.held = r.device.held
        /\ e.controls = r.device.controls
    BY <2>2, <2>3, <2>7 DEF DeviceRecord
  <2>9. Good(e, Extended(o, r.requests)) /\ r.frames \in Seq(FrameType)
    BY <2>2, <2>8, AlikeGood DEF Sound
  <2> QED BY <2>6, <2>9 DEF Sound, Result
<1> QED BY <1>2, <1>4, <1>5, <1>6, <1>7, <1>8, <1>9, <1>10

(***************************************************************************)
(* The answers of the owner.                                               *)
(***************************************************************************)
\* The owner without the answer that is taken, and the device that no longer
\* waits for it.
Taken(o) == [o EXCEPT !.answers = Tail(@)]
NotWaiting(d, a) == [d EXCEPT !.controls = @ \ {a.for}]

\* What a handler of an answer promises: a phase, and no request.
Settled(result, o) ==
    Good(result.device, Taken(o)) /\ result.frames \in Seq(FrameType)

LEMMA TakenIs ==
    ASSUME NEW o \in OwnerRecord, o.answers # <<>>
    PROVE  /\ Taken(o) \in OwnerRecord
           /\ Taken(o).mail = o.mail /\ Taken(o).upload = o.upload /\ Taken(o).file = o.file
           /\ Len(o.answers) \in Nat \ {0} /\ Len(Taken(o).answers) = Len(o.answers) - 1
           /\ \A j \in 1 .. Len(o.answers) - 1 : Taken(o).answers[j] = o.answers[j + 1]
           /\ Head(o.answers) = o.answers[1] /\ Head(o.answers) \in OwnerAnswer
<1>1. o.answers \in Seq(OwnerAnswer)
  BY DEF OwnerRecord
<1>2. PICK rest : rest = Tail(o.answers)
  OBVIOUS
<1>3. /\ rest \in Seq(OwnerAnswer) /\ Len(o.answers) \in Nat \ {0}
      /\ Len(rest) = Len(o.answers) - 1
      /\ \A j \in 1 .. Len(o.answers) - 1 : rest[j] = o.answers[j + 1]
      /\ Head(o.answers) = o.answers[1] /\ Head(o.answers) \in OwnerAnswer
  BY <1>1, <1>2
<1>4. Taken(o) = [o EXCEPT !.answers = rest]
  BY <1>2 DEF Taken
<1>5. /\ Taken(o) \in OwnerRecord /\ Taken(o).answers = rest
      /\ Taken(o).mail = o.mail /\ Taken(o).upload = o.upload /\ Taken(o).file = o.file
  BY <1>3, <1>4 DEF OwnerRecord
<1> QED BY <1>3, <1>5

LEMMA OneFrame ==
    ASSUME NEW d \in DeviceRecord, NEW op \in Ops \cup {"credit"}, NEW seq \in Nat
    PROVE  /\ <<BadRequest(op, seq)>> \in Seq(FrameType)
           /\ <<Reply(op, seq, d)>> \in Seq(FrameType)
           /\ <<>> \in Seq(FrameType)
<1>1. BadRequest(op, seq) \in FrameType /\ Reply(op, seq, d) \in FrameType
  BY FramesTyped
<1> QED BY <1>1

LEMMA IdleIs ==
    ASSUME NEW d \in DeviceRecord
    PROVE  /\ Idle(d) \in DeviceRecord /\ Idle(d).mode = "idle" /\ Idle(d).active = FALSE
           /\ Idle(d).outstanding = <<>> /\ Idle(d).controls = {} /\ Idle(d).held = {}
<1>1. PICK e : e = [Opening(0, 0) EXCEPT !.mode = "idle", !.held = {}, !.controls = {},
                                        !.deferred = d.deferred, !.armed = d.armed]
  OBVIOUS
<1>2. d.deferred \in [op : {"none", "status", "finish"}, seq : Nat, id : Nat] /\ d.armed \in BOOLEAN
  BY DEF DeviceRecord
<1>3. <<>> \in Seq(Write) /\ 0 \in 0 .. MaxSessions
      /\ {} \in SUBSET {"open", "finish", "abort"}
      /\ [open |-> 0, finish |-> 0, abort |-> 0] \in [open : Nat, finish : Nat, abort : Nat]
  BY ConstantsAssumption
<1>4. e \in DeviceRecord
  BY <1>1, <1>2, <1>3, ZenonT(60) DEF Opening, DeviceRecord
<1>5. /\ e.mode = "idle" /\ e.active = FALSE /\ e.outstanding = <<>> /\ e.controls = {}
      /\ e.held = {}
  BY <1>1 DEF Opening
<1>6. Idle(d) = e
  BY <1>1 DEF Idle
<1> QED BY <1>4, <1>5, <1>6

LEMMA SettledBy ==
    ASSUME NEW o, NEW e, Good(e, Taken(o)), NEW frames \in Seq(FrameType)
    PROVE  Settled(Result(e, frames, <<>>), o)
<1>1. Result(e, frames, <<>>).device = e /\ Result(e, frames, <<>>).frames = frames
  BY DEF Result
<1> QED BY <1>1 DEF Settled

LEMMA OpenDoneGood ==
    ASSUME NEW d, NEW o, Good(d, o), OpenPhase(d, o), o.answers # <<>>,
           NEW a, a = Head(o.answers), NEW e, e = NotWaiting(d, a)
    PROVE  a.for = "open" /\ Settled(OpenDone(e, a), o)
<1>1. d \in DeviceRecord /\ o \in OwnerRecord /\ Known(d) /\ "open" \in Ops
  BY DEF Good, Known, Ops
<1>2. /\ d.mode = "upload" /\ d.held = {"open"} /\ d.outstanding = <<>> /\ d.tombstone = 0
      /\ d.admitted = 0 /\ d.durable = 0 /\ d.owed = 0 /\ d.occupied = 0 /\ ~ d.active
      /\ d.controls = {"open"} /\ o.mail = <<>>
      /\ Len(o.answers) = 1 /\ o.answers[1].for = "open"
      /\ o.answers[1].ok <=> o.upload # 0
      /\ o.answers[1].id = o.upload
  BY DEF OpenPhase
<1>3. a = o.answers[1]
  BY <1>1, TakenIs
<1>4. a.for = "open" /\ (a.ok <=> o.upload # 0) /\ a.id = o.upload
  BY <1>2, <1>3
<1>5. PICK p \in OwnerRecord : /\ p = Taken(o) /\ p.mail = <<>> /\ p.upload = o.upload
                               /\ p.file = o.file /\ Len(p.answers) = 0
  <2>1. Len(o.answers) - 1 = 0
    BY <1>2
  <2> QED BY <1>1, <1>2, <2>1, TakenIs
<1>6. p.answers = <<>>
  BY <1>5 DEF OwnerRecord
<1>8. /\ e \in DeviceRecord /\ e.controls = {} /\ e.mode = "upload" /\ e.held = {"open"}
      /\ e.outstanding = <<>> /\ e.tombstone = 0 /\ e.admitted = 0 /\ e.durable = 0
      /\ e.owed = 0 /\ e.occupied = 0 /\ ~ e.active /\ e.source = d.source
      /\ e.replies.open \in Nat
  BY <1>1, <1>2, <1>4 DEF NotWaiting, DeviceRecord
<1>9. CASE ~ a.ok
  <2>1. OpenDone(e, a) = Result(e, <<BadRequest("open", e.replies.open)>>, <<>>)
    BY <1>9 DEF OpenDone
  <2>2. OpenPhase(e, p)
    BY <1>4, <1>5, <1>6, <1>8, <1>9 DEF OpenPhase
  <2>3. Good(e, p)
    BY <1>1, <1>2, <1>8, <2>2 DEF Good, Known, Phase
  <2>4. <<BadRequest("open", e.replies.open)>> \in Seq(FrameType)
    BY <1>1, <1>8, OneFrame
  <2> QED BY <1>4, <1>5, <2>1, <2>3, <2>4, SettledBy
<1>10. CASE a.ok
  <2>1. PICK g : g = [e EXCEPT !.active = TRUE, !.id = a.id, !.credits = Window, !.gen = 1,
                               !.armed = TRUE, !.held = {}]
    OBVIOUS
  <2>2. OpenDone(e, a) = Result(g, <<Reply("open", e.replies.open, g)>>, <<>>)
    <3>1. e.held \ {"open"} = {}
      BY <1>8
    <3> QED BY <1>10, <2>1, <3>1 DEF OpenDone
  <2>3. a.id \in Nat /\ Window \in Nat
    BY <1>1, <1>4, ConstantsAssumption DEF OwnerRecord
  <2>4. /\ g \in DeviceRecord /\ g.mode = "upload" /\ g.active /\ g.held = {} /\ g.controls = {}
        /\ g.id = a.id /\ g.gen = 1 /\ g.credits = Window /\ g.owed = 0 /\ g.occupied = 0
        /\ g.outstanding = <<>> /\ g.admitted = 0 /\ g.durable = 0 /\ g.source = d.source
    <3>1. {} \in SUBSET {"open", "finish", "abort"} /\ TRUE \in BOOLEAN /\ 1 \in Nat
      OBVIOUS
    <3>2. g \in DeviceRecord
      BY <1>8, <2>1, <2>3, <3>1, ZenonT(60) DEF DeviceRecord
    <3>3. /\ g.mode = e.mode /\ g.active = TRUE /\ g.held = {} /\ g.controls = e.controls
          /\ g.id = a.id /\ g.gen = 1 /\ g.credits = Window /\ g.owed = e.owed
          /\ g.occupied = e.occupied /\ g.outstanding = e.outstanding
          /\ g.admitted = e.admitted /\ g.durable = e.durable /\ g.source = e.source
      BY <1>8, <2>1, Zenon DEF DeviceRecord
    <3> QED BY <1>8, <3>2, <3>3
  <2>5. Writes(g, p)
    <3>1. Len(g.outstanding) = 0 /\ Len(p.answers) = 0 /\ Len(p.mail) = 0
      BY <1>5, <2>4
    <3>2. 0 <= Chunks /\ 1 .. 0 = {}
      BY ConstantsAssumption
    <3> QED BY <2>4, <3>1, <3>2 DEF Writes, WritesOf
  <2>6. g.credits + g.owed + g.occupied = Window /\ Len(g.outstanding) <= g.occupied
    BY <2>3, <2>4
  <2>7. \A k \in 0 .. g.durable - 1 : p.file[k] = g.source
    BY <2>4
  <2>8. ActivePhase(g, p)
    BY <1>4, <1>5, <1>10, <2>4, <2>5, <2>6, <2>7 DEF ActivePhase
  <2>9. Good(g, p)
    BY <1>1, <1>2, <2>4, <2>8 DEF Good, Known, Phase
  <2>10. <<Reply("open", e.replies.open, g)>> \in Seq(FrameType)
    BY <1>1, <1>8, <2>4, OneFrame
  <2> QED BY <1>4, <1>5, <2>2, <2>9, <2>10, SettledBy
<1> QED BY <1>9, <1>10

LEMMA FinishDoneGood ==
    ASSUME NEW d, NEW o, Good(d, o), FinishPhase(d, o), o.answers # <<>>,
           NEW a, a = Head(o.answers), NEW e, e = NotWaiting(d, a)
    PROVE  a.for = "finish" /\ Settled(FinishDone(e, a), o)
<1>1. d \in DeviceRecord /\ o \in OwnerRecord /\ Known(d) /\ "finish" \in Ops
  BY DEF Good, Known, Ops
<1>2. /\ d.mode = "upload" /\ d.held = {"finish"} /\ d.outstanding = <<>> /\ ~ d.active
      /\ d.publishes => d.source \notin changed /\ o.file = Whole(d.source)
      /\ d.controls = {"finish"} /\ o.mail = <<>>
      /\ Len(o.answers) = 1 /\ o.answers[1].for = "finish"
      /\ o.answers[1].ok => o.upload = 0
  BY DEF FinishPhase
<1>3. a = o.answers[1] /\ a.for = "finish" /\ (a.ok => o.upload = 0)
  BY <1>1, <1>2, TakenIs
<1>4. PICK p \in OwnerRecord : /\ p = Taken(o) /\ p.mail = <<>> /\ p.upload = o.upload
                               /\ p.file = o.file /\ Len(p.answers) = 0
  <2>1. Len(o.answers) - 1 = 0
    BY <1>2
  <2> QED BY <1>1, <1>2, <2>1, TakenIs
<1>5. p.answers = <<>>
  BY <1>4 DEF OwnerRecord
<1>7. /\ e \in DeviceRecord /\ e.controls = {} /\ e.mode = "upload" /\ e.held = {"finish"}
      /\ e.outstanding = <<>> /\ ~ e.active /\ e.source = d.source /\ e.publishes = d.publishes
      /\ e.replies.finish \in Nat
  BY <1>1, <1>2, <1>3 DEF NotWaiting, DeviceRecord
<1>8. CASE ~ a.ok
  <2>1. FinishDone(e, a) = Result(e, <<BadRequest("finish", e.replies.finish)>>, <<>>)
    BY <1>8 DEF FinishDone
  <2>2. FinishPhase(e, p)
    BY <1>2, <1>4, <1>5, <1>7 DEF FinishPhase
  <2>3. Good(e, p)
    BY <1>1, <1>2, <1>7, <2>2 DEF Good, Known, Phase
  <2>4. <<BadRequest("finish", e.replies.finish)>> \in Seq(FrameType)
    BY <1>1, <1>7, OneFrame
  <2> QED BY <1>3, <1>4, <2>1, <2>3, <2>4, SettledBy
<1>9. CASE a.ok
  <2>1. PICK g : g = [e EXCEPT !.held = {}, !.armed = FALSE]
    OBVIOUS
  <2>2. PICK frame : frame = Frame("finish", e.replies.finish, TRUE, e.id, e.durable,
                                   IF e.publishes THEN 1 ELSE 0)
    OBVIOUS
  <2>3. FinishDone(e, a) = Result(Release(g), <<frame>>, <<>>)
    <3>1. e.held \ {"finish"} = {}
      BY <1>7
    <3> QED BY <1>9, <2>1, <2>2, <3>1 DEF FinishDone
  <2>4. /\ g \in DeviceRecord /\ ~ g.active /\ g.held = {} /\ g.controls = {}
        /\ g.outstanding = <<>>
    <3>1. {} \in SUBSET {"open", "finish", "abort"} /\ FALSE \in BOOLEAN
      OBVIOUS
    <3>2. g \in DeviceRecord
      BY <1>7, <2>1, <3>1, ZenonT(60) DEF DeviceRecord
    <3>3. g.held = {} /\ g.active = e.active /\ g.controls = e.controls
          /\ g.outstanding = e.outstanding
      BY <1>7, <2>1 DEF DeviceRecord
    <3> QED BY <1>7, <3>2, <3>3
  <2>5. Release(g) = Idle(g)
    BY <2>4 DEF Release, Pending
  <2>6. IdlePhase(Idle(g), p)
    BY <1>3, <1>4, <1>5, <1>9, <2>4, IdleIs DEF IdlePhase
  <2>7. Good(Idle(g), p)
    <3>1. Idle(g) \in DeviceRecord /\ Idle(g).mode = "idle"
      BY <2>4, IdleIs
    <3> QED BY <2>6, <3>1 DEF Good, Known, Phase
  <2>8. frame \in FrameType
    <3>1. e.id \in Nat /\ e.durable \in Nat /\ (IF e.publishes THEN 1 ELSE 0) \in Nat
      BY <1>7 DEF DeviceRecord
    <3> QED BY <1>1, <1>7, <2>2, <3>1 DEF Frame, FrameType
  <2>9. <<frame>> \in Seq(FrameType)
    BY <2>8
  <2> QED BY <1>3, <1>4, <2>3, <2>5, <2>7, <2>9, SettledBy
<1> QED BY <1>8, <1>9

(* The oldest write leaves both queues; the rest moves up.                 *)
LEMMA WriteTaken ==
    ASSUME NEW d, NEW o, d \in DeviceRecord, o \in OwnerRecord, ActivePhase(d, o),
           o.answers # <<>>
    PROVE  /\ d.outstanding # <<>>
           /\ Head(d.outstanding) \in Write
           /\ Tail(d.outstanding) \in Seq(Write)
           /\ Len(d.outstanding) \in Nat \ {0}
           /\ Len(Tail(d.outstanding)) = Len(d.outstanding) - 1
           /\ WritesOf(d.id, d.admitted, d.durable, Tail(d.outstanding), Taken(o))
           /\ d.durable + Len(d.outstanding) <= d.admitted
           /\ Head(o.answers).for = "write"
           /\ Head(o.answers).ok =>
                 o.file[Head(d.outstanding).off] = Head(d.outstanding).source
<1>1. PICK p \in OwnerRecord :
         /\ p = Taken(o) /\ p.mail = o.mail /\ p.file = o.file
         /\ Len(p.answers) = Len(o.answers) - 1
         /\ \A j \in 1 .. Len(o.answers) - 1 : p.answers[j] = o.answers[j + 1]
  BY TakenIs
<1>2. PICK n \in Nat : n = Len(o.answers) /\ n >= 1
  BY TakenIs
<1>3. PICK m \in Nat : m = Len(o.mail)
  BY DEF OwnerRecord
<1>4. d.outstanding \in Seq(Write) /\ d.admitted \in Nat /\ d.durable \in Nat /\ d.id \in Nat
  BY DEF DeviceRecord
<1>5. PICK waited \in Nat : waited = Len(d.outstanding)
  BY <1>4
<1>6. PICK admitted \in Nat : admitted = d.admitted
  BY <1>4
<1>7. PICK durable \in Nat : durable = d.durable
  BY <1>4
<1>8. /\ durable + waited <= admitted /\ admitted <= Chunks
      /\ \A i \in 1 .. waited : d.outstanding[i].off = admitted - waited + i - 1
      /\ n + m = waited
      /\ \A i \in 1 .. m :
            o.mail[i] = Request("write", "write", d.id, d.outstanding[n + i].off,
                                d.outstanding[n + i].source)
      /\ \A i \in 1 .. n :
            /\ o.answers[i].for = "write"
            /\ o.answers[i].ok => o.file[d.outstanding[i].off] = d.outstanding[i].source
  BY <1>2, <1>3, <1>5, <1>6, <1>7 DEF ActivePhase, Writes, WritesOf
<1>9. waited >= 1 /\ 1 \in 1 .. n /\ 1 \in 1 .. waited
  BY <1>2, <1>8
<1>10. d.outstanding # <<>>
  BY <1>4, <1>5, <1>9
<1>11. PICK rest \in Seq(Write) :
          /\ rest = Tail(d.outstanding) /\ Len(rest) = waited - 1
          /\ \A j \in 1 .. waited - 1 : rest[j] = d.outstanding[j + 1]
  <2>1. PICK rest : rest = Tail(d.outstanding)
    OBVIOUS
  <2>2. /\ rest \in Seq(Write) /\ Len(rest) = waited - 1
        /\ \A j \in 1 .. waited - 1 : rest[j] = d.outstanding[j + 1]
    BY <1>4, <1>5, <1>10, <2>1
  <2> QED BY <2>1, <2>2
<1>12. Head(d.outstanding) = d.outstanding[1] /\ Head(d.outstanding) \in Write
  BY <1>4, <1>5, <1>9, <1>10
<1>13. Head(o.answers) = o.answers[1]
  BY TakenIs
<1>14. WritesOf(d.id, d.admitted, d.durable, rest, p)
  <2>1. durable + (waited - 1) <= admitted
    BY <1>8
  <2>2. ASSUME NEW i \in 1 .. waited - 1
        PROVE  rest[i].off = admitted - (waited - 1) + i - 1
    <3>1. i + 1 \in 1 .. waited
      OBVIOUS
    <3>2. d.outstanding[i + 1].off = admitted - waited + (i + 1) - 1
      BY <1>8, <3>1
    <3>3. admitted - waited + (i + 1) - 1 = admitted - (waited - 1) + i - 1
      OBVIOUS
    <3> QED BY <1>11, <3>2, <3>3
  <2>3. (n - 1) + m = waited - 1
    BY <1>8
  <2>4. ASSUME NEW i \in 1 .. m
        PROVE  o.mail[i] = Request("write", "write", d.id, rest[(n - 1) + i].off,
                                   rest[(n - 1) + i].source)
    <3>1. (n - 1) + i \in 1 .. waited - 1 /\ ((n - 1) + i) + 1 = n + i
      BY <1>2, <1>8
    <3>2. rest[(n - 1) + i] = d.outstanding[n + i]
      BY <1>11, <3>1
    <3> QED BY <1>8, <3>2
  <2>5. ASSUME NEW i \in 1 .. n - 1
        PROVE  /\ p.answers[i].for = "write"
               /\ p.answers[i].ok => p.file[rest[i].off] = rest[i].source
    <3>1. i + 1 \in 1 .. n /\ i \in 1 .. waited - 1
      BY <1>8
    <3>2. p.answers[i] = o.answers[i + 1] /\ rest[i] = d.outstanding[i + 1]
      BY <1>1, <1>2, <1>11, <3>1
    <3> QED BY <1>1, <1>8, <3>1, <3>2
  <2>6. Len(p.answers) = n - 1 /\ Len(p.mail) = m /\ Len(rest) = waited - 1 /\ p.mail = o.mail
    BY <1>1, <1>2, <1>3, <1>11
  <2> QED BY <1>6, <1>7, <1>8, <2>1, <2>2, <2>3, <2>4, <2>5, <2>6 DEF WritesOf
<1>15. d.durable + Len(d.outstanding) <= d.admitted /\ Len(d.outstanding) \in Nat \ {0}
       /\ Len(Tail(d.outstanding)) = Len(d.outstanding) - 1
  BY <1>5, <1>6, <1>7, <1>8, <1>9, <1>11
<1>16. /\ Head(o.answers).for = "write"
       /\ Head(o.answers).ok => o.file[Head(d.outstanding).off] = Head(d.outstanding).source
  BY <1>8, <1>9, <1>12, <1>13
<1> QED BY <1>1, <1>10, <1>11, <1>12, <1>14, <1>15, <1>16

(* What is held back is given to the sender again, all of it.              *)
LEMMA CreditGood ==
    ASSUME NEW d, NEW p, Good(d, p), ActivePhase(d, p)
    PROVE  /\ Good(Credit(d).device, p) /\ Credit(d).frames \in Seq(FrameType)
           /\ Credit(d).requests = <<>>
<1>1. d \in DeviceRecord /\ Window \in Nat /\ Known(d)
  BY ConstantsAssumption DEF Good, Known
<1>2. CASE ~ (d.owed = Window \/ d.durable = Chunks)
  <2>1. Credit(d) = Result(d, <<>>, <<>>)
    BY <1>2 DEF Credit
  <2>2. <<>> \in Seq(FrameType)
    OBVIOUS
  <2> QED BY <2>1, <2>2 DEF Result
<1>3. CASE d.owed = Window \/ d.durable = Chunks
  <2>1. PICK credits \in Nat : credits = d.credits
    BY <1>1 DEF DeviceRecord
  <2>2. PICK owed \in Nat : owed = d.owed
    BY <1>1 DEF DeviceRecord
  <2>3. PICK occupied \in Nat : occupied = d.occupied
    BY <1>1 DEF DeviceRecord
  <2>4. credits + owed + occupied = Window
    BY <2>1, <2>2, <2>3 DEF ActivePhase
  <2>5. Min({Window, credits + owed}) = credits + owed
    BY <1>1, <2>4, MinOfTwo
  <2>6. PICK e : e = [d EXCEPT !.credits = credits + owed, !.owed = 0]
    OBVIOUS
  <2>7. PICK frame : frame = Frame("credit", 0, TRUE, d.id, d.durable, d.owed)
    OBVIOUS
  <2>8. Credit(d) = Result(e, <<frame>>, <<>>)
    BY <1>3, <2>1, <2>2, <2>5, <2>6, <2>7 DEF Credit
  <2>9. credits + owed \in Nat /\ 0 \in Nat
    OBVIOUS
  <2>10. e \in DeviceRecord
    BY <1>1, <2>6, <2>9 DEF DeviceRecord
  <2>11. /\ e.mode = d.mode /\ e.source = d.source /\ e.active = d.active /\ e.id = d.id
         /\ e.admitted = d.admitted /\ e.durable = d.durable /\ e.credits = credits + owed
         /\ e.owed = 0 /\ e.occupied = occupied /\ e.intact = d.intact /\ e.gen = d.gen
         /\ e.outstanding = d.outstanding /\ e.held = d.held /\ e.controls = d.controls
    BY <1>1, <2>3, <2>6 DEF DeviceRecord
  <2>12. Writes(e, p)
    BY <2>11 DEF ActivePhase, Writes
  <2>13. e.credits + e.owed + e.occupied = Window
    <3>1. (credits + owed) + 0 + occupied = Window
      BY <2>4
    <3> QED BY <2>11, <3>1
  <2>14. ActivePhase(e, p)
    BY <2>3, <2>11, <2>12, <2>13 DEF ActivePhase
  <2>15. Good(e, p)
    BY <1>1, <2>10, <2>11, <2>14 DEF Good, Known, Phase
  <2>16. frame \in FrameType
    <3>1. d.id \in Nat /\ d.durable \in Nat /\ d.owed \in Nat
      BY <1>1 DEF DeviceRecord
    <3> QED BY <2>7, <3>1 DEF Frame, FrameType
  <2>17. <<frame>> \in Seq(FrameType)
    BY <2>16
  <2> QED BY <2>8, <2>15, <2>17 DEF Result
<1> QED BY <1>2, <1>3

LEMMA WriteDoneGood ==
    ASSUME NEW d, NEW o, Good(d, o), ActivePhase(d, o), o.answers # <<>>,
           NEW a, a = Head(o.answers), NEW e, e = NotWaiting(d, a)
    PROVE  /\ a.for = "write" /\ Settled(WriteDone(e, a), o)
           /\ WriteDone(e, a).requests = <<>>
<1>1. d \in DeviceRecord /\ o \in OwnerRecord /\ Known(d)
  BY DEF Good, Known
<1>2. PICK w \in Write : w = Head(d.outstanding)
  BY <1>1, WriteTaken
<1>3. PICK rest \in Seq(Write) :
         /\ rest = Tail(d.outstanding) /\ Len(rest) = Len(d.outstanding) - 1
         /\ WritesOf(d.id, d.admitted, d.durable, rest, Taken(o))
  BY <1>1, WriteTaken
<1>4. /\ Len(d.outstanding) \in Nat \ {0} /\ d.durable + Len(d.outstanding) <= d.admitted
      /\ a.for = "write"
      /\ a.ok => o.file[w.off] = w.source
  BY <1>1, <1>2, WriteTaken
<1>5. PICK p \in OwnerRecord : /\ p = Taken(o) /\ p.file = o.file /\ p.upload = o.upload
  BY <1>1, TakenIs
<1>6. /\ d.mode = "upload" /\ d.active /\ d.held = {} /\ d.controls = {}
      /\ d.id # 0 /\ d.id = o.upload /\ d.gen = 1
      /\ d.credits + d.owed + d.occupied = Window
      /\ Len(d.outstanding) <= d.occupied
      /\ d.intact => \A k \in 0 .. d.durable - 1 : o.file[k] = d.source
  BY DEF ActivePhase
<1>7. e = d
  <2>1. d.controls \ {a.for} = d.controls
    BY <1>6
  <2> QED BY <1>1, <2>1 DEF NotWaiting, DeviceRecord
<1>8. PICK waited \in Nat : waited = Len(d.outstanding) /\ waited >= 1
  BY <1>4
<1>9. PICK durable \in Nat : durable = d.durable
  BY <1>1 DEF DeviceRecord
<1>10. PICK occupied \in Nat : occupied = d.occupied
  BY <1>1 DEF DeviceRecord
<1>11. PICK admitted \in Nat : admitted = d.admitted
  BY <1>1 DEF DeviceRecord
<1>12. PICK g : g = Answered(d)
  OBVIOUS
<1>13. /\ g \in DeviceRecord /\ g.outstanding = rest
       /\ g.mode = "upload" /\ g.source = d.source /\ g.active /\ g.id = d.id
       /\ g.admitted = d.admitted /\ g.durable = d.durable /\ g.credits = d.credits
       /\ g.owed = d.owed /\ g.occupied = d.occupied /\ g.intact = d.intact /\ g.gen = 1
       /\ g.held = {} /\ g.controls = {}
  BY <1>1, <1>3, <1>6, <1>12 DEF Answered, DeviceRecord
<1>14. w.gen = d.gen
  BY <1>6 DEF Write
<1>15. CASE ~ (a.ok /\ w.off = d.durable)
  <2>1. WriteDone(e, a) = Result(g, <<>>, <<>>)
    BY <1>2, <1>7, <1>12, <1>14, <1>15 DEF WriteDone
  <2>2. Writes(g, p)
    BY <1>3, <1>5, <1>13 DEF Writes
  <2>3. Len(g.outstanding) <= g.occupied
    <3>1. waited - 1 <= occupied
      BY <1>6, <1>8, <1>10
    <3> QED BY <1>3, <1>8, <1>10, <1>13, <3>1
  <2>4. ActivePhase(g, p)
    BY <1>5, <1>6, <1>13, <2>2, <2>3 DEF ActivePhase
  <2>5. Good(g, p)
    BY <1>1, <1>6, <1>13, <2>4 DEF Good, Known, Phase
  <2>6. <<>> \in Seq(FrameType) /\ Result(g, <<>>, <<>>).requests = <<>>
    BY DEF Result
  <2> QED BY <1>4, <1>5, <2>1, <2>5, <2>6, SettledBy
<1>16. CASE a.ok /\ w.off = d.durable
  <2>1. PICK h : h = Stored(d, w)
    OBVIOUS
  <2>2. WriteDone(e, a) = Credit(h)
    BY <1>2, <1>7, <1>14, <1>16, <2>1 DEF WriteDone
  <2>3. PICK intact \in BOOLEAN : intact = (d.intact /\ w.source = d.source)
    OBVIOUS
  <2>4. durable + 1 \in Nat /\ occupied - 1 \in Nat /\ d.owed + 1 \in Nat
    <3>1. d.owed \in Nat
      BY <1>1 DEF DeviceRecord
    <3> QED BY <1>6, <1>8, <1>10, <3>1
  <2>5. h = [g EXCEPT !.durable = durable + 1, !.occupied = occupied - 1, !.owed = d.owed + 1,
                      !.intact = intact]
    BY <1>9, <1>10, <1>12, <1>13, <2>1, <2>3 DEF Stored
  <2>6. /\ h \in DeviceRecord /\ h.outstanding = rest
        /\ h.mode = "upload" /\ h.source = d.source /\ h.active /\ h.id = d.id
        /\ h.admitted = d.admitted /\ h.durable = durable + 1 /\ h.credits = d.credits
        /\ h.owed = d.owed + 1 /\ h.occupied = occupied - 1 /\ h.intact = intact /\ h.gen = 1
        /\ h.held = {} /\ h.controls = {}
    BY <1>13, <2>4, <2>5 DEF DeviceRecord
  <2>7. WritesOf(d.id, d.admitted, durable + 1, rest, p)
    <3>1. WritesOf(d.id, d.admitted, durable, rest, p)
      BY <1>3, <1>5, <1>9
    <3>2. Len(rest) = waited - 1 /\ durable + waited <= admitted
      BY <1>3, <1>4, <1>8, <1>9, <1>11
    <3>3. (durable + 1) + Len(rest) <= d.admitted
      <4>1. (durable + 1) + (waited - 1) <= admitted
        BY <3>2
      <4> QED BY <1>11, <3>2, <4>1
    <3> QED BY <3>1, <3>3 DEF WritesOf
  <2>8. Writes(h, p)
    BY <2>6, <2>7 DEF Writes
  <2>9. h.credits + h.owed + h.occupied = Window
    <3>1. PICK credits \in Nat : credits = d.credits
      BY <1>1 DEF DeviceRecord
    <3>2. PICK owed \in Nat : owed = d.owed
      BY <1>1 DEF DeviceRecord
    <3>3. credits + owed + occupied = Window
      BY <1>6, <1>10, <3>1, <3>2
    <3>4. credits + (owed + 1) + (occupied - 1) = credits + owed + occupied
      OBVIOUS
    <3> QED BY <2>6, <3>1, <3>2, <3>3, <3>4
  <2>10. Len(h.outstanding) <= h.occupied
    <3>1. waited - 1 <= occupied - 1
      BY <1>6, <1>8, <1>10
    <3> QED BY <1>3, <1>8, <2>6, <3>1
  <2>11. h.intact => \A k \in 0 .. h.durable - 1 : p.file[k] = h.source
    <3> SUFFICES ASSUME intact, NEW k \in 0 .. (durable + 1) - 1
                 PROVE  p.file[k] = d.source
      BY <2>6
    <3>1. d.intact /\ w.source = d.source
      BY <2>3
    <3>2. CASE k = durable
      BY <1>4, <1>5, <1>9, <1>16, <3>1, <3>2
    <3>3. CASE k # durable
      <4>1. k \in 0 .. durable - 1
        BY <3>3
      <4> QED BY <1>5, <1>6, <1>9, <3>1, <4>1
    <3> QED BY <3>2, <3>3
  <2>12. ActivePhase(h, p)
    BY <1>5, <1>6, <2>6, <2>8, <2>9, <2>10, <2>11 DEF ActivePhase
  <2>13. Good(h, p)
    BY <1>1, <1>6, <2>6, <2>12 DEF Good, Known, Phase
  <2> QED BY <1>4, <1>5, <2>2, <2>12, <2>13, CreditGood DEF Settled
<1> QED BY <1>15, <1>16

\* An aborted stream with nothing to wait for is released.
Ending(d, o) ==
    /\ d.mode = "upload" /\ ~ d.active
    /\ d.held \in SUBSET {"abort"} /\ d.controls \in SUBSET d.held
    /\ d.held = {} => o.upload = 0
    /\ d.gen = 2 /\ d.tombstone # 0
    /\ Stale(d, o)

LEMMA ReleaseGood ==
    ASSUME NEW d, NEW p, Known(d), p \in OwnerRecord, Ending(d, p)
    PROVE  Good(Release(d), p)
<1>1. /\ d \in DeviceRecord /\ ~ d.active /\ d.mode = "upload"
      /\ d.held \in SUBSET {"abort"} /\ d.controls \in SUBSET d.held
      /\ d.held = {} => p.upload = 0
  BY DEF Known, Ending
<1>2. CASE d.controls = {} /\ d.outstanding = <<>> /\ d.held = {}
  <2>1. Release(d) = Idle(d)
    BY <1>1, <1>2 DEF Release, Pending
  <2>2. PICK n \in Nat : n = Len(p.answers)
    BY DEF OwnerRecord
  <2>3. PICK m \in Nat : m = Len(p.mail)
    BY DEF OwnerRecord
  <2>4. n + m = 0
    <3>1. PICK waited : waited = Len(d.outstanding)
      OBVIOUS
    <3>2. waited = 0
      BY <1>2, <3>1
    <3>3. n + m = waited + 0
      BY <1>2, <2>2, <2>3, <3>1 DEF Ending, Stale
    <3> QED BY <3>2, <3>3
  <2>5. n = 0 /\ m = 0
    BY <2>4
  <2>6. p.answers = <<>> /\ p.mail = <<>>
    <3>1. p.answers \in Seq(OwnerAnswer) /\ p.mail \in Seq(OwnerRequest)
      BY DEF OwnerRecord
    <3>2. Len(p.answers) = 0 /\ Len(p.mail) = 0
      BY <2>2, <2>3, <2>5
    <3> QED BY <3>1, <3>2
  <2>7. IdlePhase(Idle(d), p)
    BY <1>1, <1>2, <2>6, IdleIs DEF IdlePhase
  <2>8. Good(Idle(d), p)
    <3>1. Idle(d) \in DeviceRecord /\ Idle(d).mode = "idle"
      BY <1>1, IdleIs
    <3> QED BY <2>7, <3>1 DEF Good, Known, Phase
  <2> QED BY <2>1, <2>8
<1>3. CASE ~ (d.controls = {} /\ d.outstanding = <<>> /\ d.held = {})
  <2>1. Release(d) = d
    BY <1>3 DEF Release, Pending
  <2>2. d.held # {} \/ d.outstanding # <<>>
    BY <1>1, <1>3
  <2>3. AbortPhase(d, p)
    BY <2>2 DEF Ending, AbortPhase
  <2> QED BY <2>1, <2>3 DEF Good, Phase
<1> QED BY <1>2, <1>3

(* A write of an aborted stream: an abort that is still awaited stays.     *)
LEMMA StaleWriteTaken ==
    ASSUME NEW d, NEW o, Good(d, o), AbortPhase(d, o), o.answers # <<>>,
           Head(o.answers).for = "write"
    PROVE  /\ d.outstanding # <<>> /\ Head(d.outstanding) \in Write
           /\ Known(Answered(d)) /\ Ending(Answered(d), Taken(o))
<1>1. d \in DeviceRecord /\ o \in OwnerRecord /\ Known(d)
  BY DEF Good, Known
<1>2. PICK p \in OwnerRecord :
         /\ p = Taken(o) /\ p.mail = o.mail /\ p.upload = o.upload
         /\ Len(p.answers) = Len(o.answers) - 1
         /\ \A j \in 1 .. Len(o.answers) - 1 : p.answers[j] = o.answers[j + 1]
  BY <1>1, TakenIs
<1>3. PICK n \in Nat : n = Len(o.answers) /\ n >= 1
  BY <1>1, TakenIs
<1>4. PICK m \in Nat : m = Len(o.mail)
  BY <1>1 DEF OwnerRecord
<1>5. d.outstanding \in Seq(Write)
  BY <1>1 DEF DeviceRecord
<1>6. PICK waited \in Nat : waited = Len(d.outstanding)
  BY <1>5
<1>7. o.answers[1].for = "write"
  BY <1>1, TakenIs
<1>8. PICK more \in {0, 1} : more = IF d.controls = {} THEN 0 ELSE 1
  OBVIOUS
<1>9. /\ n + m = waited + more
      /\ \A i \in 1 .. m :
            IF o.mail[i].op = "abort"
            THEN i = m /\ o.mail[i].for = "abort" /\ d.controls # {}
            ELSE o.mail[i].op = "write" /\ o.mail[i].for = "write"
      /\ \A i \in 1 .. n :
            IF o.answers[i].for = "abort"
            THEN /\ d.controls # {}
                 /\ o.answers[i].ok => o.upload = 0
                 /\ \A j \in 1 .. n : o.answers[j].for = "abort" => i = j
                 /\ \A j \in 1 .. m : o.mail[j].op # "abort"
            ELSE o.answers[i].for = "write"
      /\ d.controls # {} =>
            \/ \E i \in 1 .. m : o.mail[i].op = "abort"
            \/ \E i \in 1 .. n : o.answers[i].for = "abort"
  BY <1>3, <1>4, <1>6, <1>8 DEF AbortPhase, Stale
<1>10. waited >= 1
  <2>1. CASE d.controls = {}
    <3>1. more = 0
      BY <1>8, <2>1
    <3> QED BY <1>3, <1>9, <3>1
  <2>2. CASE \E i \in 1 .. m : o.mail[i].op = "abort"
    <3>1. m >= 1
      BY <2>2
    <3> QED BY <1>3, <1>9, <3>1
  <2>3. CASE \E i \in 1 .. n : o.answers[i].for = "abort"
    <3>1. PICK i \in 1 .. n : o.answers[i].for = "abort"
      BY <2>3
    <3>2. i # 1
      BY <1>7, <3>1
    <3>3. n >= 2
      BY <3>2
    <3> QED BY <1>9, <3>3
  <2> QED BY <1>9, <2>1, <2>2, <2>3
<1>11. d.outstanding # <<>> /\ Head(d.outstanding) \in Write
  BY <1>5, <1>6, <1>10
<1>12. PICK rest : rest = Tail(d.outstanding)
  OBVIOUS
<1>13. rest \in Seq(Write) /\ Len(rest) = waited - 1
  BY <1>5, <1>6, <1>11, <1>12
<1>14. PICK e : e = Answered(d)
  OBVIOUS
<1>15. /\ e \in DeviceRecord /\ e.outstanding = rest
       /\ e.mode = d.mode /\ e.source = d.source /\ e.active = d.active /\ e.gen = d.gen
       /\ e.tombstone = d.tombstone /\ e.held = d.held /\ e.controls = d.controls
  BY <1>1, <1>12, <1>13, <1>14 DEF Answered, DeviceRecord
<1>16. Len(p.answers) = n - 1 /\ Len(p.mail) = m /\ Len(e.outstanding) = waited - 1
  BY <1>2, <1>3, <1>4, <1>13, <1>15
<1>17. (n - 1) + m = (waited - 1) + more
  BY <1>9
<1>18. \A i \in 1 .. n - 1 : i + 1 \in 1 .. n /\ p.answers[i] = o.answers[i + 1]
  BY <1>2, <1>3
<1>19. ASSUME NEW i \in 1 .. n - 1
       PROVE  IF p.answers[i].for = "abort"
              THEN /\ e.controls # {}
                   /\ p.answers[i].ok => p.upload = 0
                   /\ \A j \in 1 .. n - 1 : p.answers[j].for = "abort" => i = j
                   /\ \A j \in 1 .. m : p.mail[j].op # "abort"
              ELSE p.answers[i].for = "write"
  <2>1. i + 1 \in 1 .. n /\ p.answers[i] = o.answers[i + 1]
    BY <1>18
  <2>2. CASE o.answers[i + 1].for = "abort"
    <3>1. /\ d.controls # {} /\ (o.answers[i + 1].ok => o.upload = 0)
          /\ \A j \in 1 .. n : o.answers[j].for = "abort" => i + 1 = j
          /\ \A j \in 1 .. m : o.mail[j].op # "abort"
      BY <1>9, <2>1, <2>2
    <3>2. ASSUME NEW j \in 1 .. n - 1, p.answers[j].for = "abort" PROVE i = j
      <4>1. j + 1 \in 1 .. n /\ o.answers[j + 1].for = "abort"
        BY <1>18, <3>2
      <4>2. i + 1 = j + 1
        BY <3>1, <4>1
      <4> QED BY <4>2
    <3> QED BY <1>2, <1>15, <2>1, <2>2, <3>1, <3>2
  <2>3. CASE o.answers[i + 1].for # "abort"
    BY <1>9, <2>1, <2>3
  <2> QED BY <2>2, <2>3
<1>20. e.controls # {} =>
          \/ \E i \in 1 .. m : p.mail[i].op = "abort"
          \/ \E i \in 1 .. n - 1 : p.answers[i].for = "abort"
  <2>1. ASSUME NEW i \in 1 .. n, o.answers[i].for = "abort"
        PROVE  \E j \in 1 .. n - 1 : p.answers[j].for = "abort"
    <3>1. i # 1
      BY <1>7, <2>1
    <3>2. i - 1 \in 1 .. n - 1 /\ (i - 1) + 1 = i
      BY <3>1
    <3>3. p.answers[i - 1].for = "abort"
      BY <1>18, <2>1, <3>2
    <3> QED BY <3>2, <3>3
  <2> QED BY <1>2, <1>9, <1>15, <2>1
<1>21. Stale(e, p)
  <2>1. Len(p.answers) + Len(p.mail) = Len(e.outstanding) + (IF e.controls = {} THEN 0 ELSE 1)
    BY <1>8, <1>15, <1>16, <1>17
  <2>2. \A i \in 1 .. m :
           IF p.mail[i].op = "abort"
           THEN i = m /\ p.mail[i].for = "abort" /\ e.controls # {}
           ELSE p.mail[i].op = "write" /\ p.mail[i].for = "write"
    BY <1>2, <1>9, <1>15
  <2> QED BY <1>16, <1>19, <1>20, <2>1, <2>2 DEF Stale
<1>22. Ending(e, p)
  BY <1>2, <1>15, <1>21 DEF AbortPhase, Ending
<1>23. Known(e)
  BY <1>1, <1>15 DEF Known
<1> QED BY <1>2, <1>11, <1>14, <1>22, <1>23

LEMMA StaleDoneGood ==
    ASSUME NEW d, NEW o, Good(d, o), AbortPhase(d, o), o.answers # <<>>,
           NEW a, a = Head(o.answers), a.for = "write", NEW e, e = NotWaiting(d, a)
    PROVE  Settled(WriteDone(e, a), o)
<1>1. d \in DeviceRecord /\ o \in OwnerRecord
  BY DEF Good, Known
<1>2. d.gen = 2 /\ d.controls \in SUBSET {"abort"}
  BY DEF AbortPhase
<1>3. e = d
  <2>1. d.controls \ {a.for} = d.controls
    BY <1>2
  <2> QED BY <1>1, <2>1 DEF NotWaiting, DeviceRecord
<1>4. PICK w \in Write : w = Head(d.outstanding)
  BY StaleWriteTaken
<1>5. PICK g : g = Answered(d)
  OBVIOUS
<1>6. Known(g) /\ Ending(g, Taken(o))
  BY <1>5, StaleWriteTaken
<1>7. w.gen # d.gen
  BY <1>2 DEF Write
<1>8. WriteDone(e, a) = Result(Release(g), <<>>, <<>>)
  BY <1>3, <1>4, <1>5, <1>7 DEF WriteDone
<1>9. Good(Release(g), Taken(o))
  BY <1>1, <1>6, ReleaseGood, TakenIs
<1>10. <<>> \in Seq(FrameType)
  OBVIOUS
<1> QED BY <1>8, <1>9, <1>10, SettledBy

(* The abort that the card accepted has closed the upload; there is no     *)
(* second one.                                                             *)
LEMMA AbortTaken ==
    ASSUME NEW d, NEW o, Good(d, o), AbortPhase(d, o), o.answers # <<>>,
           NEW a, a = Head(o.answers), a.for = "abort",
           NEW e \in DeviceRecord, e.mode = d.mode, e.source = d.source, e.active = d.active,
           e.gen = d.gen, e.tombstone = d.tombstone, e.outstanding = d.outstanding,
           e.controls = {}, e.held \in SUBSET {"abort"}, e.held = {} => a.ok
    PROVE  Known(e) /\ Ending(e, Taken(o))
<1>1. d \in DeviceRecord /\ o \in OwnerRecord /\ Known(d)
  BY DEF Good, Known
<1>2. PICK p \in OwnerRecord :
         /\ p = Taken(o) /\ p.mail = o.mail /\ p.upload = o.upload
         /\ Len(p.answers) = Len(o.answers) - 1
         /\ \A j \in 1 .. Len(o.answers) - 1 : p.answers[j] = o.answers[j + 1]
  BY <1>1, TakenIs
<1>3. PICK n \in Nat : n = Len(o.answers) /\ n >= 1
  BY <1>1, TakenIs
<1>4. PICK m \in Nat : m = Len(o.mail)
  BY <1>1 DEF OwnerRecord
<1>5. PICK waited \in Nat : waited = Len(d.outstanding)
  BY <1>1 DEF DeviceRecord
<1>6. a = o.answers[1] /\ 1 \in 1 .. n
  BY <1>1, <1>3, TakenIs
<1>7. /\ d.controls # {} /\ (a.ok => o.upload = 0)
      /\ \A j \in 1 .. n : o.answers[j].for = "abort" => 1 = j
      /\ \A j \in 1 .. m : o.mail[j].op # "abort"
  BY <1>3, <1>4, <1>6 DEF AbortPhase, Stale
<1>8. /\ n + m = waited + 1
      /\ \A i \in 1 .. m :
            o.mail[i].op # "abort" => o.mail[i].op = "write" /\ o.mail[i].for = "write"
      /\ \A i \in 1 .. n : o.answers[i].for # "abort" => o.answers[i].for = "write"
  BY <1>3, <1>4, <1>5, <1>7 DEF AbortPhase, Stale
<1>9. (n - 1) + m = waited + 0
  BY <1>8
<1>10. ASSUME NEW i \in 1 .. n - 1
       PROVE  p.answers[i].for = "write"
  <2>1. i + 1 \in 1 .. n /\ i + 1 # 1 /\ p.answers[i] = o.answers[i + 1]
    BY <1>2, <1>3
  <2>2. o.answers[i + 1].for # "abort"
    BY <1>7, <2>1
  <2> QED BY <1>8, <2>1, <2>2
<1>11. \A i \in 1 .. m : p.mail[i].op = "write" /\ p.mail[i].for = "write"
  BY <1>2, <1>7, <1>8
<1>12. Len(p.answers) = n - 1 /\ Len(p.mail) = m
  BY <1>2, <1>3, <1>4
<1>13. Stale(e, p)
  <2>1. Len(p.answers) + Len(p.mail) = Len(e.outstanding) + (IF e.controls = {} THEN 0 ELSE 1)
    BY <1>5, <1>9, <1>12
  <2> QED BY <1>10, <1>11, <1>12, <2>1 DEF Stale
<1>14. Ending(e, p)
  BY <1>2, <1>7, <1>13 DEF AbortPhase, Ending
<1>15. Known(e)
  BY <1>1 DEF Known
<1> QED BY <1>2, <1>14, <1>15

LEMMA AbortDoneGood ==
    ASSUME NEW d, NEW o, Good(d, o), AbortPhase(d, o), o.answers # <<>>,
           NEW a, a = Head(o.answers), a.for = "abort", NEW e, e = NotWaiting(d, a)
    PROVE  Settled(AbortDone(e, a), o)
<1>1. d \in DeviceRecord /\ o \in OwnerRecord /\ "abort" \in Ops
  BY DEF Good, Known, Ops
<1>2. d.held \in SUBSET {"abort"} /\ d.controls \in SUBSET {"abort"}
  BY DEF AbortPhase
<1>3. PICK seq \in Nat : seq = d.replies.abort
  BY <1>1 DEF DeviceRecord
<1>4. PICK replies : replies = [d.replies EXCEPT !.abort = 0]
  OBVIOUS
<1>5. replies \in [open : Nat, finish : Nat, abort : Nat]
  BY <1>1, <1>4 DEF DeviceRecord
<1>6. e = [d EXCEPT !.controls = {}]
  <2>1. d.controls \ {a.for} = {}
    BY <1>2
  <2> QED BY <2>1 DEF NotWaiting
<1>7. /\ e \in DeviceRecord /\ e.replies = d.replies
      /\ e.mode = d.mode /\ e.source = d.source /\ e.active = d.active
      /\ e.gen = d.gen /\ e.tombstone = d.tombstone /\ e.outstanding = d.outstanding
      /\ e.controls = {} /\ e.held = d.held
  BY <1>1, <1>6 DEF DeviceRecord
<1>8. PICK g : g = [e EXCEPT !.replies = replies]
  OBVIOUS
<1>9. /\ g \in DeviceRecord
      /\ g.mode = d.mode /\ g.source = d.source /\ g.active = d.active
      /\ g.gen = d.gen /\ g.tombstone = d.tombstone /\ g.outstanding = d.outstanding
      /\ g.controls = {} /\ g.held = d.held
  <2>1. g \in DeviceRecord
    BY <1>5, <1>7, <1>8, ZenonT(60) DEF DeviceRecord
  <2>2. /\ g.mode = e.mode /\ g.source = e.source /\ g.active = e.active
        /\ g.gen = e.gen /\ g.tombstone = e.tombstone /\ g.outstanding = e.outstanding
        /\ g.controls = e.controls /\ g.held = e.held
    BY <1>7, <1>8 DEF DeviceRecord
  <2> QED BY <1>7, <2>1, <2>2
<1>10. g = [e EXCEPT !.replies.abort = 0] /\ e.replies.abort = seq
  BY <1>3, <1>4, <1>7, <1>8
<1>11. CASE a.ok
  <2>1. PICK h : h = [g EXCEPT !.held = {}, !.armed = FALSE]
    OBVIOUS
  <2>2. PICK frames : frames = IF seq # 0 THEN <<Reply("abort", seq, e)>> ELSE <<>>
    OBVIOUS
  <2>3. AbortDone(e, a) = Result(Release(h), frames, <<>>)
    <3>1. g.held \ {"abort"} = {}
      BY <1>2, <1>9
    <3> QED BY <1>10, <1>11, <2>1, <2>2, <3>1 DEF AbortDone
  <2>4. {} \in SUBSET {"open", "finish", "abort"} /\ FALSE \in BOOLEAN
    OBVIOUS
  <2>5. /\ h \in DeviceRecord
        /\ h.mode = d.mode /\ h.source = d.source /\ h.active = d.active
        /\ h.gen = d.gen /\ h.tombstone = d.tombstone /\ h.outstanding = d.outstanding
        /\ h.controls = {} /\ h.held = {}
    BY <1>9, <2>1, <2>4 DEF DeviceRecord
  <2>6. Known(h) /\ Ending(h, Taken(o))
    <3>1. {} \in SUBSET {"abort"}
      OBVIOUS
    <3> QED BY <1>11, <2>5, <3>1, AbortTaken
  <2>7. Good(Release(h), Taken(o))
    BY <1>1, <2>6, ReleaseGood, TakenIs
  <2>8. frames \in Seq(FrameType)
    BY <1>1, <1>7, <2>2, OneFrame
  <2> QED BY <2>3, <2>7, <2>8, SettledBy
<1>12. CASE ~ a.ok
  <2>1. PICK frames : frames = IF seq # 0 THEN <<BadRequest("abort", seq)>> ELSE <<>>
    OBVIOUS
  <2>2. AbortDone(e, a) = Result(g, frames, <<>>)
    BY <1>10, <1>12, <2>1 DEF AbortDone
  <2>3. d.held # {}
    <3>1. d.controls # {} /\ d.controls \in SUBSET d.held
      <4>1. a = o.answers[1] /\ 1 \in 1 .. Len(o.answers)
        BY <1>1, TakenIs
      <4> QED BY <4>1 DEF AbortPhase, Stale
    <3> QED BY <3>1
  <2>4. Known(g) /\ Ending(g, Taken(o))
    BY <1>2, <1>9, <2>3, AbortTaken
  <2>5. AbortPhase(g, Taken(o))
    BY <1>9, <2>3, <2>4 DEF Ending, AbortPhase
  <2>6. Good(g, Taken(o))
    BY <1>1, <2>4, <2>5, TakenIs DEF Good, Phase
  <2>7. frames \in Seq(FrameType)
    BY <1>1, <1>7, <2>1, OneFrame
  <2> QED BY <2>2, <2>6, <2>7, SettledBy
<1> QED BY <1>11, <1>12

LEMMA DeferredGood ==
    ASSUME NEW d, NEW o, Good(d, o)
    PROVE  Sound(Deferred(d), o)
<1>1. d \in DeviceRecord
  BY DEF Good, Known
<1>2. d.deferred.op \in {"none", "status", "finish"} /\ d.deferred.seq \in Nat /\ d.deferred.id \in Nat
  BY <1>1 DEF DeviceRecord
<1>3. PICK op : op = IF Pending(d) THEN "none" ELSE d.deferred.op
  OBVIOUS
<1>4. op \in {"none", "status", "finish"}
  BY <1>2, <1>3
<1>5. PICK e : e = [d EXCEPT !.deferred = NoRequest]
  OBVIOUS
<1>6. Good(e, o)
  <2>1. NoRequest \in [op : {"none", "status", "finish"}, seq : Nat, id : Nat]
    BY DEF NoRequest
  <2>2. e \in DeviceRecord
    BY <1>1, <1>5, <2>1 DEF DeviceRecord
  <2>3. /\ e.mode = d.mode /\ e.source = d.source /\ e.active = d.active /\ e.id = d.id
        /\ e.admitted = d.admitted /\ e.durable = d.durable /\ e.credits = d.credits
        /\ e.owed = d.owed /\ e.occupied = d.occupied /\ e.intact = d.intact /\ e.gen = d.gen
        /\ e.tombstone = d.tombstone /\ e.outstanding = d.outstanding
        /\ e.publishes = d.publishes /\ e.held = d.held /\ e.controls = d.controls
    BY <1>1, <1>5 DEF DeviceRecord
  <2> QED BY <2>2, <2>3, AlikeGood
<1>7. CASE op = "none"
  <2>1. Deferred(d) = Result(d, <<>>, <<>>)
    BY <1>3, <1>7 DEF Deferred
  <2>2. <<>> \in Seq(FrameType)
    OBVIOUS
  <2> QED BY <2>1, <2>2, AnswerOnly
<1>8. CASE op = "status"
  <2>1. Deferred(d) = Status(e, d.deferred.seq, d.deferred.id)
    BY <1>3, <1>5, <1>8 DEF Deferred
  <2> QED BY <1>2, <1>6, <2>1, StatusGood
<1>9. CASE op = "finish"
  <2>1. Deferred(d) = Finish(e, d.deferred.seq, d.deferred.id)
    BY <1>3, <1>5, <1>9 DEF Deferred
  <2> QED BY <1>2, <1>6, <2>1, FinishGood
<1> QED BY <1>4, <1>7, <1>8, <1>9

(* Every answer of the owner, in the phase that it arrives in.             *)
LEMMA CompleteGood ==
    ASSUME Good(device, owner), owner.answers # <<>>
    PROVE  Settled(Complete(Head(owner.answers)), owner)
<1>1. PICK a : a = Head(owner.answers)
  OBVIOUS
<1>2. PICK e : e = NotWaiting(device, a)
  OBVIOUS
<1>3. device \in DeviceRecord /\ owner \in OwnerRecord
  BY DEF Good, Known
<1>4. CASE OpenPhase(device, owner)
  <2>1. a.for = "open" /\ Settled(OpenDone(e, a), owner)
    BY <1>1, <1>2, <1>4, OpenDoneGood
  <2>2. Complete(a) = OpenDone(e, a)
    BY <1>2, <2>1 DEF Complete, NotWaiting
  <2> QED BY <1>1, <2>1, <2>2
<1>5. CASE ActivePhase(device, owner)
  <2>1. a.for = "write" /\ Settled(WriteDone(e, a), owner)
    BY <1>1, <1>2, <1>5, WriteDoneGood
  <2>2. Complete(a) = WriteDone(e, a)
    BY <1>2, <2>1 DEF Complete, NotWaiting
  <2> QED BY <1>1, <2>1, <2>2
<1>6. CASE FinishPhase(device, owner)
  <2>1. a.for = "finish" /\ Settled(FinishDone(e, a), owner)
    BY <1>1, <1>2, <1>6, FinishDoneGood
  <2>2. Complete(a) = FinishDone(e, a)
    BY <1>2, <2>1 DEF Complete, NotWaiting
  <2> QED BY <1>1, <2>1, <2>2
<1>7. CASE AbortPhase(device, owner)
  <2>1. a.for = "abort" \/ a.for = "write"
    <3>1. a = owner.answers[1] /\ 1 \in 1 .. Len(owner.answers)
      BY <1>1, <1>3, TakenIs
    <3> QED BY <1>7, <3>1 DEF AbortPhase, Stale
  <2>2. CASE a.for = "abort"
    <3>1. Settled(AbortDone(e, a), owner)
      BY <1>1, <1>2, <1>7, <2>2, AbortDoneGood
    <3>2. Complete(a) = AbortDone(e, a)
      BY <1>2, <2>2 DEF Complete, NotWaiting
    <3> QED BY <1>1, <3>1, <3>2
  <2>3. CASE a.for = "write"
    <3>1. Settled(WriteDone(e, a), owner)
      BY <1>1, <1>2, <1>7, <2>3, StaleDoneGood
    <3>2. Complete(a) = WriteDone(e, a)
      BY <1>2, <2>3 DEF Complete, NotWaiting
    <3> QED BY <1>1, <3>1, <3>2
  <2> QED BY <2>1, <2>2, <2>3
<1>8. ~ IdlePhase(device, owner)
  BY DEF IdlePhase
<1> QED BY <1>4, <1>5, <1>6, <1>7, <1>8 DEF Good, Phase

(***************************************************************************)
(* The steps of the device.                                                *)
(***************************************************************************)
\* A step of the device keeps what is said of it and of the owner.
DeviceKept ==
    Good(device', owner') /\ UNCHANGED <<host, shelf, changed>>

LEMMA HandleFrameGood ==
    ASSUME HostInv, Good(device, owner), HandleFrame
    PROVE  HostInv' /\ DeviceKept
<1>1. /\ HostSide /\ toDevice \in Seq(Sent) /\ toDevice # <<>>
      /\ toHost \in Seq(FrameType) /\ tx \in Seq(FrameType)
      /\ UNCHANGED <<host, shelf, changed>> /\ toDevice' = Tail(toDevice) /\ tx' = <<>>
  BY DEF HostInv, HostSide, HandleFrame
<1>2. PICK f : f = Head(toDevice)
  OBVIOUS
<1>3. f = toDevice[1] /\ 1 \in 1 .. Len(toDevice)
  BY <1>1, <1>2
<1>4. Heard(f)
  BY <1>1, <1>3 DEF HostSide, Heard
<1>5. PICK r : r = Dispatch(device, f)
  OBVIOUS
<1>6. Sound(r, owner)
  BY <1>4, <1>5, DispatchGood
<1>7. /\ device' = r.device /\ owner' = Extended(owner, r.requests)
      /\ toHost' = toHost \o (IF r.frames # <<>> THEN r.frames ELSE tx)
  BY <1>2, <1>5 DEF HandleFrame, Extended
<1>8. Good(device', owner') /\ r.frames \in Seq(FrameType)
  BY <1>6, <1>7 DEF Sound
<1>9. toHost' \in Seq(FrameType) /\ tx' \in Seq(FrameType)
  <2>1. PICK frames \in Seq(FrameType) : frames = IF r.frames # <<>> THEN r.frames ELSE tx
    BY <1>1, <1>8
  <2>2. toHost' = toHost \o frames
    BY <1>7, <2>1
  <2>3. <<>> \in Seq(FrameType)
    OBVIOUS
  <2> QED BY <1>1, <2>2, <2>3, ConcatType
<1>10. HostSide'
  <2>1. /\ toDevice' \in Seq(Sent) /\ Len(toDevice') = Len(toDevice) - 1
        /\ \A i \in 1 .. Len(toDevice) - 1 : toDevice'[i] = toDevice[i + 1]
    BY <1>1
  <2> QED BY <1>1, <2>1 DEF HostSide
<1> QED BY <1>1, <1>8, <1>9, <1>10 DEF HostInv, DeviceKept

LEMMA TransmitGood ==
    ASSUME HostInv, Good(device, owner), Transmit
    PROVE  HostInv' /\ DeviceKept
<1>1. /\ toHost \in Seq(FrameType) /\ tx \in Seq(FrameType) /\ toHost' = toHost \o tx
      /\ tx' = <<>> /\ UNCHANGED <<host, toDevice, device, owner, shelf, changed>>
  BY DEF HostInv, Transmit
<1>2. toHost' \in Seq(FrameType)
  BY <1>1, ConcatType
<1>3. <<>> \in Seq(FrameType)
  OBVIOUS
<1>4. HostSide'
  BY <1>1 DEF HostInv, HostSide
<1> QED BY <1>1, <1>2, <1>3, <1>4 DEF HostInv, DeviceKept

LEMMA HandleOwnerGood ==
    ASSUME HostInv, Good(device, owner), HandleOwner
    PROVE  HostInv' /\ DeviceKept
<1>1. owner.answers # <<>> /\ UNCHANGED <<host, toDevice, toHost, shelf, changed>>
  BY DEF HandleOwner
<1>2. PICK r : r = Complete(Head(owner.answers))
  OBVIOUS
<1>3. Good(r.device, Taken(owner)) /\ r.frames \in Seq(FrameType)
  BY <1>1, <1>2, CompleteGood DEF Settled
<1>4. PICK s : s = Deferred(r.device)
  OBVIOUS
<1>5. Good(s.device, Extended(Taken(owner), s.requests)) /\ s.frames \in Seq(FrameType)
  BY <1>3, <1>4, DeferredGood DEF Sound
<1>6. /\ device' = s.device
      /\ owner' = [owner EXCEPT !.answers = Tail(@), !.mail = @ \o s.requests]
      /\ tx' = IF s.frames # <<>> THEN s.frames ELSE r.frames
  BY <1>2, <1>4 DEF HandleOwner
<1>7. owner' = Extended(Taken(owner), s.requests)
  BY <1>6 DEF Extended, Taken, Good, OwnerRecord
<1>8. tx' \in Seq(FrameType)
  BY <1>3, <1>5, <1>6
<1>9. HostSide' /\ toHost' \in Seq(FrameType)
  BY <1>1 DEF HostInv, HostSide
<1> QED BY <1>1, <1>5, <1>6, <1>7, <1>8, <1>9 DEF HostInv, DeviceKept

LEMMA ExpireIdleGood ==
    ASSUME HostInv, Good(device, owner), ExpireIdle
    PROVE  HostInv' /\ DeviceKept
<1>1. device \in DeviceRecord /\ UNCHANGED <<host, wires, shelf, changed>>
  BY DEF Good, Known, ExpireIdle
<1>2. PICK id \in Nat : id = IF device.active THEN device.id ELSE device.tombstone
  BY <1>1 DEF DeviceRecord
<1>3. PICK r : r = Abort(device, id)
  OBVIOUS
<1>4. Abortable(device, id)
  BY <1>2 DEF ExpireIdle
<1>5. Good(r.device, Extended(owner, r.requests)) /\ r.device \in DeviceRecord
  BY <1>3, <1>4, AbortGood DEF Sound
<1>6. device' = [r.device EXCEPT !.armed = FALSE] /\ owner' = Extended(owner, r.requests)
  BY <1>2, <1>3 DEF ExpireIdle, Extended
<1>7. Good(device', owner')
  <2>1. PICK e : e = device'
    OBVIOUS
  <2>2. FALSE \in BOOLEAN
    OBVIOUS
  <2>3. e \in DeviceRecord
    BY <1>5, <1>6, <2>1, <2>2 DEF DeviceRecord
  <2>4. /\ e.mode = r.device.mode /\ e.source = r.device.source /\ e.active = r.device.active
        /\ e.id = r.device.id /\ e.admitted = r.device.admitted /\ e.durable = r.device.durable
        /\ e.credits = r.device.credits /\ e.owed = r.device.owed
        /\ e.occupied = r.device.occupied /\ e.intact = r.device.intact /\ e.gen = r.device.gen
        /\ e.tombstone = r.device.tombstone /\ e.outstanding = r.device.outstanding
        /\ e.publishes = r.device.publishes /\ e.held = r.device.held
        /\ e.controls = r.device.controls
    BY <1>5, <1>6, <2>1 DEF DeviceRecord
  <2>5. Good(e, Extended(owner, r.requests))
    BY <1>5, <2>3, <2>4, AlikeGood
  <2> QED BY <1>6, <2>1, <2>5
<1>8. HostInv'
  BY <1>1 DEF HostInv, HostSide, wires
<1> QED BY <1>1, <1>7, <1>8 DEF DeviceKept

(***************************************************************************)
(* The invariant.                                                          *)
(***************************************************************************)
LEMMA DeviceKeeps ==
    ASSUME ShelfInv, DeviceKept
    PROVE  Good(device, owner)' /\ ShelfInv'
<1>1. Good(device', owner') /\ UNCHANGED <<host, shelf, changed>>
  BY DEF DeviceKept
<1>2. Known(device') => Known(device)'
  BY <1>1 DEF Known
<1>3. Phase(device', owner') => Phase(device, owner)'
  BY <1>1 DEF Phase, IdlePhase, OpenPhase, ActivePhase, Writes, WritesOf, FinishPhase,
              AbortPhase, Stale, Whole
<1>4. Good(device, owner)'
  BY <1>1, <1>2, <1>3 DEF Good
<1>5. ShelfInv'
  BY <1>1 DEF ShelfInv
<1> QED BY <1>4, <1>5

(* A new session of the host does not reach the stream of an older one.    *)
LEMMA HostKeeps ==
    ASSUME HostInv, Good(device, owner), ShelfInv, HostMoves
    PROVE  HostInv' /\ Good(device, owner)' /\ ShelfInv'
<1>1. /\ HostInv' /\ UNCHANGED <<device, owner, shelf>>
      /\ changed' \in {changed, changed \cup {host.session + 1}}
  BY HostMovesSoundly
<1>2. PICK old \in Nat : old = host.session
  BY HostMovesSoundly
<1>3. PICK new \in Nat : new = host'.session
  BY <1>1 DEF HostInv, HostSide, HostType
<1>4. new >= old
  BY <1>2, <1>3, HostMovesSoundly
<1>5. \A s \in 1 .. old : s \in 1 .. new /\ (s \in changed' => s \in changed)
  <2>1. \A s \in 1 .. old : s \in 1 .. new /\ s # old + 1
    BY <1>4
  <2> QED BY <1>1, <1>2, <2>1
<1>6. Known(device)'
  BY <1>1, <1>2, <1>3, <1>5 DEF Good, Known
<1>7. ShelfInv'
  <2>1. ASSUME NEW b \in shelf
        PROVE  \E s \in 1 .. new : s \notin changed' /\ b.file = Whole(s)
    <3>1. PICK s \in 1 .. old : s \notin changed /\ b.file = Whole(s)
      BY <1>2, <2>1 DEF ShelfInv
    <3> QED BY <1>5, <3>1
  <2> QED BY <1>1, <1>3, <2>1 DEF ShelfInv, Whole
<1>8. Phase(device, owner)'
  <2>1. CASE FinishPhase(device, owner)
    <3>1. device.publishes => device.source \notin changed'
      <4>1. device.source \in 1 .. old
        BY <1>2, <2>1 DEF Good, Known, FinishPhase
      <4> QED BY <1>5, <2>1, <4>1 DEF FinishPhase
    <3>2. FinishPhase(device, owner)'
      BY <1>1, <2>1, <3>1 DEF FinishPhase, Whole
    <3> QED BY <3>2 DEF Phase
  <2>2. CASE IdlePhase(device, owner)
    BY <1>1, <2>2 DEF Phase, IdlePhase
  <2>3. CASE OpenPhase(device, owner)
    BY <1>1, <2>3 DEF Phase, OpenPhase
  <2>4. CASE ActivePhase(device, owner)
    BY <1>1, <2>4 DEF Phase, ActivePhase, Writes, WritesOf
  <2>5. CASE AbortPhase(device, owner)
    BY <1>1, <2>5 DEF Phase, AbortPhase, Stale
  <2> QED BY <2>1, <2>2, <2>3, <2>4, <2>5 DEF Good, Phase
<1>9. owner' \in OwnerRecord
  BY <1>1 DEF Good
<1> QED BY <1>1, <1>6, <1>7, <1>8, <1>9 DEF Good

LEMMA OwnerKeeps ==
    ASSUME HostInv, Good(device, owner), ShelfInv, OwnerStep
    PROVE  HostInv' /\ Good(device, owner)' /\ ShelfInv'
<1>1. Good(device, owner') /\ ShelfInv' /\ UNCHANGED <<host, wires, device, changed>>
  BY OwnerStepGood
<1>2. HostInv'
  BY <1>1 DEF HostInv, HostSide, wires
<1>3. Known(device)' /\ owner' \in OwnerRecord
  BY <1>1 DEF Good, Known
<1>4. Phase(device, owner') => Phase(device, owner)'
  BY <1>1 DEF Phase, IdlePhase, OpenPhase, ActivePhase, Writes, WritesOf, FinishPhase,
              AbortPhase, Stale, Whole
<1> QED BY <1>1, <1>2, <1>3, <1>4 DEF Good

LEMMA BulkInitially ==
    ASSUME Init
    PROVE  BulkInv
<1>1. 0 \in 0 .. MaxSessions /\ 0 \in 0 .. Chunks /\ 0 \in Nat /\ 1 \in Nat \ {0}
  BY ConstantsAssumption
<1>2. /\ <<>> \in Seq(Sent) /\ <<>> \in Seq(FrameType) /\ <<>> \in Seq(OwnerRequest)
      /\ <<>> \in Seq(OwnerAnswer) /\ Len(<<>>) = 0
  OBVIOUS
<1>3. HostInv
  <2>1. host \in HostType /\ host.pc = "idle"
    BY <1>1 DEF Init, Idling, HostType, Places
  <2> QED BY <1>2, <2>1 DEF Init, HostInv, HostSide, Waiting
<1>4. owner \in OwnerRecord
  <2>1. NoFile \in [0 .. Chunks - 1 -> 0 .. MaxSessions]
    BY <1>1 DEF NoFile
  <2> QED BY <1>1, <1>2, <2>1 DEF Init, OwnerRecord
<1>5. /\ device \in DeviceRecord /\ device.mode = "idle" /\ device.active = FALSE
      /\ device.outstanding = <<>> /\ device.controls = {} /\ device.held = {}
  <2>1. PICK e : e = [Opening(0, 0) EXCEPT !.mode = "idle", !.held = {}, !.controls = {},
                                          !.deferred = NoRequest, !.armed = FALSE]
    OBVIOUS
  <2>2. device = e
    BY <2>1 DEF Init, Idle
  <2>3. NoRequest \in [op : {"none", "status", "finish"}, seq : Nat, id : Nat]
    BY DEF NoRequest
  <2>4. <<>> \in Seq(Write) /\ {} \in SUBSET {"open", "finish", "abort"}
        /\ [open |-> 0, finish |-> 0, abort |-> 0] \in [open : Nat, finish : Nat, abort : Nat]
    OBVIOUS
  <2>5. e \in DeviceRecord
    BY <1>1, <2>1, <2>3, <2>4 DEF Opening, DeviceRecord
  <2>6. /\ e.mode = "idle" /\ e.active = FALSE /\ e.outstanding = <<>> /\ e.controls = {}
        /\ e.held = {}
    BY <2>1 DEF Opening
  <2> QED BY <2>2, <2>5, <2>6
<1>6. IdlePhase(device, owner)
  BY <1>5 DEF Init, IdlePhase
<1>7. ShelfInv
  BY DEF Init, ShelfInv
<1> QED BY <1>3, <1>4, <1>5, <1>6, <1>7 DEF BulkInv, Good, Known, Phase

(* Whatever is lost, late, killed or refused, the stream, its owner and    *)
(* the shelf stay in step.                                                 *)
THEOREM StreamInStep == Spec => []BulkInv
<1>1. Init => BulkInv
  BY BulkInitially
<1>2. BulkInv /\ [Next]_vars => BulkInv'
  <2> SUFFICES ASSUME BulkInv, [Next]_vars PROVE BulkInv'
    OBVIOUS
  <2>1. HostInv /\ Good(device, owner) /\ ShelfInv
    BY DEF BulkInv
  <2>2. CASE HostMoves
    BY <2>1, <2>2, HostKeeps DEF BulkInv
  <2>3. CASE HandleFrame
    BY <2>1, <2>3, HandleFrameGood, DeviceKeeps DEF BulkInv
  <2>4. CASE Transmit
    BY <2>1, <2>4, TransmitGood, DeviceKeeps DEF BulkInv
  <2>5. CASE HandleOwner
    BY <2>1, <2>5, HandleOwnerGood, DeviceKeeps DEF BulkInv
  <2>6. CASE ExpireIdle
    BY <2>1, <2>6, ExpireIdleGood, DeviceKeeps DEF BulkInv
  <2>7. CASE OwnerStep
    BY <2>1, <2>7, OwnerKeeps DEF BulkInv
  <2>8. CASE UNCHANGED vars
    <3>1. UNCHANGED <<host, device, owner, shelf, changed, toDevice, toHost, tx>>
      BY <2>8 DEF vars, wires
    <3>2. HostInv'
      BY <2>1, <3>1 DEF HostInv, HostSide
    <3>3. DeviceKept
      BY <2>1, <3>1 DEF DeviceKept
    <3> QED BY <2>1, <3>2, <3>3, DeviceKeeps DEF BulkInv
  <2> QED BY <2>2, <2>3, <2>4, <2>5, <2>6, <2>7, <2>8 DEF Next, DeviceStep, HostMoves
<1> QED BY <1>1, <1>2, PTL DEF Spec

(* Whatever was lost, sent again or left behind by an aborted stream: a    *)
(* published file is all of one session's file, the one that was measured. *)
THEOREM PublishedFilesAreWhole == Spec => []PublishedWhole
<1>1. BulkInv => PublishedWhole
  <2> SUFFICES ASSUME BulkInv, NEW b \in shelf
               PROVE  \E s \in 1 .. MaxSessions :
                         s \notin changed /\ b.file = [k \in 0 .. Chunks - 1 |-> s]
    BY DEF PublishedWhole
  <2>1. PICK s \in 1 .. host.session : s \notin changed /\ b.file = Whole(s)
    BY DEF BulkInv, ShelfInv
  <2>2. host.session \in 0 .. MaxSessions
    BY DEF BulkInv, HostInv, HostSide, HostType
  <2>3. s \in 1 .. MaxSessions
    BY <2>2, ConstantsAssumption
  <2> QED BY <2>1, <2>3 DEF Whole
<1> QED BY <1>1, StreamInStep, PTL

(* No credit is lost or made, no upload of the owner outlives its stream,  *)
(* and no slot is kept when nothing more can come.                         *)
THEOREM NothingIsLost == Spec => []NothingLost
<1>1. BulkInv => NothingLost
  <2> SUFFICES ASSUME BulkInv PROVE NothingLost
    OBVIOUS
  <2>1. Phase(device, owner) /\ device \in DeviceRecord
    BY DEF BulkInv, Good, Known
  <2>2. CreditsConserved
    BY <2>1 DEF CreditsConserved, Phase, IdlePhase, OpenPhase, ActivePhase, FinishPhase, AbortPhase
  <2>3. NoOrphan
    BY <2>1 DEF NoOrphan, Phase, IdlePhase, OpenPhase, ActivePhase, FinishPhase, AbortPhase
  <2>4. SlotsReleased
    BY <2>1 DEF SlotsReleased, Pending, Phase, IdlePhase, OpenPhase, ActivePhase, FinishPhase, AbortPhase
  <2> QED BY <2>2, <2>3, <2>4 DEF NothingLost
<1> QED BY <1>1, StreamInStep, PTL

(***************************************************************************)
(* What the host is told.                                                  *)
(***************************************************************************)
Published(id) == \E b \in shelf : b.id = id
Unpublished(id) == \A b \in shelf : b.id # id
Filled(o, n) == \A k \in 0 .. Chunks - 1 : k < n => o.file[k] # 0

\* No chunk of the upload has been sent to the owner o.
Untouched(o, id) ==
    /\ o.upload = id => o.file = NoFile
    /\ \A i \in 1 .. Len(o.mail) : o.mail[i].op = "write" => o.mail[i].id # id

\* An upload that is over stays over, because no id is given twice.
Closed(o, id) == id # 0 /\ o.upload # id /\ Unpublished(id)

Announces(f) == f.op = "open" /\ f.ok

\* What a frame tells its host is true, for as long as it is on the way.
FrameTrue(f, o) ==
    /\ f.id < o.nextId /\ (f.op = "credit" => f.ok)
    /\ f.ok =>
        /\ f.op = "open" => f.id # 0 /\ f.id # host.stream /\ Untouched(o, f.id)
        /\ f.op \in {"credit", "status"} => f.id # 0 /\ (o.upload = f.id => Filled(o, f.durable))
        /\ f.op = "finish" /\ f.value = 1 => Published(f.id)
        /\ f.op = "abort" => Closed(o, f.id)

\* An upload that is not announced yet has no frames.
Quiet(f, d, o) == "open" \in d.held /\ o.upload # 0 => f.id # o.upload

Honest(frames, d, o) ==
    \A k \in 1 .. Len(frames) : FrameTrue(frames[k], o) /\ Quiet(frames[k], d, o)

\* An upload is announced once, so that only one session ever has it.
Once(s, t) ==
    /\ Len(t) <= 1
    /\ \A j \in 1 .. Len(s) : Announces(s[j]) =>
          /\ \A k \in 1 .. Len(s) : j # k /\ Announces(s[k]) => s[j].id # s[k].id
          /\ \A k \in 1 .. Len(t) : Announces(t[k]) => s[j].id # t[k].id

\* What the device d knows of the upload that the owner o has.
DeviceTrue(d, o) ==
    /\ d.id < o.nextId /\ d.tombstone \in {0, d.id}
    /\ "open" \in d.held => d.id = 0 /\ (o.upload # 0 => o.upload # host.stream /\ o.file = NoFile)
    /\ d.mode = "upload" /\ "finish" \notin d.held => Unpublished(d.id) /\ Unpublished(o.upload)
    /\ "finish" \in d.held => d.id # 0
    /\ "finish" \in d.held /\ d.publishes =>
          \A i \in 1 .. Len(o.answers) : o.answers[i].ok => Published(d.id)
    /\ d.active => Filled(o, d.durable)

\* The writes on their way; those of the host's stream are its own.
MailTrue(o) ==
    \A i \in 1 .. Len(o.mail) : o.mail[i].op = "write" =>
        /\ o.mail[i].id # 0 /\ o.mail[i].source # 0
        /\ o.mail[i].id = host.stream => o.mail[i].source = host.session

OwnerTrue(o) ==
    /\ o.upload < o.nextId /\ \A b \in shelf : b.id \in Nat \ {0} /\ b.id < o.nextId
    /\ MailTrue(o)
    /\ o.upload = host.stream /\ host.stream # 0 =>
          /\ \A k \in 0 .. Chunks - 1 : o.file[k] \in {0, host.session}
          /\ Filled(o, host.durable)

HostTrue(o) ==
    /\ host.stream < o.nextId
    /\ host.durable <= host.sent
    /\ host.stream = 0 \/ host.pc = "opening" => host.durable = 0
    /\ host.pc = "done" => Published(host.stream)
    /\ host.pc = "failed" /\ host.confirmed => Closed(o, host.stream)
    /\ \A i \in 1 .. Len(toDevice) : toDevice[i].op = "data" =>
          host.pc # "opening" /\ toDevice[i].source = host.session /\ toDevice[i].id = host.stream

TruthInv ==
    /\ DeviceTrue(device, owner) /\ OwnerTrue(owner) /\ HostTrue(owner)
    /\ Honest(toHost, device, owner) /\ Honest(tx, device, owner) /\ Once(toHost, tx)

\* The same upload, with requests that tell nothing new to a stream which is
\* not the host's.
SameUpload(o, p) ==
    /\ p.upload = o.upload /\ p.nextId = o.nextId /\ p.file = o.file
    /\ \A id \in Nat : id # host.stream /\ Untouched(o, id) => Untouched(p, id)

LEMMA FrameStays ==
    ASSUME NEW o, NEW p, SameUpload(o, p), NEW f \in FrameType, FrameTrue(f, o)
    PROVE  FrameTrue(f, p)
<1>1. f.id \in Nat
  BY DEF FrameType
<1> QED BY <1>1 DEF FrameTrue, SameUpload, Filled, Closed

LEMMA RefusalTrue ==
    ASSUME NEW o \in OwnerRecord, NEW op, op # "credit", NEW seq
    PROVE  /\ FrameTrue(BadRequest(op, seq), o) /\ BadRequest(op, seq).id = 0
           /\ ~ Announces(BadRequest(op, seq))
<1>1. 0 < o.nextId
  BY DEF OwnerRecord
<1> QED BY <1>1 DEF FrameTrue, BadRequest, Frame, Announces

(***************************************************************************)
(* What a handler promises: it tells the truth, and announces only the     *)
(* upload that is not announced yet.                                       *)
(***************************************************************************)
FrameTold(f, d, e, p) ==
    /\ FrameTrue(f, p) /\ Quiet(f, e, p)
    /\ Announces(f) => "open" \in d.held /\ p.upload # 0 /\ f.id = p.upload

ToldBy(e, frames, d, o, p) ==
    /\ DeviceTrue(e, p) /\ MailTrue(p) /\ SameUpload(o, p)
    /\ "open" \in e.held /\ p.upload # 0 => "open" \in d.held
    /\ Len(frames) <= 1
    /\ \A k \in 1 .. Len(frames) : FrameTold(frames[k], d, e, p)

Told(r, d, o) == ToldBy(r.device, r.frames, d, o, Extended(o, r.requests))

LEMMA NothingTold ==
    ASSUME NEW o \in OwnerRecord, MailTrue(o), NEW d, NEW e, DeviceTrue(e, o),
           "open" \in e.held /\ o.upload # 0 => "open" \in d.held
    PROVE  Told(Result(e, <<>>, <<>>), d, o)
<1>1. Extended(o, <<>>) = o
  BY NothingAdded
<1>2. Len(<<>>) = 0 /\ SameUpload(o, o)
  BY DEF SameUpload
<1>3. ToldBy(e, <<>>, d, o, o)
  BY <1>2 DEF ToldBy
<1> QED BY <1>1, <1>3 DEF Told, Result

LEMMA FrameIsTold ==
    ASSUME NEW o \in OwnerRecord, MailTrue(o), NEW d, NEW e, DeviceTrue(e, o),
           "open" \in e.held /\ o.upload # 0 => "open" \in d.held,
           NEW f, FrameTold(f, d, e, o)
    PROVE  Told(Result(e, <<f>>, <<>>), d, o)
<1>1. Extended(o, <<>>) = o
  BY NothingAdded
<1>2. Len(<<f>>) = 1 /\ <<f>>[1] = f /\ SameUpload(o, o)
  BY DEF SameUpload
<1>3. ToldBy(e, <<f>>, d, o, o)
  BY <1>2 DEF ToldBy
<1> QED BY <1>1, <1>3 DEF Told, Result

LEMMA RefusalTold ==
    ASSUME NEW o \in OwnerRecord, MailTrue(o), NEW d, NEW e, DeviceTrue(e, o),
           "open" \in e.held /\ o.upload # 0 => "open" \in d.held,
           NEW op, op # "credit", NEW seq
    PROVE  Told(Result(e, <<BadRequest(op, seq)>>, <<>>), d, o)
<1>1. FrameTold(BadRequest(op, seq), d, e, o)
  BY RefusalTrue DEF FrameTold, Quiet
<1> QED BY <1>1, FrameIsTold

\* What is known of the device depends on these fields.
LEMMA DeviceAlike ==
    ASSUME NEW d, NEW o, DeviceTrue(d, o), NEW e, NEW p,
           e.id = d.id, e.tombstone = d.tombstone, e.held = d.held, e.mode = d.mode,
           e.publishes = d.publishes, e.active = d.active, e.durable = d.durable,
           p.nextId = o.nextId, p.upload = o.upload, p.file = o.file, p.answers = o.answers
    PROVE  DeviceTrue(e, p)
BY DEF DeviceTrue, Filled

LEMMA RequestAdded ==
    ASSUME NEW o \in OwnerRecord, NEW q \in OwnerRequest, MailTrue(o),
           q.op = "write" => /\ q.id # 0 /\ q.source # 0 /\ q.id = host.stream
                             /\ q.source = host.session
    PROVE  /\ Extended(o, <<q>>).nextId = o.nextId /\ Extended(o, <<q>>).upload = o.upload
           /\ Extended(o, <<q>>).file = o.file /\ Extended(o, <<q>>).answers = o.answers
           /\ MailTrue(Extended(o, <<q>>)) /\ SameUpload(o, Extended(o, <<q>>))
<1>1. PICK p \in OwnerRecord :
         /\ p = Extended(o, <<q>>) /\ p.upload = o.upload /\ p.file = o.file
         /\ p.answers = o.answers /\ Len(p.mail) = Len(o.mail) + 1
         /\ p.mail[Len(o.mail) + 1] = q
         /\ \A j \in 1 .. Len(o.mail) : p.mail[j] = o.mail[j]
  BY OneAdded
<1>2. PICK n \in Nat : n = Len(o.mail)
  BY DEF OwnerRecord
<1>3. p.nextId = o.nextId
  BY <1>1 DEF Extended, OwnerRecord
<1>4. ASSUME NEW i \in 1 .. n + 1
      PROVE  p.mail[i] = IF i = n + 1 THEN q ELSE o.mail[i]
  <2>1. i # n + 1 => i \in 1 .. n
    OBVIOUS
  <2> QED BY <1>1, <1>2, <2>1
<1>5. \A i \in 1 .. n + 1 : i # n + 1 => i \in 1 .. n
  OBVIOUS
<1>6. MailTrue(p)
  BY <1>1, <1>2, <1>4, <1>5 DEF MailTrue
<1>7. ASSUME NEW id \in Nat, id # host.stream, Untouched(o, id)
      PROVE  Untouched(p, id)
  BY <1>1, <1>2, <1>4, <1>5, <1>7 DEF Untouched
<1> QED BY <1>1, <1>3, <1>6, <1>7 DEF SameUpload

LEMMA RequestTold ==
    ASSUME NEW o \in OwnerRecord, NEW q \in OwnerRequest, MailTrue(o),
           q.op = "write" => /\ q.id # 0 /\ q.source # 0 /\ q.id = host.stream
                             /\ q.source = host.session,
           NEW d, NEW e, DeviceTrue(e, o), "open" \in e.held /\ o.upload # 0 => "open" \in d.held
    PROVE  Told(Result(e, <<>>, <<q>>), d, o)
<1>1. PICK p : p = Extended(o, <<q>>)
  OBVIOUS
<1>2. /\ p.nextId = o.nextId /\ p.upload = o.upload /\ p.file = o.file /\ p.answers = o.answers
      /\ MailTrue(p) /\ SameUpload(o, p)
  BY <1>1, RequestAdded
<1>3. DeviceTrue(e, p)
  BY <1>2, DeviceAlike
<1>4. Len(<<>>) = 0
  OBVIOUS
<1>5. ToldBy(e, <<>>, d, o, p)
  BY <1>2, <1>3, <1>4 DEF ToldBy
<1> QED BY <1>1, <1>5 DEF Told, Result

(***************************************************************************)
(* The frames of the host, again.                                          *)
(***************************************************************************)
\* What the host sends is of its session and, once it has one, of its stream.
Meant(f) == f.op = "data" => f.source = host.session /\ f.id = host.stream

LEMMA OpenTold ==
    ASSUME NEW d, NEW o, Good(d, o), DeviceTrue(d, o), OwnerTrue(o), NEW f, Heard(f), f.op = "open"
    PROVE  Told(Open(d, f), d, o)
<1>1. d \in DeviceRecord /\ o \in OwnerRecord /\ MailTrue(o) /\ f \in Sent
  BY DEF Good, Known, OwnerTrue, Heard
<1>2. CASE d.mode # "idle"
  BY <1>1, <1>2, RefusalTold DEF Open
<1>3. CASE d.mode = "idle"
  <2>1. PICK e : e = [Opening(f.source, f.seq) EXCEPT !.deferred = d.deferred, !.armed = d.armed]
    OBVIOUS
  <2>2. PICK q : q = Request("begin", "open", 0, 0, f.source)
    OBVIOUS
  <2>3. Open(d, f) = Result(e, <<>>, <<q>>)
    BY <1>3, <2>1, <2>2 DEF Open
  <2>4. q \in OwnerRequest /\ q.op = "begin"
    BY <1>1, <2>2 DEF Request, OwnerRequest, Sent
  <2>5. /\ e.mode = "upload" /\ e.active = FALSE /\ e.held = {"open"} /\ e.tombstone = 0
        /\ e.id = 0 /\ e.publishes = FALSE
    BY <2>1 DEF Opening
  <2>6. o.upload = 0
    BY <1>3 DEF Good, Phase, IdlePhase, OpenPhase, ActivePhase, FinishPhase, AbortPhase
  <2>7. Unpublished(0) /\ 0 < o.nextId
    BY <1>1 DEF OwnerTrue, Unpublished, OwnerRecord
  <2>8. DeviceTrue(e, o)
    BY <2>5, <2>6, <2>7 DEF DeviceTrue
  <2> QED BY <1>1, <2>3, <2>4, <2>6, <2>8, RequestTold
<1> QED BY <1>2, <1>3

LEMMA DeferTold ==
    ASSUME NEW d, NEW o, Good(d, o), DeviceTrue(d, o), MailTrue(o), NEW f, f.op # "credit"
    PROVE  Told(Defer(d, f), d, o)
<1>1. d \in DeviceRecord /\ o \in OwnerRecord
  BY DEF Good, Known
<1>2. CASE d.deferred # NoRequest
  BY <1>1, <1>2, RefusalTold DEF Defer
<1>3. CASE d.deferred = NoRequest
  <2>1. PICK e : e = [d EXCEPT !.deferred = [op |-> f.op, seq |-> f.seq, id |-> f.id]]
    OBVIOUS
  <2>2. Defer(d, f) = Result(e, <<>>, <<>>)
    BY <1>3, <2>1 DEF Defer
  <2>3. /\ e.id = d.id /\ e.tombstone = d.tombstone /\ e.held = d.held /\ e.mode = d.mode
        /\ e.publishes = d.publishes /\ e.active = d.active /\ e.durable = d.durable
    BY <1>1, <2>1 DEF DeviceRecord
  <2>4. DeviceTrue(e, o)
    BY <2>3, DeviceAlike
  <2> QED BY <1>1, <2>2, <2>3, <2>4, NothingTold
<1> QED BY <1>2, <1>3

\* A status counts what is on the card.
LEMMA StatusTold ==
    ASSUME NEW d, NEW o, Good(d, o), DeviceTrue(d, o), MailTrue(o), NEW seq, NEW id
    PROVE  Told(Status(d, seq, id), d, o)
<1>1. d \in DeviceRecord /\ o \in OwnerRecord
  BY DEF Good, Known
<1>2. CASE ~ (d.mode = "upload" /\ d.active /\ id = d.id /\ d.occupied = 0)
  BY <1>1, <1>2, RefusalTold DEF Status
<1>3. CASE d.mode = "upload" /\ d.active /\ id = d.id /\ d.occupied = 0
  <2>1. PICK e : e = [d EXCEPT !.owed = 0, !.credits = Window]
    OBVIOUS
  <2>2. Status(d, seq, id) = Result(e, <<Reply("status", seq, d)>>, <<>>)
    BY <1>3, <2>1 DEF Status
  <2>3. /\ e.id = d.id /\ e.tombstone = d.tombstone /\ e.held = d.held /\ e.mode = d.mode
        /\ e.publishes = d.publishes /\ e.active = d.active /\ e.durable = d.durable
    BY <1>1, <2>1 DEF DeviceRecord
  <2>4. DeviceTrue(e, o)
    BY <2>3, DeviceAlike
  <2>5. d.id # 0 /\ d.held = {}
    BY <1>3 DEF Good, Phase, IdlePhase, OpenPhase, ActivePhase, FinishPhase, AbortPhase
  <2>6. PICK f : f = Reply("status", seq, d)
    OBVIOUS
  <2>7. f.op = "status" /\ f.id = d.id /\ f.durable = d.durable
    BY <2>6 DEF Reply, Frame
  <2>8. FrameTold(f, d, e, o)
    BY <1>3, <2>3, <2>5, <2>7 DEF FrameTold, FrameTrue, Quiet, Announces, DeviceTrue
  <2> QED BY <1>1, <2>2, <2>3, <2>4, <2>6, <2>8, FrameIsTold
<1> QED BY <1>2, <1>3

LEMMA AdmitTold ==
    ASSUME NEW d, NEW o, Good(d, o), DeviceTrue(d, o), MailTrue(o),
           NEW f, Heard(f), Meant(f), f.op = "data"
    PROVE  Told(Admit(d, f), d, o)
<1>1. /\ d \in DeviceRecord /\ o \in OwnerRecord /\ f \in Sent
      /\ f.off \in Nat /\ f.source \in 1 .. MaxSessions /\ f.source \in 0 .. MaxSessions
      /\ f.source # 0
  BY DEF Good, Known, Heard, Sent
<1>2. CASE ~ Admissible(d, f)
  BY <1>1, <1>2, RefusalTold DEF Admit
<1>3. CASE Admissible(d, f)
  <2>1. PICK e : e = [d EXCEPT !.credits = @ - 1, !.admitted = f.off + 1, !.occupied = @ + 1,
                        !.outstanding = Append(@, [off |-> f.off, gen |-> d.gen, source |-> f.source])]
    OBVIOUS
  <2>2. PICK q : q = Request("write", "write", d.id, f.off, f.source)
    OBVIOUS
  <2>3. Admit(d, f) = Result(e, <<>>, <<q>>)
    BY <1>3, <2>1, <2>2 DEF Admit
  <2>4. d.id # 0 /\ d.id \in Nat /\ f.id = d.id
    <3>1. d.active /\ f.id = d.id
      BY <1>3 DEF Admissible
    <3>2. d.id # 0
      BY <3>1 DEF Good, Phase, IdlePhase, OpenPhase, ActivePhase, FinishPhase, AbortPhase
    <3> QED BY <1>1, <3>1, <3>2 DEF DeviceRecord
  <2>5. q \in OwnerRequest /\ q.id = d.id /\ q.source = f.source
    BY <1>1, <2>2, <2>4 DEF Request, OwnerRequest
  <2>6. /\ e.id = d.id /\ e.tombstone = d.tombstone /\ e.held = d.held /\ e.mode = d.mode
        /\ e.publishes = d.publishes /\ e.active = d.active /\ e.durable = d.durable
    BY <1>1, <2>1 DEF DeviceRecord
  <2>7. DeviceTrue(e, o)
    BY <2>6, DeviceAlike
  <2>8. q.id # 0 /\ q.source # 0 /\ q.id = host.stream /\ q.source = host.session
    BY <1>1, <2>4, <2>5 DEF Meant
  <2> QED BY <1>1, <2>3, <2>5, <2>6, <2>7, <2>8, RequestTold
<1> QED BY <1>2, <1>3

LEMMA FinishTold ==
    ASSUME NEW d, NEW o, Good(d, o), DeviceTrue(d, o), MailTrue(o), NEW seq \in Nat, NEW id
    PROVE  Told(Finish(d, seq, id), d, o)
<1>1. d \in DeviceRecord /\ o \in OwnerRecord
  BY DEF Good, Known
<1>2. CASE ~ Finishable(d, id)
  BY <1>1, <1>2, RefusalTold DEF Finish
<1>3. CASE Finishable(d, id)
  <2>1. PICK same \in BOOLEAN : same = (d.intact /\ d.source \notin changed)
    OBVIOUS
  <2>2. PICK q : q = Request(IF same THEN "commit" ELSE "abort", "finish", d.id, 0, d.source)
    OBVIOUS
  <2>3. ActivePhase(d, o)
    BY <1>3 DEF Finishable, Good, Phase, IdlePhase, OpenPhase, FinishPhase, AbortPhase
  <2>4. d.held = {} /\ d.controls = {} /\ d.outstanding = <<>> /\ Len(o.answers) \in Nat
        /\ Len(o.mail) \in Nat
    BY <1>1, <1>3, <2>3 DEF ActivePhase, Finishable, OwnerRecord
  <2>5. Len(o.answers) = 0
    <3>1. PICK n \in Nat : n = Len(o.answers)
      BY <2>4
    <3>2. PICK m \in Nat : m = Len(o.mail)
      BY <2>4
    <3>3. PICK waited : waited = Len(d.outstanding)
      OBVIOUS
    <3>4. waited = 0
      BY <2>4, <3>3
    <3>5. n + m = waited
      BY <2>3, <3>1, <3>2, <3>3 DEF ActivePhase, Writes, WritesOf
    <3> QED BY <3>1, <3>4, <3>5
  <2>6. PICK e : e = [d EXCEPT !.active = FALSE, !.publishes = same, !.held = {"finish"},
                               !.controls = {"finish"}, !.replies = [@ EXCEPT !.finish = seq]]
    OBVIOUS
  <2>7. Finish(d, seq, id) = Result(e, <<>>, <<q>>)
    BY <1>3, <2>1, <2>2, <2>4, <2>6 DEF Finish
  <2>8. q \in OwnerRequest /\ q.op # "write"
    <3>1. d.id \in Nat /\ d.source \in 0 .. MaxSessions
      BY <1>1 DEF DeviceRecord
    <3> QED BY <2>2, <3>1 DEF OwnerRequest, Request
  <2>9. /\ e.id = d.id /\ e.tombstone = d.tombstone /\ e.held = {"finish"} /\ e.mode = d.mode
        /\ e.active = FALSE
    BY <1>1, <2>6, Zenon DEF DeviceRecord
  <2>10. DeviceTrue(e, o)
    <3>1. d.id # 0
      BY <2>3 DEF ActivePhase
    <3> QED BY <2>5, <2>9, <3>1 DEF DeviceTrue
  <2> QED BY <1>1, <2>7, <2>8, <2>9, <2>10, RequestTold
<1> QED BY <1>2, <1>3

\* Only what was opened and not finished can be aborted, under its id.
LEMMA AbortTold ==
    ASSUME NEW d, NEW o, Good(d, o), DeviceTrue(d, o), MailTrue(o), NEW id \in Nat,
           Abortable(d, id), NEW e,
           e.id = d.id, e.tombstone = id, e.held = {"abort"}, e.mode = d.mode, e.active = FALSE
    PROVE  Told(Result(e, <<>>, <<Request("abort", "abort", id, 0, 0)>>), d, o)
<1>1. d \in DeviceRecord /\ o \in OwnerRecord
  BY DEF Good, Known
<1>2. PICK q : q = Request("abort", "abort", id, 0, 0)
  OBVIOUS
<1>3. q \in OwnerRequest /\ q.op # "write"
  <2>1. 0 \in 0 .. MaxSessions
    BY ConstantsAssumption
  <2> QED BY <1>2, <2>1 DEF OwnerRequest, Request
<1>4. e.tombstone \in {0, e.id} /\ "finish" \notin d.held
  BY DEF Abortable, DeviceTrue
<1>5. DeviceTrue(e, o)
  BY <1>4 DEF DeviceTrue
<1> QED BY <1>1, <1>2, <1>3, <1>5, RequestTold

\* What begin_abort makes of a device.
LEMMA AbortIs ==
    ASSUME NEW d, NEW o, Good(d, o), NEW id \in Nat, Abortable(d, id)
    PROVE  \E e \in DeviceRecord :
              /\ e.id = d.id /\ e.tombstone = id /\ e.held = {"abort"}
              /\ e.mode = d.mode /\ e.active = FALSE
              /\ Abort(d, id) = Result(e, <<>>, <<Request("abort", "abort", id, 0, 0)>>)
<1>1. d \in DeviceRecord /\ Abort(d, id).device \in DeviceRecord
  BY AbortGood DEF Good, Known
<1>2. d.held = {}
  BY DEF Good, Phase, IdlePhase, OpenPhase, ActivePhase, FinishPhase, AbortPhase, Abortable
<1>3. PICK gen : gen = IF d.active THEN d.gen + 1 ELSE d.gen
  OBVIOUS
<1>4. PICK controls : controls = d.controls \cup {"abort"}
  OBVIOUS
<1>5. {} \cup {"abort"} = {"abort"}
  OBVIOUS
<1>6. PICK g : g = [d EXCEPT !.active = FALSE, !.tombstone = id, !.occupied = 0, !.gen = gen,
                             !.held = {"abort"}, !.controls = controls]
  OBVIOUS
<1>7. Abort(d, id) = Result(g, <<>>, <<Request("abort", "abort", id, 0, 0)>>)
  BY <1>2, <1>3, <1>4, <1>5, <1>6 DEF Abort
<1>8. g \in DeviceRecord
  BY <1>1, <1>7 DEF Result
<1>9. /\ g.id = d.id /\ g.tombstone = id /\ g.held = {"abort"} /\ g.mode = d.mode
      /\ g.active = FALSE
  BY <1>1, <1>6, Zenon DEF DeviceRecord
<1> QED BY <1>1, <1>7, <1>8, <1>9

LEMMA DispatchTold ==
    ASSUME NEW d, NEW o, Good(d, o), DeviceTrue(d, o), OwnerTrue(o), NEW f, Heard(f), Meant(f)
    PROVE  Told(Dispatch(d, f), d, o)
<1>1. /\ d \in DeviceRecord /\ o \in OwnerRecord /\ MailTrue(o) /\ f \in Sent
      /\ f.seq \in Nat /\ f.id \in Nat /\ f.op \in Ops
  BY DEF Good, Known, OwnerTrue, Heard, Sent
<1>2. PICK waits \in BOOLEAN : waits = (d.mode = "upload" /\ Pending(d))
  OBVIOUS
<1>3. CASE f.op = "open"
  <2>1. Dispatch(d, f) = Open(d, f)
    BY <1>3 DEF Dispatch
  <2> QED BY <1>3, <2>1, OpenTold
<1>4. CASE f.op = "data"
  <2>1. Dispatch(d, f) = Admit(d, f)
    BY <1>4 DEF Dispatch
  <2> QED BY <1>1, <1>4, <2>1, AdmitTold
<1>5. CASE f.op \in {"status", "finish"} /\ waits
  <2>1. Dispatch(d, f) = Defer(d, f)
    BY <1>2, <1>5 DEF Dispatch
  <2>2. f.op # "credit"
    BY <1>5
  <2> QED BY <1>1, <2>1, <2>2, DeferTold
<1>6. CASE f.op = "status" /\ ~ waits
  <2>1. Dispatch(d, f) = Status(d, f.seq, f.id)
    BY <1>2, <1>6 DEF Dispatch
  <2> QED BY <1>1, <2>1, StatusTold
<1>7. CASE f.op = "finish" /\ ~ waits
  <2>1. Dispatch(d, f) = Finish(d, f.seq, f.id)
    BY <1>2, <1>7 DEF Dispatch
  <2> QED BY <1>1, <2>1, FinishTold
<1>8. CASE f.op = "abort"
  <2>1. CASE ~ Abortable(d, f.id)
    <3>1. Dispatch(d, f) = Result(d, <<BadRequest("abort", f.seq)>>, <<>>)
      BY <1>8, <2>1 DEF Dispatch
    <3> QED BY <1>1, <3>1, RefusalTold
  <2>2. CASE Abortable(d, f.id)
    <3>2. PICK g \in DeviceRecord :
             /\ g.id = d.id /\ g.tombstone = f.id /\ g.held = {"abort"}
             /\ g.mode = d.mode /\ g.active = FALSE
             /\ Abort(d, f.id) = Result(g, <<>>, <<Request("abort", "abort", f.id, 0, 0)>>)
      <4>1. PICK id \in Nat : id = f.id
        BY <1>1
      <4>2. Abortable(d, id)
        BY <2>2, <4>1
      <4>3. \E e \in DeviceRecord :
               /\ e.id = d.id /\ e.tombstone = id /\ e.held = {"abort"}
               /\ e.mode = d.mode /\ e.active = FALSE
               /\ Abort(d, id) = Result(e, <<>>, <<Request("abort", "abort", id, 0, 0)>>)
        BY <4>2, AbortIs
      <4> QED BY <4>1, <4>3
    <3>3. PICK e : e = [g EXCEPT !.replies.abort = f.seq]
      OBVIOUS
    <3>4. Dispatch(d, f) = Result(e, <<>>, <<Request("abort", "abort", f.id, 0, 0)>>)
      <4>1. Dispatch(d, f) = [Abort(d, f.id) EXCEPT !.device.replies.abort = f.seq]
        BY <1>8, <2>2 DEF Dispatch
      <4> QED BY <3>2, <3>3, <4>1 DEF Result
    <3>5. /\ e.id = g.id /\ e.tombstone = g.tombstone /\ e.held = g.held /\ e.mode = g.mode
          /\ e.active = g.active
      BY <3>2, <3>3 DEF DeviceRecord
    <3> QED BY <1>1, <2>2, <3>2, <3>4, <3>5, AbortTold
  <2> QED BY <2>1, <2>2
<1> QED BY <1>1, <1>3, <1>4, <1>5, <1>6, <1>7, <1>8 DEF Ops

(***************************************************************************)
(* The answers of the owner, again.                                        *)
(***************************************************************************)
\* What is left when an answer is taken says the same.
LEMMA TakenTrue ==
    ASSUME NEW d, NEW o, o \in OwnerRecord, o.answers # <<>>, DeviceTrue(d, o), MailTrue(o),
           NEW e, e.id = d.id, e.tombstone = d.tombstone, e.held = d.held, e.mode = d.mode,
           e.publishes = d.publishes, e.active = d.active, e.durable = d.durable
    PROVE  /\ Taken(o) \in OwnerRecord /\ Taken(o).mail = o.mail /\ Taken(o).upload = o.upload
           /\ Taken(o).file = o.file /\ Taken(o).nextId = o.nextId
           /\ DeviceTrue(e, Taken(o)) /\ MailTrue(Taken(o))
<1>1. PICK n \in Nat : n = Len(o.answers) /\ n >= 1
  BY TakenIs
<1>2. PICK p \in OwnerRecord :
         /\ p = Taken(o) /\ p.mail = o.mail /\ p.upload = o.upload /\ p.file = o.file
         /\ Len(p.answers) = n - 1
         /\ \A j \in 1 .. n - 1 : p.answers[j] = o.answers[j + 1]
  BY <1>1, TakenIs
<1>3. p.nextId = o.nextId
  BY <1>2 DEF Taken, OwnerRecord
<1>4. \A j \in 1 .. n - 1 : j + 1 \in 1 .. n
  OBVIOUS
<1>5. "finish" \in d.held /\ d.publishes =>
         \A i \in 1 .. n - 1 : p.answers[i].ok => Published(d.id)
  BY <1>1, <1>2, <1>4 DEF DeviceTrue
<1>6. DeviceTrue(e, p)
  BY <1>2, <1>3, <1>5 DEF DeviceTrue, Filled
<1>7. MailTrue(p)
  BY <1>2 DEF MailTrue
<1> QED BY <1>2, <1>3, <1>6, <1>7

LEMMA NotWaitingIs ==
    ASSUME NEW d \in DeviceRecord, NEW a
    PROVE  LET e == NotWaiting(d, a) IN
           /\ e \in DeviceRecord /\ e.controls = d.controls \ {a.for}
           /\ e.id = d.id /\ e.tombstone = d.tombstone /\ e.held = d.held /\ e.mode = d.mode
           /\ e.publishes = d.publishes /\ e.active = d.active /\ e.durable = d.durable
           /\ e.outstanding = d.outstanding /\ e.replies = d.replies
<1> DEFINE e == NotWaiting(d, a)
<1>1. PICK controls : controls = d.controls \ {a.for}
  OBVIOUS
<1>2. controls \in SUBSET {"open", "finish", "abort"}
  BY <1>1 DEF DeviceRecord
<1>3. e = [d EXCEPT !.controls = controls]
  BY <1>1 DEF NotWaiting
<1> HIDE DEF e
<1>4. /\ e \in DeviceRecord /\ e.controls = controls
      /\ e.id = d.id /\ e.tombstone = d.tombstone /\ e.held = d.held /\ e.mode = d.mode
      /\ e.publishes = d.publishes /\ e.active = d.active /\ e.durable = d.durable
      /\ e.outstanding = d.outstanding /\ e.replies = d.replies
  BY <1>2, <1>3 DEF DeviceRecord
<1> QED BY <1>1, <1>4 DEF e

\* A device without a stream knows nothing.
LEMMA IdleTrue ==
    ASSUME NEW d, NEW o \in OwnerRecord
    PROVE  DeviceTrue(Idle(d), o) /\ Idle(d).held = {}
<1>1. /\ Idle(d).id = 0 /\ Idle(d).tombstone = 0 /\ Idle(d).held = {} /\ Idle(d).mode = "idle"
      /\ Idle(d).active = FALSE
  BY DEF Idle, Opening
<1>2. 0 < o.nextId
  BY DEF OwnerRecord
<1> QED BY <1>1, <1>2 DEF DeviceTrue

\* The answer to an open tells its stream what nobody knows.
LEMMA OpenDoneTold ==
    ASSUME NEW d, NEW o, Good(d, o), OpenPhase(d, o), o.answers # <<>>,
           DeviceTrue(d, o), OwnerTrue(o),
           NEW a, a = Head(o.answers), NEW e, e = NotWaiting(d, a)
    PROVE  Told(OpenDone(e, a), d, Taken(o))
<1>1. d \in DeviceRecord /\ o \in OwnerRecord /\ MailTrue(o)
  BY DEF Good, Known, OwnerTrue
<1>2. /\ d.mode = "upload" /\ d.held = {"open"} /\ d.tombstone = 0 /\ d.durable = 0
      /\ ~ d.active /\ o.mail = <<>>
      /\ o.answers[1].ok <=> o.upload # 0
      /\ o.answers[1].id = o.upload
  BY DEF OpenPhase
<1>3. (a.ok <=> o.upload # 0) /\ a.id = o.upload
  BY <1>1, <1>2, TakenIs
<1>4. /\ e \in DeviceRecord /\ e.id = d.id /\ e.tombstone = 0 /\ e.held = {"open"}
      /\ e.mode = "upload" /\ e.publishes = d.publishes /\ e.active = d.active /\ e.durable = 0
  <2>1. /\ e \in DeviceRecord
        /\ e.id = d.id /\ e.tombstone = d.tombstone /\ e.held = d.held /\ e.mode = d.mode
        /\ e.publishes = d.publishes /\ e.active = d.active /\ e.durable = d.durable
    BY <1>1, NotWaitingIs, Zenon
  <2> QED BY <1>2, <2>1
<1>5. PICK p \in OwnerRecord :
         /\ p = Taken(o) /\ p.mail = <<>> /\ p.upload = o.upload /\ p.file = o.file
         /\ p.nextId = o.nextId /\ DeviceTrue(e, p) /\ MailTrue(p)
  <2>1. /\ e.id = d.id /\ e.tombstone = d.tombstone /\ e.held = d.held /\ e.mode = d.mode
        /\ e.publishes = d.publishes /\ e.active = d.active /\ e.durable = d.durable
    BY <1>2, <1>4
  <2>2. /\ Taken(o) \in OwnerRecord /\ Taken(o).mail = o.mail /\ Taken(o).upload = o.upload
        /\ Taken(o).file = o.file /\ Taken(o).nextId = o.nextId
        /\ DeviceTrue(e, Taken(o)) /\ MailTrue(Taken(o))
    BY <1>1, <2>1, TakenTrue, Zenon
  <2> QED BY <1>2, <2>2
<1>6. CASE ~ a.ok
  <2>1. OpenDone(e, a) = Result(e, <<BadRequest("open", e.replies.open)>>, <<>>)
    BY <1>6 DEF OpenDone
  <2> QED BY <1>2, <1>4, <1>5, <2>1, RefusalTold
<1>7. CASE a.ok
  <2>1. PICK g : g = [e EXCEPT !.active = TRUE, !.id = a.id, !.credits = Window, !.gen = 1,
                               !.armed = TRUE, !.held = {}]
    OBVIOUS
  <2>2. OpenDone(e, a) = Result(g, <<Reply("open", e.replies.open, g)>>, <<>>)
    <3>1. e.held \ {"open"} = {}
      BY <1>4
    <3> QED BY <1>7, <2>1, <3>1 DEF OpenDone
  <2>3. /\ g.id = a.id /\ g.tombstone = e.tombstone /\ g.held = {} /\ g.mode = e.mode
        /\ g.active = TRUE /\ g.durable = e.durable
    BY <1>4, <2>1, Zenon DEF DeviceRecord
  <2>4. /\ o.upload # 0 /\ o.upload < o.nextId /\ o.upload # host.stream /\ o.file = NoFile
        /\ Unpublished(o.upload)
    BY <1>2, <1>3, <1>7 DEF DeviceTrue, OwnerTrue
  <2>5. Filled(p, 0)
    BY DEF Filled
  <2>6. DeviceTrue(g, p)
    BY <1>3, <1>4, <1>5, <2>3, <2>4, <2>5 DEF DeviceTrue
  <2>7. PICK f : f = Reply("open", e.replies.open, g)
    OBVIOUS
  <2>8. f.op = "open" /\ f.id = o.upload
    BY <1>3, <2>3, <2>7 DEF Reply, Frame
  <2>9. Untouched(p, o.upload)
    <3>1. Len(p.mail) = 0
      BY <1>5
    <3> QED BY <1>5, <2>4, <3>1 DEF Untouched
  <2>10. FrameTrue(f, p)
    BY <1>5, <2>4, <2>8, <2>9 DEF FrameTrue
  <2>11. FrameTold(f, d, g, p)
    BY <1>2, <1>5, <2>3, <2>4, <2>8, <2>10 DEF FrameTold, Quiet
  <2> QED BY <1>5, <2>2, <2>3, <2>6, <2>7, <2>11, FrameIsTold
<1> QED BY <1>6, <1>7

\* A credit counts what is on the card.
LEMMA CreditTold ==
    ASSUME NEW d \in DeviceRecord, NEW p \in OwnerRecord, DeviceTrue(d, p), MailTrue(p),
           d.active, d.id # 0, d.held = {}, NEW c
    PROVE  Told(Credit(d), c, p)
<1>1. CASE ~ (d.owed = Window \/ d.durable = Chunks)
  <2>1. Credit(d) = Result(d, <<>>, <<>>)
    BY <1>1 DEF Credit
  <2> QED BY <2>1, NothingTold
<1>2. CASE d.owed = Window \/ d.durable = Chunks
  <2>1. PICK e : e = [d EXCEPT !.credits = Min({Window, @ + d.owed}), !.owed = 0]
    OBVIOUS
  <2>2. PICK f : f = Frame("credit", 0, TRUE, d.id, d.durable, d.owed)
    OBVIOUS
  <2>3. Credit(d) = Result(e, <<f>>, <<>>)
    BY <1>2, <2>1, <2>2 DEF Credit
  <2>4. /\ e.id = d.id /\ e.tombstone = d.tombstone /\ e.held = {} /\ e.mode = d.mode
        /\ e.publishes = d.publishes /\ e.active = d.active /\ e.durable = d.durable
    BY <2>1, Zenon DEF DeviceRecord
  <2>5. DeviceTrue(e, p)
    BY <2>4, DeviceAlike
  <2>6. f.op = "credit" /\ f.ok /\ f.id = d.id /\ f.durable = d.durable
    BY <2>2 DEF Frame
  <2>7. FrameTold(f, c, e, p)
    BY <2>4, <2>6 DEF FrameTold, FrameTrue, Quiet, Announces, DeviceTrue
  <2> QED BY <2>3, <2>4, <2>5, <2>7, FrameIsTold
<1> QED BY <1>1, <1>2

LEMMA AnsweredIs ==
    ASSUME NEW d \in DeviceRecord, d.outstanding # <<>>
    PROVE  LET g == Answered(d) IN
           /\ g \in DeviceRecord
           /\ g.id = d.id /\ g.tombstone = d.tombstone /\ g.held = d.held /\ g.mode = d.mode
           /\ g.publishes = d.publishes /\ g.active = d.active /\ g.durable = d.durable
           /\ g.owed = d.owed /\ g.occupied = d.occupied
<1> DEFINE g == Answered(d)
<1>1. PICK rest : rest = Tail(d.outstanding)
  OBVIOUS
<1>2. rest \in Seq(Write)
  BY <1>1 DEF DeviceRecord
<1>3. g = [d EXCEPT !.outstanding = rest]
  BY <1>1 DEF Answered
<1> HIDE DEF g
<1>4. /\ g \in DeviceRecord
      /\ g.id = d.id /\ g.tombstone = d.tombstone /\ g.held = d.held /\ g.mode = d.mode
      /\ g.publishes = d.publishes /\ g.active = d.active /\ g.durable = d.durable
      /\ g.owed = d.owed /\ g.occupied = d.occupied
  BY <1>2, <1>3 DEF DeviceRecord
<1> QED BY <1>4 DEF g

\* What becomes durable is in the file.
LEMMA WriteDoneTold ==
    ASSUME NEW d, NEW o, Good(d, o), ActivePhase(d, o), o.answers # <<>>,
           DeviceTrue(d, o), MailTrue(o),
           NEW a, a = Head(o.answers), NEW e, e = NotWaiting(d, a)
    PROVE  Told(WriteDone(e, a), d, Taken(o))
<1>1. d \in DeviceRecord /\ o \in OwnerRecord
  BY DEF Good, Known
<1>2. PICK w \in Write : w = Head(d.outstanding)
  BY <1>1, WriteTaken
<1>3. d.outstanding # <<>> /\ (a.ok => o.file[w.off] = w.source) /\ w.source # 0
  <2>1. d.outstanding # <<>> /\ (a.ok => o.file[w.off] = w.source)
    BY <1>1, <1>2, WriteTaken
  <2>2. w.source \in 1 .. MaxSessions
    BY DEF Write
  <2> QED BY <2>1, <2>2
<1>4. d.active /\ d.held = {} /\ d.controls = {} /\ d.id # 0 /\ d.gen = 1 /\ w.gen = 1
  BY DEF ActivePhase, Write
<1>5. e = d
  <2>1. d.controls \ {a.for} = d.controls
    BY <1>4
  <2> QED BY <1>1, <2>1 DEF NotWaiting, DeviceRecord
<1>6. PICK g \in DeviceRecord :
         /\ g = Answered(d)
         /\ g.id = d.id /\ g.tombstone = d.tombstone /\ g.held = d.held /\ g.mode = d.mode
         /\ g.publishes = d.publishes /\ g.active = d.active /\ g.durable = d.durable
         /\ g.owed = d.owed /\ g.occupied = d.occupied
  BY <1>1, <1>3, AnsweredIs
<1>7. PICK p \in OwnerRecord :
         /\ p = Taken(o) /\ p.upload = o.upload /\ p.file = o.file
         /\ p.nextId = o.nextId /\ DeviceTrue(g, p) /\ MailTrue(p)
  BY <1>1, <1>6, TakenTrue
<1>8. CASE ~ (a.ok /\ w.off = d.durable)
  <2>1. WriteDone(e, a) = Result(g, <<>>, <<>>)
    BY <1>2, <1>4, <1>5, <1>6, <1>8 DEF WriteDone
  <2> QED BY <1>6, <1>7, <2>1, NothingTold
<1>9. CASE a.ok /\ w.off = d.durable
  <2>1. PICK durable \in Nat : durable = d.durable
    BY <1>1 DEF DeviceRecord
  <2>2. PICK h : h = Stored(d, w)
    OBVIOUS
  <2>3. WriteDone(e, a) = Credit(h)
    BY <1>2, <1>4, <1>5, <1>9, <2>2 DEF WriteDone
  <2>4. PICK intact \in BOOLEAN : intact = (d.intact /\ w.source = d.source)
    OBVIOUS
  <2>5. PICK occupied : occupied = d.occupied - 1
    OBVIOUS
  <2>6. occupied \in Nat /\ durable + 1 \in Nat /\ d.owed + 1 \in Nat
    <3>1. d.occupied \in Nat /\ d.owed \in Nat /\ Len(d.outstanding) \in Nat \ {0}
          /\ Len(d.outstanding) <= d.occupied
      BY <1>1, WriteTaken DEF DeviceRecord, ActivePhase
    <3>2. PICK n \in Nat \ {0} : n = Len(d.outstanding)
      BY <3>1
    <3>3. n <= d.occupied
      BY <3>1, <3>2
    <3> QED BY <2>5, <3>1, <3>3
  <2>7. h = [g EXCEPT !.durable = durable + 1, !.occupied = occupied, !.owed = d.owed + 1,
                      !.intact = intact]
    <3>1. g.intact = d.intact
      BY <1>1, <1>6 DEF Answered, DeviceRecord
    <3> QED BY <1>6, <2>1, <2>2, <2>4, <2>5, <3>1 DEF Stored
  <2>8. /\ h \in DeviceRecord
        /\ h.id = g.id /\ h.tombstone = g.tombstone /\ h.held = g.held /\ h.mode = g.mode
        /\ h.publishes = g.publishes /\ h.active = g.active /\ h.durable = durable + 1
    BY <1>6, <2>6, <2>7, ZenonT(60) DEF DeviceRecord
  <2>9. Filled(p, durable + 1)
    <3> SUFFICES ASSUME NEW k \in 0 .. Chunks - 1, k < durable + 1 PROVE p.file[k] # 0
      BY DEF Filled
    <3>1. CASE k = durable
      BY <1>3, <1>7, <1>9, <2>1, <3>1
    <3>2. CASE k # durable
      <4>1. k < durable
        BY <3>2
      <4>2. Filled(o, durable)
        BY <1>4, <2>1 DEF DeviceTrue
      <4> QED BY <1>7, <4>1, <4>2 DEF Filled
    <3> QED BY <3>1, <3>2
  <2>10. DeviceTrue(h, p)
    BY <1>4, <1>6, <1>7, <2>8, <2>9 DEF DeviceTrue
  <2> QED BY <1>4, <1>6, <1>7, <2>3, <2>8, <2>10, CreditTold
<1> QED BY <1>8, <1>9

LEMMA ReleaseTold ==
    ASSUME NEW d, NEW p \in OwnerRecord, DeviceTrue(d, p)
    PROVE  DeviceTrue(Release(d), p) /\ Release(d).held \subseteq d.held
BY IdleTrue DEF Release

LEMMA StaleDoneTold ==
    ASSUME NEW d, NEW o, Good(d, o), AbortPhase(d, o), o.answers # <<>>,
           DeviceTrue(d, o), MailTrue(o),
           NEW a, a = Head(o.answers), a.for = "write", NEW e, e = NotWaiting(d, a)
    PROVE  Told(WriteDone(e, a), d, Taken(o))
<1>1. d \in DeviceRecord /\ o \in OwnerRecord
  BY DEF Good, Known
<1>2. d.gen = 2 /\ d.controls \in SUBSET {"abort"} /\ "open" \notin d.held
  BY DEF AbortPhase
<1>3. e = d
  <2>1. d.controls \ {a.for} = d.controls
    BY <1>2
  <2> QED BY <1>1, <2>1 DEF NotWaiting, DeviceRecord
<1>4. PICK w \in Write : w = Head(d.outstanding)
  BY StaleWriteTaken
<1>5. d.outstanding # <<>>
  BY StaleWriteTaken
<1>6. PICK g \in DeviceRecord :
         /\ g = Answered(d)
         /\ g.id = d.id /\ g.tombstone = d.tombstone /\ g.held = d.held /\ g.mode = d.mode
         /\ g.publishes = d.publishes /\ g.active = d.active /\ g.durable = d.durable
  BY <1>1, <1>5, AnsweredIs
<1>7. PICK p \in OwnerRecord : p = Taken(o) /\ DeviceTrue(g, p) /\ MailTrue(p)
  BY <1>1, <1>6, TakenTrue
<1>8. w.gen # d.gen
  BY <1>2 DEF Write
<1>9. WriteDone(e, a) = Result(Release(g), <<>>, <<>>)
  BY <1>3, <1>4, <1>6, <1>8 DEF WriteDone
<1>10. DeviceTrue(Release(g), p) /\ "open" \notin Release(g).held
  BY <1>2, <1>6, <1>7, ReleaseTold
<1> QED BY <1>7, <1>9, <1>10, NothingTold

\* A finish is reported for what is published.
LEMMA FinishDoneTold ==
    ASSUME NEW d, NEW o, Good(d, o), FinishPhase(d, o), o.answers # <<>>,
           DeviceTrue(d, o), MailTrue(o),
           NEW a, a = Head(o.answers), NEW e, e = NotWaiting(d, a)
    PROVE  Told(FinishDone(e, a), d, Taken(o))
<1>1. d \in DeviceRecord /\ o \in OwnerRecord
  BY DEF Good, Known
<1>2. d.mode = "upload" /\ d.held = {"finish"} /\ d.outstanding = <<>> /\ d.controls = {"finish"}
      /\ d.active = FALSE
  <2>1. d.active \in BOOLEAN
    BY <1>1 DEF DeviceRecord
  <2>2. o.answers # <<>> /\ ~ d.active
    BY DEF FinishPhase
  <2> QED BY <2>1, <2>2 DEF FinishPhase
<1>3. /\ a = o.answers[1] /\ Len(o.answers) \in Nat \ {0}
  BY <1>1, TakenIs
<1>4. a.for = "finish"
  BY <1>2, <1>3 DEF FinishPhase
<1>5. a.ok /\ d.publishes => Published(d.id)
  <2>1. 1 \in 1 .. Len(o.answers)
    BY <1>3
  <2> QED BY <1>2, <1>3, <2>1 DEF DeviceTrue
<1>6. /\ e \in DeviceRecord /\ e.controls = {}
      /\ e.id = d.id /\ e.tombstone = d.tombstone /\ e.held = {"finish"} /\ e.mode = d.mode
      /\ e.publishes = d.publishes /\ e.active = d.active /\ e.durable = d.durable
      /\ e.outstanding = <<>>
  <2>1. d.controls \ {a.for} = {}
    BY <1>2, <1>4
  <2> QED BY <1>1, <1>2, <2>1, NotWaitingIs, ZenonT(60)
<1>7. PICK p \in OwnerRecord :
         /\ p = Taken(o) /\ p.nextId = o.nextId /\ DeviceTrue(e, p) /\ MailTrue(p)
  <2>1. /\ e.id = d.id /\ e.tombstone = d.tombstone /\ e.held = d.held /\ e.mode = d.mode
        /\ e.publishes = d.publishes /\ e.active = d.active /\ e.durable = d.durable
    BY <1>2, <1>6
  <2>2. /\ Taken(o) \in OwnerRecord /\ Taken(o).mail = o.mail /\ Taken(o).upload = o.upload
        /\ Taken(o).file = o.file /\ Taken(o).nextId = o.nextId
        /\ DeviceTrue(e, Taken(o)) /\ MailTrue(Taken(o))
    BY <1>1, <2>1, TakenTrue, Zenon
  <2> QED BY <2>2
<1>8. CASE ~ a.ok
  <2>1. FinishDone(e, a) = Result(e, <<BadRequest("finish", e.replies.finish)>>, <<>>)
    BY <1>8 DEF FinishDone
  <2> QED BY <1>6, <1>7, <2>1, RefusalTold
<1>9. CASE a.ok
  <2>1. PICK g : g = [e EXCEPT !.held = @ \ {"finish"}, !.armed = FALSE]
    OBVIOUS
  <2>2. PICK f : f = Frame("finish", e.replies.finish, TRUE, e.id, e.durable,
                           IF e.publishes THEN 1 ELSE 0)
    OBVIOUS
  <2>3. FinishDone(e, a) = Result(Release(g), <<f>>, <<>>)
    BY <1>9, <2>1, <2>2 DEF FinishDone
  <2>4. g.active = FALSE /\ g.held = {} /\ g.controls = {} /\ g.outstanding = <<>>
    <3>1. e.held \ {"finish"} = {}
      BY <1>6
    <3>2. g = [e EXCEPT !.held = {}, !.armed = FALSE]
      BY <2>1, <3>1
    <3>3. g.held = {} /\ g.active = e.active /\ g.controls = e.controls
          /\ g.outstanding = e.outstanding
      BY <1>6, <3>2 DEF DeviceRecord
    <3> QED BY <1>2, <1>6, <3>3
  <2>5. Release(g) = Idle(g)
    BY <2>4 DEF Release, Pending
  <2>6. DeviceTrue(Idle(g), p) /\ Idle(g).held = {}
    BY IdleTrue
  <2>7. /\ f.op = "finish" /\ f.id = d.id /\ f.ok
        /\ f.value = 1 => d.publishes
    BY <1>6, <2>2 DEF Frame
  <2>8. f.id < p.nextId
    BY <1>7, <2>7 DEF DeviceTrue
  <2>9. FrameTold(f, d, Idle(g), p)
    BY <1>5, <1>9, <2>6, <2>7, <2>8 DEF FrameTold, FrameTrue, Quiet, Announces
  <2> QED BY <1>7, <2>3, <2>5, <2>6, <2>9, FrameIsTold
<1> QED BY <1>8, <1>9

\* An abort is confirmed for an upload that is over and was never published.
LEMMA AbortDoneTold ==
    ASSUME NEW d, NEW o, Good(d, o), AbortPhase(d, o), o.answers # <<>>,
           DeviceTrue(d, o), MailTrue(o),
           NEW a, a = Head(o.answers), a.for = "abort", NEW e, e = NotWaiting(d, a)
    PROVE  Told(AbortDone(e, a), d, Taken(o))
<1>1. d \in DeviceRecord /\ o \in OwnerRecord
  BY DEF Good, Known
<1>2. d.mode = "upload" /\ d.tombstone # 0 /\ "finish" \notin d.held /\ "open" \notin d.held
  BY DEF AbortPhase
<1>3. a.ok => o.upload = 0
  <2>1. a = o.answers[1] /\ 1 \in 1 .. Len(o.answers)
    BY <1>1, TakenIs
  <2> QED BY <2>1 DEF AbortPhase, Stale
<1>4. d.id # 0 /\ Unpublished(d.id) /\ d.id < o.nextId
  BY <1>2 DEF DeviceTrue
<1>5. PICK seq : seq = d.replies.abort
  OBVIOUS
<1>6. /\ e \in DeviceRecord
      /\ e.id = d.id /\ e.tombstone = d.tombstone /\ e.held = d.held /\ e.mode = d.mode
      /\ e.publishes = d.publishes /\ e.active = d.active /\ e.durable = d.durable
      /\ e.replies = d.replies
  BY <1>1, NotWaitingIs
<1>7. PICK g : g = [e EXCEPT !.replies.abort = 0]
  OBVIOUS
<1>8. /\ g.id = d.id /\ g.tombstone = d.tombstone /\ g.held = d.held /\ g.mode = d.mode
      /\ g.publishes = d.publishes /\ g.active = d.active /\ g.durable = d.durable
      /\ g = [e EXCEPT !.replies = [@ EXCEPT !.abort = 0]]
  BY <1>6, <1>7 DEF DeviceRecord
<1>9. PICK p \in OwnerRecord :
         /\ p = Taken(o) /\ p.nextId = o.nextId /\ p.upload = o.upload
         /\ DeviceTrue(g, p) /\ MailTrue(p)
  BY <1>1, <1>8, TakenTrue
<1>10. CASE a.ok
  <2>1. PICK h : h = [g EXCEPT !.held = @ \ {"abort"}, !.armed = FALSE]
    OBVIOUS
  <2>2. PICK f : f = Reply("abort", seq, e)
    OBVIOUS
  <2>3. AbortDone(e, a) = Result(Release(h), IF seq # 0 THEN <<f>> ELSE <<>>, <<>>)
    BY <1>5, <1>6, <1>7, <1>10, <2>1, <2>2 DEF AbortDone
  <2>4. /\ h.id = d.id /\ h.tombstone = d.tombstone /\ h.held \subseteq d.held
        /\ h.mode = d.mode /\ h.active = d.active /\ h.durable = d.durable
    <3>1. PICK held : held = d.held \ {"abort"}
      OBVIOUS
    <3>2. PICK replies : replies = [d.replies EXCEPT !.abort = 0]
      OBVIOUS
    <3>3. h = [e EXCEPT !.replies = replies, !.held = held, !.armed = FALSE]
      BY <1>6, <1>8, <2>1, <3>1, <3>2 DEF DeviceRecord
    <3>4. /\ h.id = e.id /\ h.tombstone = e.tombstone /\ h.held = held
          /\ h.mode = e.mode /\ h.active = e.active /\ h.durable = e.durable
      BY <1>6, <3>3, Zenon DEF DeviceRecord
    <3> QED BY <1>6, <3>1, <3>4
  <2>5. "finish" \notin h.held /\ "open" \notin h.held
    BY <1>2, <2>4
  <2>6. DeviceTrue(h, p)
    BY <1>2, <1>8, <1>9, <2>4, <2>5 DEF DeviceTrue
  <2>7. DeviceTrue(Release(h), p) /\ "open" \notin Release(h).held
    BY <2>5, <2>6, ReleaseTold
  <2>8. f.op = "abort" /\ f.id = d.id
    BY <1>6, <2>2 DEF Reply, Frame
  <2>9. Closed(p, d.id)
    BY <1>3, <1>4, <1>9, <1>10 DEF Closed
  <2>10. FrameTold(f, d, Release(h), p)
    BY <1>4, <1>9, <2>7, <2>8, <2>9 DEF FrameTold, FrameTrue, Quiet, Announces
  <2> QED BY <1>9, <2>3, <2>7, <2>10, FrameIsTold, NothingTold
<1>11. CASE ~ a.ok
  <2>1. AbortDone(e, a) = Result(g, IF seq # 0 THEN <<BadRequest("abort", seq)>> ELSE <<>>, <<>>)
    BY <1>5, <1>6, <1>7, <1>11 DEF AbortDone
  <2> QED BY <1>2, <1>8, <1>9, <2>1, RefusalTold, NothingTold
<1> QED BY <1>10, <1>11

\* The handlers of answers ask nothing of the owner.
LEMMA CompleteAsksNothing ==
    ASSUME NEW a \in OwnerAnswer
    PROVE  Complete(a).requests = <<>>
<1>1. \A d : OpenDone(d, a).requests = <<>>
  BY DEF OpenDone, Result
<1>2. \A d : FinishDone(d, a).requests = <<>>
  BY DEF FinishDone, Result
<1>3. \A d : AbortDone(d, a).requests = <<>>
  BY DEF AbortDone, Result
<1>4. \A d : Credit(d).requests = <<>>
  BY DEF Credit, Result
<1>5. \A d : WriteDone(d, a).requests = <<>>
  BY <1>4 DEF WriteDone, Result
<1>6. a.for \in {"open", "write", "finish", "abort"}
  BY DEF OwnerAnswer
<1> QED BY <1>1, <1>2, <1>3, <1>5, <1>6 DEF Complete

LEMMA CompleteTold ==
    ASSUME Good(device, owner), owner.answers # <<>>, DeviceTrue(device, owner), OwnerTrue(owner)
    PROVE  LET r == Complete(Head(owner.answers)) IN
           ToldBy(r.device, r.frames, device, Taken(owner), Taken(owner))
<1>1. PICK a \in OwnerAnswer : a = Head(owner.answers)
  BY TakenIs DEF Good
<1>2. PICK e : e = NotWaiting(device, a)
  OBVIOUS
<1>3. device \in DeviceRecord /\ owner \in OwnerRecord /\ MailTrue(owner)
      /\ Taken(owner) \in OwnerRecord
  BY TakenIs DEF Good, Known, OwnerTrue
<1>4. Told(Complete(a), device, Taken(owner))
  <2>1. CASE OpenPhase(device, owner)
    <3>1. a.for = "open"
      BY <1>1, <1>2, <2>1, OpenDoneGood
    <3>2. Complete(a) = OpenDone(e, a)
      BY <1>2, <3>1 DEF Complete, NotWaiting
    <3> QED BY <1>1, <1>2, <2>1, <3>2, OpenDoneTold
  <2>2. CASE ActivePhase(device, owner)
    <3>1. a.for = "write"
      BY <1>1, <1>2, <2>2, WriteDoneGood
    <3>2. Complete(a) = WriteDone(e, a)
      BY <1>2, <3>1 DEF Complete, NotWaiting
    <3> QED BY <1>1, <1>2, <1>3, <2>2, <3>2, WriteDoneTold
  <2>3. CASE FinishPhase(device, owner)
    <3>1. a.for = "finish"
      BY <1>1, <1>2, <2>3, FinishDoneGood
    <3>2. Complete(a) = FinishDone(e, a)
      BY <1>2, <3>1 DEF Complete, NotWaiting
    <3> QED BY <1>1, <1>2, <1>3, <2>3, <3>2, FinishDoneTold
  <2>4. CASE AbortPhase(device, owner)
    <3>1. a.for = "abort" \/ a.for = "write"
      <4>1. a = owner.answers[1] /\ 1 \in 1 .. Len(owner.answers)
        BY <1>1, <1>3, TakenIs
      <4> QED BY <2>4, <4>1 DEF AbortPhase, Stale
    <3>2. CASE a.for = "abort"
      <4>1. Complete(a) = AbortDone(e, a)
        BY <1>2, <3>2 DEF Complete, NotWaiting
      <4> QED BY <1>1, <1>2, <1>3, <2>4, <3>2, <4>1, AbortDoneTold
    <3>3. CASE a.for = "write"
      <4>1. Complete(a) = WriteDone(e, a)
        BY <1>2, <3>3 DEF Complete, NotWaiting
      <4> QED BY <1>1, <1>2, <1>3, <2>4, <3>3, <4>1, StaleDoneTold
    <3> QED BY <3>1, <3>2, <3>3
  <2>5. ~ IdlePhase(device, owner)
    BY DEF IdlePhase
  <2> QED BY <2>1, <2>2, <2>3, <2>4, <2>5 DEF Good, Phase
<1>5. Extended(Taken(owner), Complete(a).requests) = Taken(owner)
  BY <1>3, CompleteAsksNothing, NothingAdded
<1> QED BY <1>1, <1>4, <1>5 DEF Told

LEMMA DeferredTold ==
    ASSUME NEW d, NEW o, Good(d, o), DeviceTrue(d, o), MailTrue(o)
    PROVE  Told(Deferred(d), d, o)
<1>1. d \in DeviceRecord /\ o \in OwnerRecord
  BY DEF Good, Known
<1>2. d.deferred.op \in {"none", "status", "finish"} /\ d.deferred.seq \in Nat /\ d.deferred.id \in Nat
  BY <1>1 DEF DeviceRecord
<1>3. PICK op : op = IF Pending(d) THEN "none" ELSE d.deferred.op
  OBVIOUS
<1>4. op \in {"none", "status", "finish"}
  BY <1>2, <1>3
<1>5. PICK e : e = [d EXCEPT !.deferred = NoRequest]
  OBVIOUS
<1>6. Good(e, o) /\ DeviceTrue(e, o) /\ e.held = d.held
  <2>1. NoRequest \in [op : {"none", "status", "finish"}, seq : Nat, id : Nat]
    BY DEF NoRequest
  <2>2. e \in DeviceRecord
    BY <1>1, <1>5, <2>1 DEF DeviceRecord
  <2>3. /\ e.mode = d.mode /\ e.source = d.source /\ e.active = d.active /\ e.id = d.id
        /\ e.admitted = d.admitted /\ e.durable = d.durable /\ e.credits = d.credits
        /\ e.owed = d.owed /\ e.occupied = d.occupied /\ e.intact = d.intact /\ e.gen = d.gen
        /\ e.tombstone = d.tombstone /\ e.outstanding = d.outstanding
        /\ e.publishes = d.publishes /\ e.held = d.held /\ e.controls = d.controls
    BY <1>1, <1>5 DEF DeviceRecord
  <2>4. Good(e, o)
    BY <2>2, <2>3, AlikeGood
  <2>5. DeviceTrue(e, o)
    BY <2>3, DeviceAlike
  <2> QED BY <2>3, <2>4, <2>5
<1>7. \A r : Told(r, e, o) => Told(r, d, o)
  BY <1>6 DEF Told, ToldBy, FrameTold
<1>8. CASE op = "none"
  <2>1. Deferred(d) = Result(d, <<>>, <<>>)
    BY <1>3, <1>8 DEF Deferred
  <2> QED BY <1>1, <2>1, NothingTold
<1>9. CASE op = "status"
  <2>1. Deferred(d) = Status(e, d.deferred.seq, d.deferred.id)
    BY <1>3, <1>5, <1>9 DEF Deferred
  <2> QED BY <1>6, <1>7, <2>1, StatusTold
<1>10. CASE op = "finish"
  <2>1. Deferred(d) = Finish(e, d.deferred.seq, d.deferred.id)
    BY <1>3, <1>5, <1>10 DEF Deferred
  <2> QED BY <1>2, <1>6, <1>7, <2>1, FinishTold
<1> QED BY <1>4, <1>8, <1>9, <1>10

(***************************************************************************)
(* The steps of the device keep the truth.                                 *)
(***************************************************************************)
LEMMA LineStays ==
    ASSUME NEW s \in Seq(FrameType), NEW d, NEW o, NEW e, NEW p, Honest(s, d, o),
           SameUpload(o, p), "open" \in e.held /\ p.upload # 0 => "open" \in d.held
    PROVE  Honest(s, e, p)
<1> SUFFICES ASSUME NEW k \in 1 .. Len(s) PROVE FrameTrue(s[k], p) /\ Quiet(s[k], e, p)
  BY DEF Honest
<1>1. PICK f \in FrameType : f = s[k]
  OBVIOUS
<1>2. FrameTrue(f, o) /\ Quiet(f, d, o)
  BY <1>1 DEF Honest
<1>3. FrameTrue(f, p)
  BY <1>2, FrameStays
<1>4. Quiet(f, e, p)
  BY <1>2 DEF Quiet, SameUpload
<1> QED BY <1>1, <1>3, <1>4

LEMMA LineJoined ==
    ASSUME NEW s \in Seq(FrameType), NEW t \in Seq(FrameType), NEW d, NEW o,
           Honest(s, d, o), Honest(t, d, o)
    PROVE  Honest(s \o t, d, o)
<1>1. PICK m \in Nat : m = Len(s)
  OBVIOUS
<1>2. PICK n \in Nat : n = Len(t)
  OBVIOUS
<1>3. PICK u : u = s \o t
  OBVIOUS
<1>4. Len(u) = m + n /\ \A i \in 1 .. m + n : u[i] = IF i <= m THEN s[i] ELSE t[i - m]
  BY <1>1, <1>2, <1>3, ConcatType
<1>5. ASSUME NEW k \in 1 .. m + n PROVE FrameTrue(u[k], o) /\ Quiet(u[k], d, o)
  <2>1. CASE k <= m
    <3>1. k \in 1 .. m /\ u[k] = s[k]
      BY <1>4, <2>1
    <3> QED BY <1>1, <3>1 DEF Honest
  <2>2. CASE ~ (k <= m)
    <3>1. k - m \in 1 .. n /\ u[k] = t[k - m]
      BY <1>4, <2>2
    <3> QED BY <1>2, <3>1 DEF Honest
  <2> QED BY <2>1, <2>2
<1> QED BY <1>3, <1>4, <1>5 DEF Honest

LEMMA OnceJoined ==
    ASSUME NEW s \in Seq(FrameType), NEW t \in Seq(FrameType), Once(s, t)
    PROVE  Once(s \o t, <<>>)
<1>1. PICK m \in Nat : m = Len(s)
  OBVIOUS
<1>2. PICK n \in Nat : n = Len(t) /\ n <= 1
  BY DEF Once
<1>3. PICK u : u = s \o t
  OBVIOUS
<1>4. Len(u) = m + n /\ \A i \in 1 .. m + n : u[i] = IF i <= m THEN s[i] ELSE t[i - m]
  BY <1>1, <1>2, <1>3, ConcatType
<1>5. ASSUME NEW j \in 1 .. m + n, NEW k \in 1 .. m + n, j # k, Announces(u[j]), Announces(u[k])
      PROVE  u[j].id # u[k].id
  <2>1. \A i \in 1 .. m : i <= m /\ i \in 1 .. m + n /\ u[i] = s[i]
    BY <1>4
  <2>2. \A i \in 1 .. m + n : i \notin 1 .. m => i = m + 1 /\ n = 1 /\ u[i] = t[1]
    BY <1>2, <1>4
  <2>3. CASE j \in 1 .. m /\ k \in 1 .. m
    BY <1>1, <1>5, <2>1, <2>3 DEF Once
  <2>4. CASE j \in 1 .. m /\ k \notin 1 .. m
    BY <1>1, <1>2, <1>5, <2>1, <2>2, <2>4 DEF Once
  <2>5. CASE j \notin 1 .. m /\ k \in 1 .. m
    BY <1>1, <1>2, <1>5, <2>1, <2>2, <2>5 DEF Once
  <2>6. CASE j \notin 1 .. m /\ k \notin 1 .. m
    BY <1>5, <2>2, <2>6
  <2> QED BY <2>3, <2>4, <2>5, <2>6
<1>6. Len(<<>>) = 0
  OBVIOUS
<1> QED BY <1>3, <1>4, <1>5, <1>6 DEF Once

\* What is announced was never told of before.
LEMMA OnceTold ==
    ASSUME NEW s \in Seq(FrameType), NEW frames, NEW d, NEW o, NEW e, NEW p,
           Honest(s, d, o), Once(s, <<>>), ToldBy(e, frames, d, o, p)
    PROVE  Once(s, frames) /\ Honest(frames, e, p)
<1>1. Honest(frames, e, p) /\ Len(frames) <= 1
  BY DEF Honest, ToldBy, FrameTold
<1>2. ASSUME NEW j \in 1 .. Len(s), NEW k \in 1 .. Len(frames), Announces(frames[k])
      PROVE  s[j].id # frames[k].id
  <2>1. "open" \in d.held /\ p.upload # 0 /\ frames[k].id = p.upload /\ o.upload = p.upload
    BY <1>2 DEF ToldBy, FrameTold, SameUpload
  <2>2. Quiet(s[j], d, o)
    BY DEF Honest
  <2> QED BY <2>1, <2>2 DEF Quiet
<1>3. \A j \in 1 .. Len(s) : Announces(s[j]) =>
         \A k \in 1 .. Len(s) : j # k /\ Announces(s[k]) => s[j].id # s[k].id
  BY DEF Once
<1> QED BY <1>1, <1>2, <1>3 DEF Once

\* Nothing that the owner and the host are known by changes.
LEMMA TruthPrimed ==
    ASSUME TruthInv, owner \in OwnerRecord, UNCHANGED <<host, shelf>>, NEW d, NEW e, NEW p,
           device' = e, owner' = p, DeviceTrue(e, p), MailTrue(p), SameUpload(owner, p),
           NEW s, NEW t, toHost' = s, tx' = t, Honest(s, e, p), Honest(t, e, p), Once(s, t),
           \A i \in 1 .. Len(toDevice') : \E j \in 1 .. Len(toDevice) : toDevice'[i] = toDevice[j]
    PROVE  TruthInv'
<1>1. p.upload = owner.upload /\ p.nextId = owner.nextId /\ p.file = owner.file
  BY DEF SameUpload
<1>2. DeviceTrue(device, owner)'
  BY DEF DeviceTrue, Filled, Published, Unpublished, NoFile
<1>3. OwnerTrue(owner)'
  <2>1. OwnerTrue(p)
    BY <1>1 DEF TruthInv, OwnerTrue, Filled
  <2> QED BY <2>1 DEF OwnerTrue, MailTrue, Filled
<1>4. HostTrue(owner)'
  <2>1. HostTrue(owner)
    BY DEF TruthInv
  <2>2. \A i \in 1 .. Len(toDevice') : toDevice'[i].op = "data" =>
           host.pc # "opening" /\ toDevice'[i].source = host.session /\ toDevice'[i].id = host.stream
    BY <2>1 DEF HostTrue
  <2> QED BY <1>1, <2>1, <2>2 DEF HostTrue, Closed, Published, Unpublished
<1>5. Honest(toHost, device, owner)' /\ Honest(tx, device, owner)'
  BY ZenonT(60) DEF Honest, FrameTrue, Quiet, Untouched, Closed, Filled, Published, Unpublished, NoFile
<1>6. Once(toHost, tx)'
  BY DEF Once, Announces
<1> QED BY <1>2, <1>3, <1>4, <1>5, <1>6 DEF TruthInv

LEMMA HandleFrameTrue ==
    ASSUME BulkInv, TruthInv, HandleFrame
    PROVE  TruthInv'
<1>1. /\ HostInv /\ HostSide /\ toDevice \in Seq(Sent) /\ toDevice # <<>>
      /\ toHost \in Seq(FrameType) /\ tx \in Seq(FrameType)
      /\ Good(device, owner) /\ owner \in OwnerRecord
      /\ UNCHANGED <<host, shelf>> /\ toDevice' = Tail(toDevice) /\ tx' = <<>>
      /\ DeviceTrue(device, owner) /\ OwnerTrue(owner) /\ MailTrue(owner)
      /\ Honest(toHost, device, owner) /\ Honest(tx, device, owner) /\ Once(toHost, tx)
  BY DEF BulkInv, HostInv, HostSide, HandleFrame, Good, TruthInv, OwnerTrue
<1>2. PICK f : f = Head(toDevice)
  OBVIOUS
<1>3. f = toDevice[1] /\ 1 \in 1 .. Len(toDevice)
  BY <1>1, <1>2
<1>4. Heard(f) /\ Meant(f)
  BY <1>1, <1>3 DEF HostSide, Heard, Meant, TruthInv, HostTrue
<1>5. PICK r : r = Dispatch(device, f)
  OBVIOUS
<1>6. PICK e : e = r.device
  OBVIOUS
<1>7. PICK frames : frames = r.frames
  OBVIOUS
<1>8. PICK p : p = Extended(owner, r.requests)
  OBVIOUS
<1>9. ToldBy(e, frames, device, owner, p) /\ frames \in Seq(FrameType)
  BY <1>1, <1>4, <1>5, <1>6, <1>7, <1>8, DispatchTold, DispatchGood DEF Told, Sound
<1>10. /\ device' = e /\ owner' = p /\ toHost' = toHost \o (IF frames # <<>> THEN frames ELSE tx)
  BY <1>2, <1>5, <1>6, <1>7, <1>8 DEF HandleFrame, Extended
<1>11. /\ DeviceTrue(e, p) /\ MailTrue(p) /\ SameUpload(owner, p)
       /\ "open" \in e.held /\ p.upload # 0 => "open" \in device.held
  BY <1>9 DEF ToldBy
<1>12. Once(toHost, <<>>)
  <2>1. Len(<<>>) = 0
    OBVIOUS
  <2> QED BY <1>1, <2>1 DEF Once
<1>13. Honest(toHost, e, p) /\ Honest(tx, e, p)
  BY <1>1, <1>11, LineStays
<1>14. PICK sent \in Seq(FrameType) :
          sent = (IF frames # <<>> THEN frames ELSE tx) /\ Honest(sent, e, p) /\ Once(toHost, sent)
  <2>1. Once(toHost, frames) /\ Honest(frames, e, p)
    BY <1>1, <1>9, <1>12, OnceTold
  <2> QED BY <1>1, <1>9, <1>13, <2>1
<1>15. PICK s : s = toHost \o sent
  OBVIOUS
<1>16. Honest(s, e, p) /\ Once(s, <<>>)
  BY <1>1, <1>13, <1>14, <1>15, LineJoined, OnceJoined
<1>17. toHost' = s
  BY <1>10, <1>14, <1>15
<1>18. Honest(<<>>, e, p)
  BY DEF Honest
<1>19. \A i \in 1 .. Len(toDevice') : \E j \in 1 .. Len(toDevice) : toDevice'[i] = toDevice[j]
  <2>1. /\ Len(toDevice') = Len(toDevice) - 1
        /\ \A i \in 1 .. Len(toDevice) - 1 : i + 1 \in 1 .. Len(toDevice) /\ toDevice'[i] = toDevice[i + 1]
    BY <1>1
  <2> QED BY <2>1
<1> QED BY <1>1, <1>10, <1>11, <1>16, <1>17, <1>18, <1>19, TruthPrimed

LEMMA TransmitTrue ==
    ASSUME BulkInv, TruthInv, Transmit
    PROVE  TruthInv'
<1>1. /\ toHost \in Seq(FrameType) /\ tx \in Seq(FrameType) /\ toHost' = toHost \o tx
      /\ tx' = <<>> /\ UNCHANGED <<host, toDevice, device, owner, shelf>>
      /\ owner \in OwnerRecord /\ DeviceTrue(device, owner) /\ MailTrue(owner)
      /\ Honest(toHost, device, owner) /\ Honest(tx, device, owner) /\ Once(toHost, tx)
  BY DEF BulkInv, HostInv, Transmit, Good, TruthInv, OwnerTrue
<1>2. PICK s : s = toHost \o tx
  OBVIOUS
<1>3. Honest(s, device, owner) /\ Once(s, <<>>)
  BY <1>1, <1>2, LineJoined, OnceJoined
<1>4. Honest(<<>>, device, owner) /\ SameUpload(owner, owner)
  BY DEF Honest, SameUpload
<1> QED BY <1>1, <1>2, <1>3, <1>4, TruthPrimed

LEMMA HandleOwnerTrue ==
    ASSUME BulkInv, TruthInv, HandleOwner
    PROVE  TruthInv'
<1>1. /\ toHost \in Seq(FrameType) /\ tx = <<>> /\ owner.answers # <<>>
      /\ Good(device, owner) /\ owner \in OwnerRecord
      /\ UNCHANGED <<host, toDevice, toHost, shelf>>
      /\ DeviceTrue(device, owner) /\ OwnerTrue(owner) /\ MailTrue(owner)
      /\ Honest(toHost, device, owner) /\ Once(toHost, tx)
  BY DEF BulkInv, HostInv, HandleOwner, Good, TruthInv, OwnerTrue
<1>2. PICK r : r = Complete(Head(owner.answers))
  OBVIOUS
<1>3. PICK d : d = r.device
  OBVIOUS
<1>4. PICK o : o = Taken(owner)
  OBVIOUS
<1>5. ToldBy(d, r.frames, device, o, o) /\ Good(d, o) /\ r.frames \in Seq(FrameType)
  BY <1>1, <1>2, <1>3, <1>4, CompleteTold, CompleteGood DEF Settled
<1>6. PICK q : q = Deferred(d)
  OBVIOUS
<1>7. PICK e : e = q.device
  OBVIOUS
<1>8. PICK p : p = Extended(o, q.requests)
  OBVIOUS
<1>9. ToldBy(e, q.frames, d, o, p)
  BY <1>5, <1>6, <1>7, <1>8, DeferredTold DEF Told, ToldBy
<1>10. /\ device' = e /\ owner' = p
       /\ tx' = IF q.frames # <<>> THEN q.frames ELSE r.frames
  <2>1. /\ device' = e
        /\ owner' = [owner EXCEPT !.answers = Tail(@), !.mail = @ \o q.requests]
        /\ tx' = IF q.frames # <<>> THEN q.frames ELSE r.frames
    BY <1>2, <1>3, <1>6, <1>7 DEF HandleOwner
  <2>2. owner' = p
    BY <1>1, <1>4, <1>8, <2>1 DEF Extended, Taken, OwnerRecord
  <2> QED BY <2>1, <2>2
<1>11. SameUpload(owner, o)
  <2>1. o.mail = owner.mail /\ o.upload = owner.upload /\ o.file = owner.file
    BY <1>1, <1>4, TakenIs
  <2>2. o.nextId = owner.nextId
    BY <1>1, <1>4 DEF Taken, OwnerRecord
  <2> QED BY <2>1, <2>2 DEF SameUpload, Untouched
<1>12. /\ DeviceTrue(e, p) /\ MailTrue(p) /\ SameUpload(owner, p)
       /\ "open" \in d.held /\ o.upload # 0 => "open" \in device.held
       /\ "open" \in e.held /\ p.upload # 0 => "open" \in d.held
  <2>1. SameUpload(o, p)
    BY <1>9 DEF ToldBy
  <2>2. SameUpload(owner, p)
    BY <1>11, <2>1 DEF SameUpload
  <2> QED BY <1>5, <1>9, <2>2 DEF ToldBy
<1>13. Honest(toHost, d, o) /\ Honest(toHost, e, p)
  <2>1. Honest(toHost, d, o)
    BY <1>1, <1>11, <1>12, LineStays
  <2>2. SameUpload(o, p)
    BY <1>9 DEF ToldBy
  <2> QED BY <1>1, <1>12, <2>1, <2>2, LineStays
<1>14. Once(toHost, r.frames) /\ Honest(r.frames, d, o)
  <2>1. ToldBy(d, r.frames, device, owner, o)
    BY <1>5, <1>11 DEF ToldBy
  <2> QED BY <1>1, <2>1, OnceTold
<1>15. Honest(r.frames, e, p)
  <2>1. SameUpload(o, p)
    BY <1>9 DEF ToldBy
  <2> QED BY <1>5, <1>12, <1>14, <2>1, LineStays
<1>16. Once(toHost, q.frames) /\ Honest(q.frames, e, p)
  BY <1>1, <1>9, <1>13, OnceTold
<1>17. PICK t : t = (IF q.frames # <<>> THEN q.frames ELSE r.frames)
                /\ Once(toHost, t) /\ Honest(t, e, p)
  BY <1>14, <1>15, <1>16
<1>18. \A i \in 1 .. Len(toDevice') : \E j \in 1 .. Len(toDevice) : toDevice'[i] = toDevice[j]
  BY <1>1
<1> QED BY <1>1, <1>10, <1>12, <1>13, <1>17, <1>18, TruthPrimed

LEMMA ExpireIdleTrue ==
    ASSUME BulkInv, TruthInv, ExpireIdle
    PROVE  TruthInv'
<1>1. /\ toHost \in Seq(FrameType) /\ tx \in Seq(FrameType)
      /\ Good(device, owner) /\ device \in DeviceRecord /\ owner \in OwnerRecord
      /\ UNCHANGED <<host, toDevice, toHost, tx, shelf>>
      /\ DeviceTrue(device, owner) /\ MailTrue(owner)
      /\ Honest(toHost, device, owner) /\ Honest(tx, device, owner) /\ Once(toHost, tx)
  BY DEF BulkInv, HostInv, ExpireIdle, Good, Known, TruthInv, OwnerTrue, wires
<1>2. PICK id \in Nat : id = IF device.active THEN device.id ELSE device.tombstone
  BY <1>1 DEF DeviceRecord
<1>3. Abortable(device, id)
  BY <1>2 DEF ExpireIdle
<1>4. PICK g \in DeviceRecord :
         /\ g.id = device.id /\ g.tombstone = id /\ g.held = {"abort"}
         /\ g.mode = device.mode /\ g.active = FALSE
         /\ Abort(device, id) = Result(g, <<>>, <<Request("abort", "abort", id, 0, 0)>>)
  BY <1>1, <1>3, AbortIs
<1>5. PICK e : e = [g EXCEPT !.armed = FALSE]
  OBVIOUS
<1>6. PICK p : p = Extended(owner, <<Request("abort", "abort", id, 0, 0)>>)
  OBVIOUS
<1>7. device' = e /\ owner' = p
  <2>1. PICK r : r = Abort(device, id)
    OBVIOUS
  <2>2. device' = [r.device EXCEPT !.armed = FALSE] /\ owner' = Extended(owner, r.requests)
    BY <1>2, <2>1 DEF ExpireIdle, Extended
  <2>3. r.device = g /\ r.requests = <<Request("abort", "abort", id, 0, 0)>>
    BY <1>4, <2>1 DEF Result
  <2> QED BY <1>5, <1>6, <2>2, <2>3
<1>8. e.id = g.id /\ e.tombstone = g.tombstone /\ e.held = g.held /\ e.mode = g.mode
      /\ e.active = g.active
  BY <1>4, <1>5 DEF DeviceRecord
<1>9. Told(Result(e, <<>>, <<Request("abort", "abort", id, 0, 0)>>), device, owner)
  BY <1>1, <1>3, <1>4, <1>8, AbortTold
<1>10. ToldBy(e, <<>>, device, owner, p)
  BY <1>6, <1>9 DEF Told, Result
<1>11. /\ DeviceTrue(e, p) /\ MailTrue(p) /\ SameUpload(owner, p)
       /\ "open" \in e.held /\ p.upload # 0 => "open" \in device.held
  BY <1>10 DEF ToldBy
<1>12. Honest(toHost, e, p) /\ Honest(tx, e, p)
  BY <1>1, <1>11, LineStays
<1>13. \A i \in 1 .. Len(toDevice') : \E j \in 1 .. Len(toDevice) : toDevice'[i] = toDevice[j]
  BY <1>1
<1> QED BY <1>1, <1>7, <1>11, <1>12, <1>13, TruthPrimed

(***************************************************************************)
(* The steps of the owner keep the truth.                                  *)
(***************************************************************************)
\* What a step of the owner may do to its upload, the file and the shelf.
Stayed(p) ==
    /\ p.upload = owner.upload /\ p.nextId = owner.nextId /\ p.file = owner.file
    /\ shelf' = shelf

Begun(p) ==
    /\ owner.upload = 0 /\ p.upload = owner.nextId /\ p.nextId = owner.nextId + 1
    /\ p.file = NoFile /\ shelf' = shelf

Wrote(p) ==
    /\ p.upload = owner.upload /\ p.nextId = owner.nextId /\ shelf' = shelf
    /\ \E i \in 1 .. Len(owner.mail) :
          /\ owner.mail[i].op = "write" /\ owner.mail[i].id = owner.upload
          /\ p.file = [owner.file EXCEPT ![owner.mail[i].off] = owner.mail[i].source]

Ended(p) == p.upload = 0 /\ p.nextId = owner.nextId /\ shelf' = shelf

Closes(p) ==
    /\ "finish" \in device.held /\ owner.upload = device.id /\ owner.upload # 0
    /\ p.upload \in {0, owner.upload} /\ p.nextId = owner.nextId /\ p.file = owner.file
    /\ shelf' = shelf \cup {[id |-> owner.upload, file |-> owner.file]}

\* Only a finish commits, and only its own upload.
LEMMA CommitIs ==
    ASSUME Good(device, owner), DeviceTrue(device, owner), NEW i \in 1 .. Len(owner.mail),
           owner.mail[i].op = "commit"
    PROVE  owner.mail[i].id = device.id /\ device.id # 0 /\ "finish" \in device.held
<1>1. CASE OpenPhase(device, owner)
  <2>1. owner.mail = <<>> \/ owner.mail = <<Request("begin", "open", 0, 0, device.source)>>
    BY <1>1 DEF OpenPhase
  <2>2. owner.mail[i].op = "begin"
    BY <2>1 DEF Request
  <2> QED BY <2>2
<1>2. CASE ActivePhase(device, owner)
  <2>1. PICK off, source : owner.mail[i] = Request("write", "write", device.id, off, source)
    BY <1>2 DEF ActivePhase, Writes, WritesOf
  <2>2. owner.mail[i].op = "write"
    BY <2>1 DEF Request
  <2> QED BY <2>2
<1>3. CASE FinishPhase(device, owner)
  <2>1. \/ owner.mail = <<>>
        \/ owner.mail = <<Request(IF device.publishes THEN "commit" ELSE "abort", "finish",
                                  device.id, 0, device.source)>>
    BY <1>3 DEF FinishPhase
  <2>2. owner.mail[i].id = device.id
    BY <2>1 DEF Request
  <2>3. "finish" \in device.held
    BY <1>3 DEF FinishPhase
  <2> QED BY <2>2, <2>3 DEF DeviceTrue
<1>4. CASE AbortPhase(device, owner)
  <2>1. owner.mail[i].op \in {"abort", "write"}
    BY <1>4 DEF AbortPhase, Stale
  <2> QED BY <2>1
<1>5. CASE IdlePhase(device, owner)
  BY <1>5 DEF IdlePhase
<1> QED BY <1>1, <1>2, <1>3, <1>4, <1>5 DEF Good, Phase

LEMMA OwnerStepIs ==
    ASSUME Good(device, owner), DeviceTrue(device, owner), OwnerStep
    PROVE  \E p \in OwnerRecord :
              /\ owner' = p
              /\ \A i \in 1 .. Len(p.mail) : \E j \in 1 .. Len(owner.mail) : p.mail[i] = owner.mail[j]
              /\ Stayed(p) \/ Begun(p) \/ Wrote(p) \/ Ended(p) \/ Closes(p)
<1>1. owner \in OwnerRecord /\ owner.mail # <<>>
  BY DEF Good, OwnerStep
<1>2. PICK n \in Nat : n = Len(owner.mail)
  BY <1>1 DEF OwnerRecord
<1>3. PICK k \in 1 .. n : k = NextRequest
  BY <1>1, <1>2, NextRequestIs
<1>4. PICK r \in OwnerRequest : r = owner.mail[k]
  BY <1>1, <1>2 DEF OwnerRecord
<1>5. /\ r.source \in 0 .. MaxSessions /\ r.for \in {"open", "write", "finish", "abort"}
      /\ owner.nextId \in Nat \ {0} /\ owner.file \in [0 .. Chunks - 1 -> 0 .. MaxSessions]
  BY <1>1 DEF OwnerRequest, OwnerRecord
<1>6. NoFile \in [0 .. Chunks - 1 -> 0 .. MaxSessions]
  BY ConstantsAssumption DEF NoFile
<1>7. ASSUME NEW ok \in BOOLEAN, NEW id \in Nat
      PROVE  \E q \in OwnerRecord :
                /\ q = Answer(r, ok, id)
                /\ q.upload = owner.upload /\ q.nextId = owner.nextId /\ q.file = owner.file
                /\ \A i \in 1 .. Len(q.mail) : \E j \in 1 .. n : q.mail[i] = owner.mail[j]
  <2>1. PICK a \in OwnerAnswer : a = [for |-> r.for, ok |-> ok, id |-> id]
    BY <1>5 DEF OwnerAnswer
  <2>2. PICK q : q = Moved(a)
    OBVIOUS
  <2>3. /\ q \in OwnerRecord
        /\ q.upload = owner.upload /\ q.nextId = owner.nextId /\ q.file = owner.file
        /\ Len(q.mail) = n - 1
        /\ \A j \in 1 .. n - 1 : q.mail[j] = IF j < k THEN owner.mail[j] ELSE owner.mail[j + 1]
    BY <1>1, <1>2, <1>3, <2>2, MovedIs
  <2>4. \A i \in 1 .. n - 1 : i \in 1 .. n /\ i + 1 \in 1 .. n
    OBVIOUS
  <2>5. \A i \in 1 .. n - 1 : \E j \in 1 .. n : q.mail[i] = owner.mail[j]
    BY <2>3, <2>4
  <2>6. q = Answer(r, ok, id)
    BY <2>1, <2>2, AnswerMoves
  <2> QED BY <2>3, <2>5, <2>6
<1>8. PICK no \in OwnerRecord :
         /\ no = Answer(r, FALSE, 0)
         /\ no.upload = owner.upload /\ no.nextId = owner.nextId /\ no.file = owner.file
         /\ \A i \in 1 .. Len(no.mail) : \E j \in 1 .. n : no.mail[i] = owner.mail[j]
  BY <1>7
<1>9. PICK yes \in OwnerRecord :
         /\ yes = Answer(r, TRUE, 0)
         /\ yes.upload = owner.upload /\ yes.nextId = owner.nextId /\ yes.file = owner.file
         /\ \A i \in 1 .. Len(yes.mail) : \E j \in 1 .. n : yes.mail[i] = owner.mail[j]
  BY <1>7
<1>10. OwnerBegin(r) \/ OwnerWrite(r) \/ OwnerCommit(r) \/ OwnerAbort(r)
  BY <1>3, <1>4 DEF OwnerStep
<1>11. CASE OwnerBegin(r)
  <2>1. PICK opened \in OwnerRecord :
           /\ opened = Answer(r, TRUE, owner.nextId)
           /\ \A i \in 1 .. Len(opened.mail) : \E j \in 1 .. n : opened.mail[i] = owner.mail[j]
    BY <1>5, <1>7
  <2>2. PICK id \in Nat \ {0} : id = owner.nextId
    BY <1>5
  <2>3. /\ shelf' = shelf
        /\ \/ owner' = no
           \/ /\ owner.upload = 0
              /\ owner' = [opened EXCEPT !.upload = id, !.nextId = @ + 1, !.file = NoFile]
    BY <1>8, <1>11, <2>1, <2>2 DEF OwnerBegin
  <2>4. CASE owner' = no
    BY <1>2, <1>8, <2>3, <2>4 DEF Stayed
  <2>5. CASE owner' # no
    <3>1. opened.nextId = id
      <4>1. PICK q \in OwnerRecord : q = Answer(r, TRUE, owner.nextId) /\ q.nextId = owner.nextId
        BY <1>5, <1>7
      <4> QED BY <2>1, <2>2, <4>1
    <3>2. PICK p : p = [opened EXCEPT !.upload = id, !.nextId = id + 1, !.file = NoFile]
      OBVIOUS
    <3>3. owner' = p
      BY <2>3, <2>5, <3>1, <3>2
    <3>4. /\ p \in OwnerRecord /\ p.upload = id /\ p.nextId = id + 1 /\ p.file = NoFile
          /\ p.mail = opened.mail
      <4>1. id + 1 \in Nat \ {0}
        OBVIOUS
      <4> QED BY <1>6, <3>2, <4>1 DEF OwnerRecord
    <3>5. Begun(p)
      BY <2>2, <2>3, <2>5, <3>4 DEF Begun
    <3> QED BY <1>2, <2>1, <3>3, <3>4, <3>5, ZenonT(60)
  <2> QED BY <2>4, <2>5
<1>12. CASE OwnerWrite(r)
  <2>1. PICK file : file = [owner.file EXCEPT ![r.off] = r.source]
    OBVIOUS
  <2>2. file \in [0 .. Chunks - 1 -> 0 .. MaxSessions]
    BY <1>5, <2>1
  <2>3. /\ shelf' = shelf /\ r.op = "write"
        /\ \/ owner' = no
           \/ owner.upload = r.id /\ owner' = [yes EXCEPT !.file = file]
           \/ owner.upload = r.id /\ owner' = [no EXCEPT !.file = file]
    BY <1>8, <1>9, <1>12, <2>1 DEF OwnerWrite
  <2>4. CASE owner' = no
    BY <1>2, <1>8, <2>3, <2>4 DEF Stayed
  <2>5. ASSUME NEW q \in {yes, no}, owner.upload = r.id, owner' = [q EXCEPT !.file = file]
        PROVE  \E p \in OwnerRecord :
                  /\ owner' = p /\ Wrote(p)
                  /\ \A i \in 1 .. Len(p.mail) : \E j \in 1 .. n : p.mail[i] = owner.mail[j]
    <3>1. PICK p : p = [q EXCEPT !.file = file]
      OBVIOUS
    <3>2. q \in OwnerRecord /\ q.upload = owner.upload /\ q.nextId = owner.nextId
          /\ \A i \in 1 .. Len(q.mail) : \E j \in 1 .. n : q.mail[i] = owner.mail[j]
      <4>1. CASE q = yes
        BY <1>9, <4>1
      <4>2. CASE q = no
        BY <1>8, <4>2
      <4> QED BY <4>1, <4>2
    <3>3. p \in OwnerRecord /\ p.upload = q.upload /\ p.nextId = q.nextId /\ p.file = file
          /\ p.mail = q.mail
      BY <2>2, <3>1, <3>2 DEF OwnerRecord
    <3>4. Wrote(p)
      <4>1. /\ k \in 1 .. Len(owner.mail)
            /\ owner.mail[k].op = "write" /\ owner.mail[k].id = owner.upload
            /\ p.file = [owner.file EXCEPT ![owner.mail[k].off] = owner.mail[k].source]
        BY <1>2, <1>4, <2>1, <2>3, <2>5, <3>3
      <4>2. p.upload = owner.upload /\ p.nextId = owner.nextId /\ shelf' = shelf
        BY <2>3, <3>2, <3>3
      <4>3. \E i \in 1 .. Len(owner.mail) :
               /\ owner.mail[i].op = "write" /\ owner.mail[i].id = owner.upload
               /\ p.file = [owner.file EXCEPT ![owner.mail[i].off] = owner.mail[i].source]
        BY <4>1
      <4> QED BY <4>2, <4>3 DEF Wrote
    <3>5. owner' = p
      BY <2>5, <3>1
    <3>6. \A i \in 1 .. Len(p.mail) : \E j \in 1 .. n : p.mail[i] = owner.mail[j]
      <4>1. p.mail = q.mail
        BY <3>3
      <4>2. \A i \in 1 .. Len(q.mail) : \E j \in 1 .. n : q.mail[i] = owner.mail[j]
        BY <3>2
      <4> QED BY <4>1, <4>2, Zenon
    <3> QED BY <3>3, <3>4, <3>5, <3>6
  <2> QED BY <1>2, <2>3, <2>4, <2>5
<1>13. CASE OwnerCommit(r)
  <2>1. r.op = "commit"
    BY <1>13 DEF OwnerCommit
  <2>2. r.id = device.id /\ device.id # 0 /\ "finish" \in device.held
    BY <1>2, <1>4, <2>1, CommitIs
  <2>3. PICK published : published = shelf \cup {[id |-> r.id, file |-> owner.file]}
    OBVIOUS
  <2>4. \/ owner.upload = r.id /\ owner' = [yes EXCEPT !.upload = 0] /\ shelf' = published
        \/ owner' = no /\ shelf' = shelf
        \/ owner.upload = r.id /\ owner' = no /\ shelf' = published
    BY <1>8, <1>9, <1>13, <2>3 DEF OwnerCommit
  <2>5. CASE owner' = no /\ shelf' = shelf
    BY <1>2, <1>8, <2>5 DEF Stayed
  <2>6. CASE owner.upload = r.id /\ owner' = no /\ shelf' = published
    BY <1>2, <1>8, <2>2, <2>3, <2>6 DEF Closes
  <2>7. CASE owner.upload = r.id /\ owner' = [yes EXCEPT !.upload = 0] /\ shelf' = published
    <3>1. PICK p : p = [yes EXCEPT !.upload = 0]
      OBVIOUS
    <3>2. p \in OwnerRecord /\ p.upload = 0 /\ p.nextId = yes.nextId /\ p.file = yes.file
          /\ p.mail = yes.mail
      BY <3>1 DEF OwnerRecord
    <3>3. Closes(p)
      BY <1>9, <2>2, <2>3, <2>7, <3>2 DEF Closes
    <3>4. owner' = p
      BY <2>7, <3>1
    <3>5. \A i \in 1 .. Len(p.mail) : \E j \in 1 .. Len(owner.mail) : p.mail[i] = owner.mail[j]
      <4>1. p.mail = yes.mail
        BY <3>2
      <4>2. \A i \in 1 .. Len(yes.mail) : \E j \in 1 .. Len(owner.mail) : yes.mail[i] = owner.mail[j]
        BY <1>2, <1>9
      <4> QED BY <4>1, <4>2, Zenon
    <3> QED BY <3>2, <3>3, <3>4, <3>5
  <2> QED BY <2>4, <2>5, <2>6, <2>7
<1>14. CASE OwnerAbort(r)
  <2>1. /\ shelf' = shelf
        /\ owner' = no \/ owner' = [yes EXCEPT !.upload = 0, !.file = NoFile]
    BY <1>8, <1>9, <1>14 DEF OwnerAbort
  <2>2. CASE owner' = no
    BY <1>2, <1>8, <2>1, <2>2 DEF Stayed
  <2>3. CASE owner' = [yes EXCEPT !.upload = 0, !.file = NoFile]
    <3>1. PICK p : p = [yes EXCEPT !.upload = 0, !.file = NoFile]
      OBVIOUS
    <3>2. p \in OwnerRecord /\ p.upload = 0 /\ p.nextId = yes.nextId /\ p.mail = yes.mail
      BY <1>6, <3>1 DEF OwnerRecord
    <3>3. Ended(p)
      BY <1>9, <2>1, <3>2 DEF Ended
    <3>4. owner' = p
      BY <2>3, <3>1
    <3>5. \A i \in 1 .. Len(p.mail) : \E j \in 1 .. Len(owner.mail) : p.mail[i] = owner.mail[j]
      <4>1. p.mail = yes.mail
        BY <3>2
      <4>2. \A i \in 1 .. Len(yes.mail) : \E j \in 1 .. Len(owner.mail) : yes.mail[i] = owner.mail[j]
        BY <1>2, <1>9
      <4> QED BY <4>1, <4>2, Zenon
    <3> QED BY <3>2, <3>3, <3>4, <3>5
  <2> QED BY <2>1, <2>2, <2>3
<1> QED BY <1>10, <1>11, <1>12, <1>13, <1>14

\* What a finish answers is what it did.
LEMMA FinishAnswered ==
    ASSUME Good(device, owner), OwnerStep, "finish" \in device.held, device.publishes
    PROVE  \A i \in 1 .. Len(owner'.answers) :
              owner'.answers[i].ok => \E b \in shelf' : b.id = device.id
<1>1. owner \in OwnerRecord /\ owner.mail # <<>>
  BY DEF Good, OwnerStep
<1>2. FinishPhase(device, owner)
  BY DEF Good, Phase, IdlePhase, OpenPhase, ActivePhase, AbortPhase
<1>3. /\ owner.mail = <<Request("commit", "finish", device.id, 0, device.source)>>
      /\ owner.answers = <<>>
  BY <1>1, <1>2 DEF FinishPhase
<1>4. Len(owner.mail) = 1 /\ Len(owner.answers) = 0
  BY <1>3
<1>5. PICK r : r = owner.mail[NextRequest]
  OBVIOUS
<1>6. NextRequest = 1 /\ r = Request("commit", "finish", device.id, 0, device.source)
  BY <1>1, <1>3, <1>4, <1>5, NextRequestIs
<1>7. r.op = "commit" /\ r.for = "finish" /\ r.id = device.id
  BY <1>6 DEF Request
<1>8. OwnerCommit(r)
  BY <1>5, <1>7 DEF OwnerStep, OwnerBegin, OwnerWrite, OwnerCommit, OwnerAbort
<1>9. \/ shelf' = shelf \cup {[id |-> device.id, file |-> owner.file]}
      \/ owner' = Answer(r, FALSE, 0)
  BY <1>7, <1>8 DEF OwnerCommit
<1>10. CASE shelf' = shelf \cup {[id |-> device.id, file |-> owner.file]}
  <2>1. PICK b : b = [id |-> device.id, file |-> owner.file]
    OBVIOUS
  <2>2. b \in shelf' /\ b.id = device.id
    BY <1>10, <2>1
  <2> QED BY <2>2
<1>11. CASE owner' = Answer(r, FALSE, 0)
  <2>1. PICK a \in OwnerAnswer : a = [for |-> "finish", ok |-> FALSE, id |-> 0]
    BY DEF OwnerAnswer
  <2>2. owner' = Moved(a)
    BY <1>7, <1>11, <2>1, AnswerMoves
  <2>3. Len(owner'.answers) = 1 /\ owner'.answers[1] = a
    BY <1>1, <1>4, <2>2, OnlyMoved
  <2>4. ~ a.ok
    BY <2>1
  <2> QED BY <2>3, <2>4
<1> QED BY <1>9, <1>10, <1>11

\* The ids that are given stay below the next one, and one that is over
\* stays over.
LEMMA OwnerStepIds ==
    ASSUME owner \in OwnerRecord, OwnerTrue(owner), NEW p \in OwnerRecord,
           Stayed(p) \/ Begun(p) \/ Wrote(p) \/ Ended(p) \/ Closes(p)
    PROVE  /\ owner.nextId <= p.nextId /\ p.upload < p.nextId
           /\ p.upload \in {0, owner.upload, owner.nextId}
           /\ p.upload = owner.nextId => owner.upload = 0 /\ p.file = NoFile
           /\ shelf \subseteq shelf'
           /\ \A b \in shelf' : b.id \in Nat \ {0} /\ b.id < owner.nextId
           /\ \A b \in shelf' : b \in shelf \/ (b.id = owner.upload /\ "finish" \in device.held)
           /\ \A id \in Nat : id < owner.nextId /\ Closed(owner, id) =>
                 p.upload # id /\ \A b \in shelf' : b.id # id
<1>1. PICK next \in Nat \ {0} : next = owner.nextId
  BY DEF OwnerRecord
<1>2. PICK upload \in Nat : upload = owner.upload /\ upload < next
  BY <1>1 DEF OwnerRecord, OwnerTrue
<1>3. /\ p.nextId \in {next, next + 1} /\ p.upload \in {0, upload, next}
      /\ p.upload = next => p.nextId = next + 1 /\ upload = 0 /\ p.file = NoFile
  BY <1>1, <1>2 DEF Stayed, Begun, Wrote, Ended, Closes
<1>4. /\ shelf \subseteq shelf'
      /\ \A b \in shelf' : b \in shelf \/ (b.id = upload /\ upload # 0 /\ "finish" \in device.held)
  <2>1. shelf' = shelf \/ Closes(p)
    BY DEF Stayed, Begun, Wrote, Ended
  <2>2. CASE Closes(p)
    <3>1. PICK b : b = [id |-> upload, file |-> owner.file]
      OBVIOUS
    <3>2. shelf' = shelf \cup {b} /\ b.id = upload /\ upload # 0 /\ "finish" \in device.held
      BY <1>2, <2>2, <3>1 DEF Closes
    <3> QED BY <3>2
  <2> QED BY <2>1, <2>2
<1>5. \A b \in shelf : b.id \in Nat \ {0} /\ b.id < next
  BY <1>1 DEF OwnerTrue
<1>6. \A b \in shelf' : b.id \in Nat \ {0} /\ b.id < next
  BY <1>2, <1>4, <1>5
<1>7. ASSUME NEW id \in Nat, id < next, Closed(owner, id)
      PROVE  p.upload # id /\ \A b \in shelf' : b.id # id
  <2>1. id # 0 /\ upload # id /\ \A b \in shelf : b.id # id
    BY <1>2, <1>7 DEF Closed, Unpublished
  <2> QED BY <1>3, <1>4, <1>7, <2>1
<1>8. next <= p.nextId /\ p.upload < p.nextId
  BY <1>2, <1>3
<1> QED BY <1>1, <1>2, <1>3, <1>4, <1>6, <1>7, <1>8

\* A file only fills, as long as it is of the same upload.
LEMMA OwnerStepFills ==
    ASSUME owner \in OwnerRecord, MailTrue(owner), NEW p \in OwnerRecord, p.upload # 0,
           p.upload = owner.upload,
           Stayed(p) \/ Begun(p) \/ Wrote(p) \/ Ended(p) \/ Closes(p)
    PROVE  /\ \A n : Filled(owner, n) => Filled(p, n)
           /\ owner.upload = host.stream =>
                 \A k \in 0 .. Chunks - 1 : p.file[k] \in {owner.file[k], host.session}
           /\ \A id : Untouched(owner, id) /\ p.upload = id => p.file = NoFile
<1>1. CASE p.file = owner.file
  BY <1>1 DEF Filled, Untouched
<1>2. CASE p.file # owner.file
  <2>1. PICK i \in 1 .. Len(owner.mail) :
           /\ owner.mail[i].op = "write" /\ owner.mail[i].id = owner.upload
           /\ p.file = [owner.file EXCEPT ![owner.mail[i].off] = owner.mail[i].source]
    BY <1>2 DEF Stayed, Begun, Wrote, Ended, Closes
  <2>2. PICK off : off = owner.mail[i].off
    OBVIOUS
  <2>3. PICK source : source = owner.mail[i].source
    OBVIOUS
  <2>4. source # 0 /\ (owner.upload = host.stream => source = host.session)
    BY <2>1, <2>3 DEF MailTrue
  <2>5. owner.file \in [0 .. Chunks - 1 -> 0 .. MaxSessions]
    BY DEF OwnerRecord
  <2>6. \A k \in 0 .. Chunks - 1 : p.file[k] = IF k = off THEN source ELSE owner.file[k]
    BY <2>1, <2>2, <2>3, <2>5
  <2>7. \A id : Untouched(owner, id) => owner.upload # id
    BY <2>1 DEF Untouched
  <2> QED BY <2>4, <2>6, <2>7 DEF Filled
<1> QED BY <1>1, <1>2

LEMMA OwnerStepTrue ==
    ASSUME BulkInv, TruthInv, OwnerStep
    PROVE  TruthInv'
<1>1. /\ Good(device, owner) /\ owner \in OwnerRecord /\ device \in DeviceRecord
      /\ toHost \in Seq(FrameType) /\ tx \in Seq(FrameType) /\ host \in HostType
      /\ Good(device, owner')
      /\ UNCHANGED <<host, device, toHost, tx, toDevice>>
      /\ DeviceTrue(device, owner) /\ OwnerTrue(owner) /\ MailTrue(owner) /\ HostTrue(owner)
      /\ Honest(toHost, device, owner) /\ Honest(tx, device, owner) /\ Once(toHost, tx)
  BY OwnerStepGood DEF BulkInv, HostInv, HostSide, Good, Known, OwnerStep, TruthInv, OwnerTrue, wires
<1>2. PICK p \in OwnerRecord :
         /\ owner' = p
         /\ \A i \in 1 .. Len(p.mail) : \E j \in 1 .. Len(owner.mail) : p.mail[i] = owner.mail[j]
         /\ Stayed(p) \/ Begun(p) \/ Wrote(p) \/ Ended(p) \/ Closes(p)
  BY <1>1, OwnerStepIs
<1>3. PICK next \in Nat \ {0} : next = owner.nextId
  BY <1>1 DEF OwnerRecord
<1>4. PICK stream \in Nat : stream = host.stream /\ stream < next
  BY <1>1, <1>3 DEF HostType, HostTrue
<1>5. /\ p.nextId \in Nat /\ next <= p.nextId /\ p.upload < p.nextId /\ p.upload \in Nat
      /\ p.upload \in {0, owner.upload, next}
      /\ p.upload = next => owner.upload = 0 /\ p.file = NoFile
      /\ shelf \subseteq shelf'
      /\ \A b \in shelf' : b.id \in Nat \ {0} /\ b.id < next
      /\ \A b \in shelf' : b \in shelf \/ (b.id = owner.upload /\ "finish" \in device.held)
      /\ \A id \in Nat : id < next /\ Closed(owner, id) =>
            p.upload # id /\ \A b \in shelf' : b.id # id
  BY <1>1, <1>2, <1>3, OwnerStepIds DEF OwnerRecord
<1>6. p.upload # 0 /\ p.upload = owner.upload =>
         /\ \A n : Filled(owner, n) => Filled(p, n)
         /\ owner.upload = stream =>
               \A k \in 0 .. Chunks - 1 : p.file[k] \in {owner.file[k], host.session}
         /\ \A id : Untouched(owner, id) /\ p.upload = id => p.file = NoFile
  BY <1>1, <1>2, <1>4, OwnerStepFills
<1>7. \A b \in shelf : b.id \in Nat \ {0} /\ b.id < next
  BY <1>1, <1>3 DEF OwnerTrue
<1>8. DeviceTrue(device, owner)'
  <2>1. device.id < p.nextId /\ device.tombstone \in {0, device.id}
    <3>1. PICK id \in Nat : id = device.id
      BY <1>1 DEF DeviceRecord
    <3>2. id < next
      BY <1>1, <1>3, <3>1 DEF DeviceTrue
    <3>3. id < p.nextId
      BY <1>5, <3>2
    <3> QED BY <1>1, <3>1, <3>3 DEF DeviceTrue
  <2>2. "open" \in device.held =>
           device.id = 0 /\ (p.upload # 0 => p.upload # host.stream /\ p.file = NoFile)
    <3> SUFFICES ASSUME "open" \in device.held
                 PROVE  device.id = 0 /\ (p.upload # 0 => p.upload # stream /\ p.file = NoFile)
      BY <1>4
    <3>1. device.id = 0 /\ (owner.upload # 0 => owner.upload # stream /\ owner.file = NoFile)
      BY <1>1, <1>4 DEF DeviceTrue
    <3>2. CASE p.upload = owner.upload /\ p.upload # 0
      <4>1. OpenPhase(device, owner)
        BY <1>1 DEF Good, Phase, IdlePhase, ActivePhase, FinishPhase, AbortPhase
      <4>2. owner.mail = <<>> \/ owner.upload = 0
        BY <4>1 DEF OpenPhase
      <4>3. owner.mail # <<>>
        BY DEF OwnerStep
      <4> QED BY <3>2, <4>2, <4>3
    <3>3. CASE p.upload = next
      BY <1>4, <1>5, <3>1, <3>3
    <3> QED BY <1>5, <3>1, <3>2, <3>3
  <2>3. device.mode = "upload" /\ "finish" \notin device.held =>
           (\A b \in shelf' : b.id # device.id) /\ (\A b \in shelf' : b.id # p.upload)
    <3> SUFFICES ASSUME device.mode = "upload", "finish" \notin device.held, NEW b \in shelf'
                 PROVE  b.id # device.id /\ b.id # p.upload
      OBVIOUS
    <3>1. b \in shelf
      BY <1>5
    <3>2. b.id # device.id /\ b.id # owner.upload
      BY <1>1, <3>1 DEF DeviceTrue, Unpublished
    <3> QED BY <1>5, <1>7, <3>1, <3>2
  <2>4. "finish" \in device.held => device.id # 0
    BY <1>1 DEF DeviceTrue
  <2>5. "finish" \in device.held /\ device.publishes =>
           \A i \in 1 .. Len(p.answers) : p.answers[i].ok => \E b \in shelf' : b.id = device.id
    BY <1>1, <1>2, FinishAnswered
  <2>6. device.active => Filled(p, device.durable)
    <3> SUFFICES ASSUME device.active PROVE Filled(p, device.durable)
      OBVIOUS
    <3>1. ActivePhase(device, owner) /\ ActivePhase(device, p)
      BY <1>1, <1>2 DEF Good, Phase, IdlePhase, OpenPhase, FinishPhase, AbortPhase
    <3>2. p.upload # 0 /\ p.upload = owner.upload
      BY <3>1 DEF ActivePhase
    <3> QED BY <1>1, <1>6, <3>2 DEF DeviceTrue
  <2> QED BY <1>1, <1>2, <2>1, <2>2, <2>3, <2>4, <2>5, <2>6
          DEF DeviceTrue, Filled, Published, Unpublished, NoFile
<1>9. MailTrue(p)
  BY <1>1, <1>2 DEF MailTrue
<1>10. OwnerTrue(owner)'
  <2>1. \A b \in shelf' : b.id \in Nat \ {0} /\ b.id < p.nextId
    <3> SUFFICES ASSUME NEW b \in shelf' PROVE b.id \in Nat \ {0} /\ b.id < p.nextId
      OBVIOUS
    <3>1. PICK id \in Nat \ {0} : id = b.id /\ id < next
      BY <1>5
    <3> QED BY <1>5, <3>1
  <2>2. p.upload = stream /\ stream # 0 =>
           /\ \A k \in 0 .. Chunks - 1 : p.file[k] \in {0, host.session}
           /\ Filled(p, host.durable)
    <3> SUFFICES ASSUME p.upload = stream, stream # 0
                 PROVE  /\ \A k \in 0 .. Chunks - 1 : p.file[k] \in {0, host.session}
                        /\ Filled(p, host.durable)
      OBVIOUS
    <3>1. p.upload = owner.upload /\ p.upload # 0
      BY <1>4, <1>5
    <3>2. (\A k \in 0 .. Chunks - 1 : owner.file[k] \in {0, host.session}) /\ Filled(owner, host.durable)
      BY <1>1, <1>4, <3>1 DEF OwnerTrue
    <3> QED BY <1>6, <3>1, <3>2
  <2>3. MailTrue(owner)'
    BY <1>1, <1>2, <1>9 DEF MailTrue
  <2>4. /\ owner' = p /\ host' = host /\ p.upload < p.nextId
    BY <1>1, <1>2, <1>5
  <2> QED BY <1>4, <2>1, <2>2, <2>3, <2>4 DEF OwnerTrue, Filled
<1>11. HostTrue(owner)'
  <2>1. HostTrue(owner)
    BY <1>1
  <2>2. stream < p.nextId
    BY <1>4, <1>5
  <2>3. host.pc = "done" => \E b \in shelf' : b.id = stream
    BY <1>4, <1>5, <2>1 DEF HostTrue, Published
  <2>4. host.pc = "failed" /\ host.confirmed =>
           stream # 0 /\ p.upload # stream /\ \A b \in shelf' : b.id # stream
    <3> SUFFICES ASSUME host.pc = "failed", host.confirmed
                 PROVE  stream # 0 /\ p.upload # stream /\ \A b \in shelf' : b.id # stream
      OBVIOUS
    <3>1. Closed(owner, stream)
      BY <1>4, <2>1 DEF HostTrue
    <3>2. stream # 0
      BY <3>1 DEF Closed
    <3> QED BY <1>4, <1>5, <3>1, <3>2
  <2> QED BY <1>1, <1>2, <1>4, <2>1, <2>2, <2>3, <2>4 DEF HostTrue, Closed, Published, Unpublished
<1>12. ASSUME NEW f \in FrameType, FrameTrue(f, owner), Quiet(f, device, owner)
       PROVE  FrameTrue(f, p)' /\ Quiet(f, device, p)'
  <2>1. PICK id \in Nat : id = f.id /\ id < next
    BY <1>3, <1>12 DEF FrameType, FrameTrue
  <2>2. id < p.nextId
    BY <1>5, <2>1
  <2>3. f.ok /\ f.op = "open" => id # 0 /\ id # stream /\ Untouched(p, id)
    <3> SUFFICES ASSUME f.ok, f.op = "open" PROVE id # 0 /\ id # stream /\ Untouched(p, id)
      OBVIOUS
    <3>1. id # 0 /\ id # stream /\ Untouched(owner, id)
      BY <1>4, <1>12, <2>1 DEF FrameTrue
    <3>2. p.upload = id => p.file = NoFile
      BY <1>5, <1>6, <2>1, <3>1
    <3>3. \A i \in 1 .. Len(p.mail) : p.mail[i].op = "write" => p.mail[i].id # id
      BY <1>2, <3>1 DEF Untouched
    <3> QED BY <3>1, <3>2, <3>3 DEF Untouched
  <2>4. f.ok /\ f.op \in {"credit", "status"} => id # 0 /\ (p.upload = id => Filled(p, f.durable))
    <3> SUFFICES ASSUME f.ok, f.op \in {"credit", "status"}
                 PROVE  id # 0 /\ (p.upload = id => Filled(p, f.durable))
      OBVIOUS
    <3>1. id # 0 /\ (owner.upload = id => Filled(owner, f.durable))
      BY <1>12, <2>1 DEF FrameTrue
    <3>2. p.upload = id => p.upload = owner.upload
      BY <1>5, <2>1, <3>1
    <3> QED BY <1>6, <3>1, <3>2
  <2>5. f.ok /\ f.op = "finish" /\ f.value = 1 => \E b \in shelf' : b.id = id
    BY <1>5, <1>12, <2>1 DEF FrameTrue, Published
  <2>6. f.ok /\ f.op = "abort" => id # 0 /\ p.upload # id /\ \A b \in shelf' : b.id # id
    <3> SUFFICES ASSUME f.ok, f.op = "abort"
                 PROVE  id # 0 /\ p.upload # id /\ \A b \in shelf' : b.id # id
      OBVIOUS
    <3>1. Closed(owner, id)
      BY <1>12, <2>1 DEF FrameTrue
    <3>2. id # 0
      BY <3>1 DEF Closed
    <3> QED BY <1>5, <2>1, <3>1, <3>2
  <2>7. "open" \in device.held /\ p.upload # 0 => id # p.upload
    BY <1>5, <1>12, <2>1 DEF Quiet
  <2>8. f.op = "credit" => f.ok
    BY <1>12 DEF FrameTrue
  <2> QED BY <1>1, <1>4, <2>1, <2>2, <2>3, <2>4, <2>5, <2>6, <2>7, <2>8
          DEF FrameTrue, Quiet, Untouched, Filled, Closed, Published, Unpublished, NoFile
<1>13. ASSUME NEW s \in Seq(FrameType), Honest(s, device, owner)
       PROVE  \A k \in 1 .. Len(s) : FrameTrue(s[k], p)' /\ Quiet(s[k], device, p)'
  <2> TAKE k \in 1 .. Len(s)
  <2>1. PICK f \in FrameType : f = s[k]
    OBVIOUS
  <2>2. FrameTrue(f, owner) /\ Quiet(f, device, owner)
    BY <1>13, <2>1 DEF Honest
  <2>3. FrameTrue(f, p)' /\ Quiet(f, device, p)'
    BY <1>12, <2>2
  <2> QED BY <2>1, <2>3
<1>14. Honest(toHost, device, owner)' /\ Honest(tx, device, owner)'
  BY <1>1, <1>2, <1>13 DEF Honest
<1>15. Once(toHost, tx)'
  BY <1>1 DEF Once, Announces
<1> QED BY <1>8, <1>10, <1>11, <1>14, <1>15 DEF TruthInv

(***************************************************************************)
(* The steps of the host keep the truth.                                   *)
(***************************************************************************)
\* What the host h knows before it sends or ends: of its session and, once
\* that is open, of one stream.
Follows(h) ==
    /\ h.session = host.session
    /\ h.stream = host.stream \/ host.pc = "opening"
    /\ h.stream < owner.nextId
    /\ h.durable <= h.sent
    /\ h.stream = 0 => h.durable = 0

\* The host after a step that leaves it true, with what it knew in h.
Keeps(h) ==
    /\ HostTrue(owner)'
    /\ host'.session = host.session /\ host'.stream = h.stream /\ host'.durable = h.durable

LEMMA HostFollows ==
    ASSUME host \in HostType, HostTrue(owner)
    PROVE  Follows(host)
BY DEF Follows, HostTrue

LEMMA StepTrue ==
    ASSUME HostTrue(owner), UNCHANGED <<owner, shelf>>, toDevice \in Seq(Sent),
           NEW g, NEW h, NEW frames \in Seq(Sent), Follows(h), Step(g, frames),
           g.session = h.session, g.stream = h.stream, g.durable = h.durable, g.durable <= g.sent,
           g.pc # "opening",
           g.pc = "done" => Published(g.stream),
           g.pc = "failed" /\ g.confirmed => Closed(owner, g.stream),
           \A i \in 1 .. Len(frames) : frames[i].op = "data" =>
              frames[i].source = host.session /\ frames[i].id = g.stream
    PROVE  Keeps(h)
<1>1. host' = g /\ toDevice' = toDevice \o frames /\ owner' = owner /\ shelf' = shelf
  BY DEF Step
<1>2. PICK m \in Nat : m = Len(toDevice)
  OBVIOUS
<1>3. PICK n \in Nat : n = Len(frames)
  OBVIOUS
<1>4. Len(toDevice') = m + n
      /\ \A i \in 1 .. m + n : toDevice'[i] = IF i <= m THEN toDevice[i] ELSE frames[i - m]
  BY <1>1, <1>2, <1>3, ConcatType
<1>5. \A i \in 1 .. m : toDevice[i].op = "data" =>
         toDevice[i].source = host.session /\ toDevice[i].id = g.stream
  BY <1>2 DEF HostTrue, Follows
<1>6. ASSUME NEW i \in 1 .. m + n, toDevice'[i].op = "data"
      PROVE  toDevice'[i].source = host.session /\ toDevice'[i].id = g.stream
  <2>1. CASE i <= m
    <3>1. i \in 1 .. m /\ toDevice'[i] = toDevice[i]
      BY <1>4, <2>1
    <3> QED BY <1>5, <1>6, <3>1
  <2>2. CASE ~ (i <= m)
    <3>1. i - m \in 1 .. n /\ toDevice'[i] = frames[i - m]
      BY <1>4, <2>2
    <3> QED BY <1>3, <1>6, <3>1
  <2> QED BY <2>1, <2>2
<1>7. g.session = host.session /\ g.stream < owner.nextId /\ (g.stream = 0 => g.durable = 0)
  BY DEF Follows
<1>8. HostTrue(owner)'
  BY <1>1, <1>4, <1>6, <1>7 DEF HostTrue, Published, Unpublished, Closed
<1> QED BY <1>1, <1>7, <1>8 DEF Keeps

LEMMA AskTrue ==
    ASSUME HostTrue(owner), UNCHANGED <<owner, shelf>>, toDevice \in Seq(Sent),
           NEW h \in HostType, Follows(h), h.session >= 1,
           NEW pc \in {"status", "finishing", "aborting"}, NEW op \in {"status", "finish", "abort"},
           Ask(h, pc, op)
    PROVE  Keeps(h)
<1>1. PICK g : g = [h EXCEPT !.pc = pc, !.seq = @ + 1]
  OBVIOUS
<1>2. PICK f : f = [op |-> op, seq |-> h.seq + 1, id |-> h.stream, off |-> 0, source |-> h.session]
  OBVIOUS
<1>3. Step(g, <<f>>)
  BY <1>1, <1>2 DEF Ask
<1>4. h.session \in 1 .. MaxSessions /\ h.seq + 1 \in Nat /\ h.stream \in Nat
  BY ConstantsAssumption DEF HostType
<1>5. f \in Sent /\ f.op # "data"
  BY <1>2, <1>4 DEF Sent, Ops
<1>6. <<f>> \in Seq(Sent) /\ Len(<<f>>) = 1 /\ <<f>>[1] = f
  BY <1>5
<1>7. /\ g.pc = pc /\ g.session = h.session /\ g.stream = h.stream /\ g.durable = h.durable
      /\ g.sent = h.sent
  BY <1>1 DEF HostType
<1>8. \A i \in 1 .. Len(<<f>>) : <<f>>[i].op # "data"
  BY <1>5, <1>6
<1>9. g.durable <= g.sent
  BY <1>7 DEF Follows
<1>10. PICK frames \in Seq(Sent) : frames = <<f>>
  BY <1>6
<1> QED BY <1>3, <1>7, <1>8, <1>9, <1>10, StepTrue

LEMMA GiveUpTrue ==
    ASSUME HostTrue(owner), UNCHANGED <<owner, shelf>>, HostSide, host.pc \in Waiting, GiveUp
    PROVE  Keeps(host)
<1>1. host \in HostType /\ toDevice \in Seq(Sent) /\ host.session >= 1
  BY DEF HostSide
<1> QED BY <1>1, HostFollows, AskTrue DEF GiveUp

\* The host reports a confirmed cleanup only of an upload that is over.
LEMMA EndTrue ==
    ASSUME HostTrue(owner), UNCHANGED <<owner, shelf>>, HostSide, NEW confirmed \in BOOLEAN,
           confirmed => Closed(owner, host.stream), End(confirmed)
    PROVE  Keeps(host)
<1>1. PICK g : g = [host EXCEPT !.pc = "failed", !.confirmed = confirmed]
  OBVIOUS
<1>2. host \in HostType /\ toDevice \in Seq(Sent)
  BY DEF HostSide
<1>3. PICK frames : frames = <<>> /\ frames \in Seq(Sent)
  <2>1. <<>> \in Seq(Sent)
    OBVIOUS
  <2> QED BY <2>1
<1>4. Step(g, frames)
  BY <1>1, <1>3 DEF End
<1>5. /\ g.pc = "failed" /\ g.session = host.session /\ g.stream = host.stream
      /\ g.durable = host.durable /\ g.sent = host.sent /\ g.confirmed = confirmed
  BY <1>1, <1>2 DEF HostType
<1>6. Len(frames) = 0
  BY <1>3
<1>7. g.durable <= g.sent
  BY <1>5 DEF HostTrue
<1>8. g.confirmed => Closed(owner, g.stream)
  BY <1>5
<1>9. \A i \in 1 .. Len(frames) : frames[i].op = "data" =>
         frames[i].source = host.session /\ frames[i].id = g.stream
  BY <1>6
<1>10. Follows(host)
  BY <1>2, HostFollows
<1> QED BY <1>2, <1>3, <1>4, <1>5, <1>7, <1>8, <1>9, <1>10, StepTrue

LEMMA StopTrue ==
    ASSUME HostTrue(owner), UNCHANGED <<owner, shelf>>, HostSide, host.pc \in Waiting, Stop
    PROVE  Keeps(host)
BY EndTrue, GiveUpTrue DEF Stop

\* All that is sent for a stream carries its id and its session.
LEMMA ProceedTrue ==
    ASSUME HostTrue(owner), UNCHANGED <<owner, shelf>>, toDevice \in Seq(Sent),
           NEW h \in HostType, Follows(h), h.session >= 1, Proceed(h)
    PROVE  Keeps(h)
<1>0. h.session \in Nat /\ h.sent \in 0 .. Chunks /\ h.credits \in Nat /\ h.stream \in Nat
      /\ h.session \in 1 .. MaxSessions /\ Chunks \in Nat /\ h.durable \in Nat
  BY ConstantsAssumption DEF HostType
<1>1. CASE h.durable < Chunks
  <2>1. PICK n : n = Min({h.credits, Chunks - h.sent})
    OBVIOUS
  <2>2. n \in Nat
    BY <1>0, <2>1, MinOfTwo
  <2>3. PICK g : g = [h EXCEPT !.pc = "polling", !.sent = @ + n, !.credits = @ - n]
    OBVIOUS
  <2>4. PICK frames : frames = [k \in 1 .. n |-> [op |-> "data", seq |-> 0, id |-> h.stream,
                                          off |-> h.sent + k - 1, source |-> h.session]]
    OBVIOUS
  <2>5. Step(g, frames)
    BY <1>1, <2>1, <2>3, <2>4 DEF Proceed
  <2>6. \A k \in 1 .. n : /\ frames[k] \in Sent
                          /\ frames[k].source = h.session /\ frames[k].id = h.stream
    <3>1. \A k \in 1 .. n : h.sent + k - 1 \in Nat
      BY <1>0, <2>2
    <3> QED BY <1>0, <2>4, <3>1 DEF Sent, Ops
  <2>7. frames \in Seq(Sent) /\ Len(frames) = n
    BY <2>2, <2>4, <2>6
  <2>8. /\ g.pc = "polling" /\ g.session = h.session /\ g.stream = h.stream
        /\ g.durable = h.durable /\ g.sent = h.sent + n
    BY <2>3 DEF HostType
  <2>9. g.durable <= g.sent
    BY <1>0, <2>2, <2>8 DEF Follows
  <2>10. h.session = host.session
    BY DEF Follows
  <2> QED BY <2>5, <2>6, <2>7, <2>8, <2>9, <2>10, StepTrue
<1>2. CASE ~ (h.durable < Chunks)
  <2>1. Ask(h, "finishing", "finish")
    BY <1>2 DEF Proceed
  <2> QED BY <2>1, AskTrue
<1> QED BY <1>1, <1>2

\* A frame that is taken leaves the others.
LEMMA OnceThinned ==
    ASSUME NEW s \in Seq(FrameType), NEW t, Once(s, t), NEW k \in 1 .. Len(s)
    PROVE  /\ RemoveAt(s, k) \in Seq(FrameType) /\ Once(RemoveAt(s, k), t)
           /\ \A i \in 1 .. Len(RemoveAt(s, k)) :
                 \E j \in 1 .. Len(s) : j # k /\ RemoveAt(s, k)[i] = s[j]
<1>1. PICK n \in Nat : n = Len(s)
  OBVIOUS
<1>2. PICK u : u = RemoveAt(s, k)
  OBVIOUS
<1>3. /\ u \in Seq(FrameType) /\ Len(u) = n - 1
      /\ \A i \in 1 .. n - 1 : u[i] = IF i < k THEN s[i] ELSE s[i + 1]
  BY <1>1, <1>2, RemoveAtProperties
<1>4. PICK at : at = [i \in 1 .. n - 1 |-> IF i < k THEN i ELSE i + 1]
  OBVIOUS
<1>5. \A i \in 1 .. n - 1 : at[i] \in 1 .. n /\ at[i] # k /\ u[i] = s[at[i]]
  BY <1>1, <1>3, <1>4
<1>6. \A i, j \in 1 .. n - 1 : i # j => at[i] # at[j]
  BY <1>4
<1>7. Once(u, t)
  <2>1. ASSUME NEW i \in 1 .. n - 1, Announces(u[i])
        PROVE  /\ \A j \in 1 .. n - 1 : i # j /\ Announces(u[j]) => u[i].id # u[j].id
               /\ \A j \in 1 .. Len(t) : Announces(t[j]) => u[i].id # t[j].id
    <3>1. PICK a \in 1 .. n : a = at[i] /\ u[i] = s[a]
      BY <1>5
    <3>2. /\ \A j \in 1 .. n : a # j /\ Announces(s[j]) => s[a].id # s[j].id
          /\ \A j \in 1 .. Len(t) : Announces(t[j]) => s[a].id # t[j].id
      BY <1>1, <2>1, <3>1 DEF Once
    <3>3. \A j \in 1 .. n - 1 : i # j => at[j] \in 1 .. n /\ at[j] # a /\ u[j] = s[at[j]]
      BY <1>5, <1>6, <3>1
    <3> QED BY <3>1, <3>2, <3>3
  <2> QED BY <1>3, <2>1 DEF Once
<1> QED BY <1>1, <1>2, <1>3, <1>5, <1>7

\* Nothing is added to the line, and nothing said of the stream of the host
\* is about another one.
LEMMA HostTold ==
    ASSUME UNCHANGED <<device, owner, shelf, tx>>,
           Honest(toHost, device, owner), Honest(tx, device, owner),
           NEW stream, host'.stream = stream,
           NEW s, toHost' = s,
           \A i \in 1 .. Len(s) : \E j \in 1 .. Len(toHost) :
              s[i] = toHost[j] /\ (Announces(toHost[j]) => toHost[j].id # stream),
           \A j \in 1 .. Len(tx) : Announces(tx[j]) => tx[j].id # stream
    PROVE  Honest(toHost, device, owner)' /\ Honest(tx, device, owner)'
<1>1. ASSUME NEW f, FrameTrue(f, owner), Quiet(f, device, owner), Announces(f) => f.id # stream
      PROVE  FrameTrue(f, owner)' /\ Quiet(f, device, owner)'
  BY <1>1 DEF FrameTrue, Quiet, Announces, Untouched, Closed, Filled, Published, Unpublished, NoFile
<1>2. ASSUME NEW i \in 1 .. Len(s)
      PROVE  FrameTrue(s[i], owner)' /\ Quiet(s[i], device, owner)'
  <2>1. PICK j \in 1 .. Len(toHost) :
           s[i] = toHost[j] /\ (Announces(toHost[j]) => toHost[j].id # stream)
    OBVIOUS
  <2>2. PICK f : f = s[i]
    OBVIOUS
  <2>3. FrameTrue(f, owner) /\ Quiet(f, device, owner) /\ (Announces(f) => f.id # stream)
    BY <2>1, <2>2 DEF Honest
  <2>4. FrameTrue(f, owner)' /\ Quiet(f, device, owner)'
    BY <1>1, <2>3
  <2> QED BY <2>2, <2>4
<1>3. PICK t : t = tx
  OBVIOUS
<1>4. ASSUME NEW i \in 1 .. Len(t)
      PROVE  FrameTrue(t[i], owner)' /\ Quiet(t[i], device, owner)'
  <2>1. PICK f : f = t[i]
    OBVIOUS
  <2>2. FrameTrue(f, owner) /\ Quiet(f, device, owner) /\ (Announces(f) => f.id # stream)
    BY <1>3, <2>1 DEF Honest
  <2>3. FrameTrue(f, owner)' /\ Quiet(f, device, owner)'
    BY <1>1, <2>2
  <2> QED BY <2>1, <2>3
<1> QED BY <1>2, <1>3, <1>4 DEF Honest

LEMMA SameStreamTrue ==
    ASSUME TruthInv, UNCHANGED <<device, owner, shelf, tx>>, HostTrue(owner)',
           host'.session = host.session, host'.stream = host.stream,
           owner.upload = host.stream /\ host.stream # 0 => Filled(owner, host'.durable),
           NEW s, toHost' = s, Once(s, tx),
           \A i \in 1 .. Len(s) : \E j \in 1 .. Len(toHost) : s[i] = toHost[j]
    PROVE  TruthInv'
<1>1. /\ DeviceTrue(device, owner) /\ OwnerTrue(owner) /\ MailTrue(owner)
      /\ Honest(toHost, device, owner) /\ Honest(tx, device, owner)
  BY DEF TruthInv, OwnerTrue
<1>2. DeviceTrue(device, owner)'
  BY <1>1 DEF DeviceTrue, Filled, Published, Unpublished, NoFile
<1>3. OwnerTrue(owner)'
  BY <1>1 DEF OwnerTrue, MailTrue, Filled
<1>4. PICK stream : stream = host.stream
  OBVIOUS
<1>5. /\ \A j \in 1 .. Len(toHost) : Announces(toHost[j]) => toHost[j].id # stream
      /\ \A j \in 1 .. Len(tx) : Announces(tx[j]) => tx[j].id # stream
  BY <1>1, <1>4 DEF Honest, FrameTrue, Announces
<1>6. Honest(toHost, device, owner)' /\ Honest(tx, device, owner)'
  <2>1. \A i \in 1 .. Len(s) : \E j \in 1 .. Len(toHost) :
              s[i] = toHost[j] /\ (Announces(toHost[j]) => toHost[j].id # stream)
    BY <1>5
  <2>2. host'.stream = stream
    BY <1>4
  <2> QED BY <1>1, <1>5, <2>1, <2>2, HostTold
<1>7. Once(toHost, tx)'
  BY DEF Once, Announces
<1> QED BY <1>2, <1>3, <1>6, <1>7 DEF TruthInv

\* The upload that an open announces is nobody else's, and nothing of it has
\* been sent.
LEMMA FreshStreamTrue ==
    ASSUME TruthInv, UNCHANGED <<device, owner, shelf, tx>>, HostTrue(owner)',
           toHost \in Seq(FrameType), NEW k \in 1 .. Len(toHost),
           toHost[k].op = "open", toHost[k].ok,
           host'.session = host.session, host'.stream = toHost[k].id, host'.durable = 0,
           toHost' = RemoveAt(toHost, k)
    PROVE  TruthInv'
<1>1. /\ DeviceTrue(device, owner) /\ OwnerTrue(owner) /\ MailTrue(owner) /\ Once(toHost, tx)
      /\ Honest(toHost, device, owner) /\ Honest(tx, device, owner)
  BY DEF TruthInv, OwnerTrue
<1>2. PICK f \in FrameType : f = toHost[k]
  OBVIOUS
<1>3. PICK id \in Nat : id = f.id
  BY DEF FrameType
<1>4. Announces(f) /\ FrameTrue(f, owner) /\ Quiet(f, device, owner)
  BY <1>1, <1>2 DEF Honest, Announces
<1>5. /\ id # 0 /\ Untouched(owner, id) /\ host'.stream = id
      /\ "open" \in device.held /\ owner.upload # 0 => owner.upload # id
  BY <1>2, <1>3, <1>4 DEF FrameTrue, Quiet, Announces
<1>6. DeviceTrue(device, owner)'
  BY <1>1, <1>5 DEF DeviceTrue, Filled, Published, Unpublished, NoFile
<1>7. OwnerTrue(owner)'
  <2>1. \A i \in 1 .. Len(owner.mail) : owner.mail[i].op = "write" => owner.mail[i].id # id
    BY <1>5 DEF Untouched
  <2>2. MailTrue(owner)'
    BY <1>1, <1>5, <2>1 DEF MailTrue
  <2>3. owner.upload = id => \A i \in 0 .. Chunks - 1 : owner.file[i] = 0
    <3> SUFFICES ASSUME owner.upload = id PROVE \A i \in 0 .. Chunks - 1 : owner.file[i] = 0
      OBVIOUS
    <3>1. owner.file = NoFile
      BY <1>5 DEF Untouched
    <3> QED BY <3>1 DEF NoFile
  <2>5. Filled(owner, 0)
    BY DEF Filled
  <2>4. owner.upload < owner.nextId /\ \A b \in shelf : b.id \in Nat \ {0} /\ b.id < owner.nextId
    BY <1>1 DEF OwnerTrue
  <2> QED BY <1>5, <2>2, <2>3, <2>4, <2>5 DEF OwnerTrue, Filled
<1>8. PICK s : s = RemoveAt(toHost, k)
  OBVIOUS
<1>9. /\ Once(s, tx)
      /\ \A i \in 1 .. Len(s) : \E j \in 1 .. Len(toHost) : j # k /\ s[i] = toHost[j]
  BY <1>1, <1>8, OnceThinned
<1>10. /\ \A j \in 1 .. Len(toHost) : j # k /\ Announces(toHost[j]) => toHost[j].id # id
       /\ \A j \in 1 .. Len(tx) : Announces(tx[j]) => tx[j].id # id
  BY <1>1, <1>2, <1>3, <1>4 DEF Once
<1>11. Honest(toHost, device, owner)' /\ Honest(tx, device, owner)'
  <2>1. \A i \in 1 .. Len(s) : \E j \in 1 .. Len(toHost) :
              s[i] = toHost[j] /\ (Announces(toHost[j]) => toHost[j].id # id)
    BY <1>9, <1>10
  <2>2. toHost' = s /\ host'.stream = id
    BY <1>5, <1>8
  <2> QED BY <1>1, <1>10, <2>1, <2>2, HostTold
<1>12. Once(toHost, tx)'
  BY <1>8, <1>9 DEF Once, Announces
<1> QED BY <1>6, <1>7, <1>11, <1>12 DEF TruthInv

LEMMA StartTrue ==
    ASSUME BulkInv, TruthInv, Start
    PROVE  TruthInv'
<1>1. /\ host \in HostType /\ owner \in OwnerRecord
      /\ UNCHANGED <<device, tx, owner, shelf>> /\ toHost' = <<>> /\ tx = <<>> /\ toDevice = <<>>
      /\ DeviceTrue(device, owner) /\ OwnerTrue(owner) /\ MailTrue(owner)
  BY DEF BulkInv, HostInv, HostSide, Good, Start, TruthInv, OwnerTrue
<1>2. PICK g : g = [Idling EXCEPT !.session = host.session + 1]
  OBVIOUS
<1>3. PICK h : h = [g EXCEPT !.pc = "opening", !.seq = @ + 1]
  OBVIOUS
<1>4. PICK f : f = [op |-> "open", seq |-> g.seq + 1, id |-> g.stream, off |-> 0, source |-> g.session]
  OBVIOUS
<1>5. host' = h /\ toDevice' = <<f>>
  <2>1. Step(h, <<f>>)
    BY <1>2, <1>3, <1>4 DEF Start, Ask
  <2>2. toDevice' = toDevice \o <<f>>
    BY <2>1 DEF Step
  <2> QED BY <1>1, <2>1, <2>2 DEF Step
<1>6. /\ h.pc = "opening" /\ h.stream = 0 /\ h.durable = 0 /\ h.sent = 0
      /\ h.session = host.session + 1
  BY <1>2, <1>3 DEF Idling
<1>7. Len(toDevice') = 1 /\ toDevice'[1].op = "open"
  BY <1>4, <1>5
<1>8. HostTrue(owner)'
  <2>1. 0 < owner.nextId
    BY <1>1 DEF OwnerRecord
  <2>2. \A i \in 1 .. Len(toDevice') : toDevice'[i].op # "data"
    BY <1>7
  <2> QED BY <1>1, <1>5, <1>6, <2>1, <2>2 DEF HostTrue
<1>9. DeviceTrue(device, owner)'
  BY <1>1, <1>5, <1>6 DEF DeviceTrue, Filled, Published, Unpublished, NoFile
<1>10. OwnerTrue(owner)'
  BY <1>1, <1>5, <1>6 DEF OwnerTrue, MailTrue, Filled
<1>11. Honest(toHost, device, owner)' /\ Honest(tx, device, owner)' /\ Once(toHost, tx)'
  <2>1. Len(toHost') = 0 /\ Len(tx') = 0
    BY <1>1
  <2> QED BY <2>1 DEF Honest, Once
<1> QED BY <1>8, <1>9, <1>10, <1>11 DEF TruthInv

\* The frame that the host takes is true of what it takes it for.
LEMMA ReceiveTrue ==
    ASSUME BulkInv, TruthInv, Receive
    PROVE  TruthInv'
<1>1. /\ HostSide /\ host \in HostType /\ host.pc \in Waiting /\ toDevice \in Seq(Sent)
      /\ owner \in OwnerRecord /\ toHost \in Seq(FrameType) /\ host.session >= 1
      /\ UNCHANGED <<device, tx, owner, shelf>>
      /\ HostTrue(owner) /\ OwnerTrue(owner)
      /\ Honest(toHost, device, owner) /\ Once(toHost, tx)
  BY DEF BulkInv, HostInv, HostSide, Good, Receive, TruthInv
<1>2. PICK k \in 1 .. Len(toHost) : k = Position
  BY <1>1, PositionType DEF Receive
<1>3. PICK f \in FrameType : f = toHost[k]
  BY <1>1
<1>4. /\ f.id \in Nat /\ f.ok \in BOOLEAN /\ f.durable \in Nat /\ f.value \in Nat
      /\ FrameTrue(f, owner) /\ f.op = Awaited /\ toHost' = RemoveAt(toHost, k)
  BY <1>1, <1>2, <1>3 DEF FrameType, Honest, Receive
<1>5. PICK s : s = RemoveAt(toHost, k)
  OBVIOUS
<1>6. /\ Once(s, tx) /\ toHost' = s
      /\ \A i \in 1 .. Len(s) : \E j \in 1 .. Len(toHost) : s[i] = toHost[j]
  BY <1>1, <1>4, <1>5, OnceThinned
<1>7. /\ host.durable \in Nat /\ host.sent \in 0 .. Chunks /\ host.credits \in Nat
      /\ host.stream \in Nat /\ Follows(host)
      /\ owner.upload = host.stream /\ host.stream # 0 => Filled(owner, host.durable)
  BY <1>1, HostFollows DEF HostType, OwnerTrue
<1>8. ASSUME Keeps(host) PROVE TruthInv'
  BY <1>1, <1>6, <1>7, <1>8, SameStreamTrue DEF Keeps
<1>9. ASSUME NEW h \in HostType, Follows(h), h.stream = host.stream, Proceed(h),
             h.session = host.session, owner.upload = f.id => Filled(owner, h.durable),
             f.id = host.stream
      PROVE  TruthInv'
  <2>1. Keeps(h)
    BY <1>1, <1>9, ProceedTrue
  <2> QED BY <1>1, <1>6, <1>9, <2>1, SameStreamTrue DEF Keeps
<1>10. CASE f.op = "open"
  <2>1. GotOpen(f) /\ host.pc = "opening"
    BY <1>1, <1>2, <1>3, <1>4, <1>10 DEF Receive, Awaited, Waiting
  <2>2. CASE ~ f.ok
    BY <1>1, <1>8, <2>1, <2>2, EndTrue DEF GotOpen
  <2>3. CASE f.ok
    <3>0. Window \in Nat
      BY ConstantsAssumption
    <3>1. PICK h : h = [host EXCEPT !.stream = f.id, !.credits = Window]
      OBVIOUS
    <3>2. /\ h \in HostType /\ h.session = host.session /\ h.stream = f.id
          /\ h.durable = host.durable /\ h.sent = host.sent
      BY <1>1, <1>4, <3>0, <3>1 DEF HostType
    <3>3. f.id # 0 /\ f.id < owner.nextId
      BY <1>4, <1>10, <2>3 DEF FrameTrue
    <3>4. Follows(h)
      BY <1>7, <2>1, <3>2, <3>3 DEF Follows
    <3>5. Proceed(h)
      BY <2>1, <2>3, <3>1 DEF GotOpen
    <3>6. Keeps(h) /\ host.durable = 0
      BY <1>1, <2>1, <3>2, <3>4, <3>5, ProceedTrue DEF HostTrue
    <3> QED BY <1>1, <1>3, <1>4, <1>10, <2>3, <3>2, <3>6, FreshStreamTrue DEF Keeps
  <2> QED BY <1>4, <2>2, <2>3
<1>11. CASE f.op = "credit"
  <2>1. GotCredit(f)
    BY <1>2, <1>3, <1>11 DEF Receive
  <2>2. CASE ~ (f.id = host.stream /\ ValidDurable(f) /\ host.credits + f.value <= Window)
    BY <1>1, <1>8, <2>1, <2>2, GiveUpTrue DEF GotCredit
  <2>3. CASE f.id = host.stream /\ ValidDurable(f) /\ host.credits + f.value <= Window
    <3>1. PICK credits \in Nat : credits = host.credits + f.value
      BY <1>4, <1>7
    <3>2. PICK h : h = [host EXCEPT !.durable = f.durable, !.credits = credits]
      OBVIOUS
    <3>3. /\ h \in HostType /\ h.session = host.session /\ h.stream = host.stream
          /\ h.durable = f.durable /\ h.sent = host.sent
      BY <1>1, <1>4, <3>2 DEF HostType
    <3>4. Proceed(h)
      BY <2>1, <2>3, <3>1, <3>2 DEF GotCredit
    <3>5. f.id # 0 /\ (owner.upload = f.id => Filled(owner, f.durable))
      BY <1>4, <1>11 DEF FrameTrue
    <3>6. Follows(h)
      BY <1>7, <2>3, <3>3, <3>5 DEF Follows, ValidDurable
    <3> QED BY <1>9, <2>3, <3>3, <3>4, <3>5, <3>6
  <2> QED BY <2>2, <2>3
<1>12. CASE f.op = "status"
  <2>1. GotStatus(f)
    BY <1>2, <1>3, <1>12 DEF Receive
  <2>2. CASE ~ (f.ok /\ f.id = host.stream /\ ValidDurable(f))
    BY <1>1, <1>8, <2>1, <2>2, GiveUpTrue DEF GotStatus
  <2>3. CASE f.ok /\ f.id = host.stream /\ ValidDurable(f)
    <3>1. PICK h : h = [host EXCEPT !.durable = f.durable, !.sent = f.durable, !.credits = f.value]
      OBVIOUS
    <3>2. f.durable \in 0 .. Chunks /\ f.durable <= f.durable
      <4>1. PICK durable \in Nat : durable = f.durable
        BY <1>4
      <4>2. PICK sent \in 0 .. Chunks : sent = host.sent
        BY <1>7
      <4>3. durable <= sent
        BY <2>3, <4>1, <4>2 DEF ValidDurable
      <4>4. Chunks \in Nat
        BY ConstantsAssumption
      <4>5. durable \in 0 .. Chunks /\ durable <= durable
        BY <4>2, <4>3, <4>4
      <4> QED BY <4>1, <4>5
    <3>3. /\ h \in HostType /\ h.session = host.session /\ h.stream = host.stream
          /\ h.durable = f.durable /\ h.sent = f.durable
      BY <1>1, <1>4, <3>1, <3>2 DEF HostType
    <3>4. Proceed(h)
      BY <2>1, <2>3, <3>1 DEF GotStatus
    <3>5. f.id # 0 /\ (owner.upload = f.id => Filled(owner, f.durable))
      BY <1>4, <1>12, <2>3 DEF FrameTrue
    <3>6. Follows(h)
      BY <1>7, <2>3, <3>2, <3>3, <3>5 DEF Follows
    <3> QED BY <1>9, <2>3, <3>3, <3>4, <3>5, <3>6
  <2> QED BY <2>2, <2>3
<1>13. CASE f.op = "finish"
  <2>1. GotFinish(f)
    BY <1>2, <1>3, <1>13 DEF Receive
  <2>2. CASE ~ (f.ok /\ f.value = 1 /\ f.id = host.stream)
    BY <1>1, <1>8, <2>1, <2>2, GiveUpTrue DEF GotFinish
  <2>3. CASE f.ok /\ f.value = 1 /\ f.id = host.stream
    <3>1. PICK g : g = [host EXCEPT !.pc = "done"]
      OBVIOUS
    <3>2. /\ g.pc = "done" /\ g.session = host.session /\ g.stream = host.stream
          /\ g.durable = host.durable /\ g.sent = host.sent
      BY <1>1, <3>1 DEF HostType
    <3>3. Published(host.stream)
      BY <1>4, <1>13, <2>3 DEF FrameTrue
    <3>4. PICK frames : frames = <<>> /\ frames \in Seq(Sent) /\ Len(frames) = 0
      <4>1. <<>> \in Seq(Sent) /\ Len(<<>>) = 0
        OBVIOUS
      <4> QED BY <4>1
    <3>5. Step(g, frames)
      BY <2>1, <2>3, <3>1, <3>4 DEF GotFinish
    <3>6. g.durable <= g.sent
      BY <1>7, <3>2 DEF Follows
    <3>7. \A i \in 1 .. Len(frames) : frames[i].op = "data" =>
             frames[i].source = host.session /\ frames[i].id = g.stream
      BY <3>4
    <3>8. Keeps(host)
      BY <1>1, <1>7, <3>2, <3>3, <3>4, <3>5, <3>6, <3>7, StepTrue
    <3> QED BY <1>8, <3>8
  <2> QED BY <2>2, <2>3
<1>14. CASE f.op = "abort"
  <2>1. PICK confirmed \in BOOLEAN : confirmed = (f.ok /\ f.id = host.stream)
    OBVIOUS
  <2>2. End(confirmed)
    BY <1>2, <1>3, <1>14, <2>1 DEF Receive
  <2>3. confirmed => Closed(owner, host.stream)
    BY <1>4, <1>14, <2>1 DEF FrameTrue
  <2> QED BY <1>1, <1>8, <2>2, <2>3, EndTrue
<1>15. f.op \in {"open", "credit", "status", "finish", "abort"}
  BY <1>1, <1>4 DEF Awaited, Waiting
<1> QED BY <1>10, <1>11, <1>12, <1>13, <1>14, <1>15

\* A step in which the host, still true, only drops frames it had.
LEMMA KeptTrue ==
    ASSUME BulkInv, TruthInv, UNCHANGED <<device, owner, shelf, tx>>, Keeps(host),
           NEW s, toHost' = s, Once(s, tx),
           \A i \in 1 .. Len(s) : \E j \in 1 .. Len(toHost) : s[i] = toHost[j]
    PROVE  TruthInv'
<1>1. /\ HostTrue(owner)' /\ host'.session = host.session /\ host'.stream = host.stream
      /\ host'.durable = host.durable
  BY DEF Keeps
<1>2. owner.upload = host.stream /\ host.stream # 0 => Filled(owner, host'.durable)
  BY <1>1 DEF TruthInv, OwnerTrue
<1> QED BY <1>1, <1>2, SameStreamTrue

LEMMA AllKeptTrue ==
    ASSUME BulkInv, TruthInv, UNCHANGED <<device, owner, shelf, tx, toHost>>, Keeps(host)
    PROVE  TruthInv'
<1>1. PICK s : s = toHost
  OBVIOUS
<1>2. Once(s, tx) /\ \A i \in 1 .. Len(s) : \E j \in 1 .. Len(toHost) : s[i] = toHost[j]
  BY <1>1 DEF TruthInv
<1>3. toHost' = s
  BY <1>1
<1> QED BY <1>2, <1>3, KeptTrue

LEMMA OneDroppedTrue ==
    ASSUME BulkInv, TruthInv, UNCHANGED <<device, owner, shelf, tx>>, Keeps(host),
           NEW k \in 1 .. Len(toHost), toHost' = RemoveAt(toHost, k)
    PROVE  TruthInv'
<1>1. toHost \in Seq(FrameType) /\ Once(toHost, tx)
  BY DEF BulkInv, HostInv, TruthInv
<1>2. PICK s : s = RemoveAt(toHost, k)
  OBVIOUS
<1>3. Once(s, tx) /\ \A i \in 1 .. Len(s) : \E j \in 1 .. Len(toHost) : s[i] = toHost[j]
  BY <1>1, <1>2, OnceThinned
<1>4. toHost' = s
  BY <1>2
<1> QED BY <1>3, <1>4, KeptTrue

LEMMA TimeoutTrue ==
    ASSUME BulkInv, TruthInv, Timeout
    PROVE  TruthInv'
<1>1. /\ HostSide /\ HostTrue(owner) /\ host \in HostType /\ toDevice \in Seq(Sent)
      /\ host.pc \in Waiting /\ host.session >= 1
      /\ UNCHANGED <<device, owner, shelf, tx, toHost>>
  BY DEF BulkInv, HostInv, HostSide, TruthInv, Timeout
<1>2. CASE host.pc = "polling"
  <2>1. Ask(host, "status", "status")
    BY <1>2 DEF Timeout
  <2>2. Keeps(host)
    BY <1>1, <2>1, HostFollows, AskTrue
  <2> QED BY <1>1, <2>2, AllKeptTrue
<1>3. CASE host.pc # "polling"
  <2>1. Stop
    BY <1>3 DEF Timeout
  <2>2. Keeps(host)
    BY <1>1, <2>1, StopTrue
  <2> QED BY <1>1, <2>2, AllKeptTrue
<1> QED BY <1>2, <1>3

LEMMA UnroutableTrue ==
    ASSUME BulkInv, TruthInv, Unroutable
    PROVE  TruthInv'
<1>1. /\ HostSide /\ HostTrue(owner) /\ toHost \in Seq(FrameType)
      /\ host.pc \in Waiting /\ Stop /\ UNCHANGED <<device, owner, shelf, tx>>
  BY DEF BulkInv, HostInv, TruthInv, Unroutable
<1>2. Keeps(host)
  BY <1>1, StopTrue
<1>3. CASE Len(toHost) > QueueCapacity /\ toHost' = RemoveAt(toHost, QueueCapacity + 1)
  <2>1. QueueCapacity + 1 \in 1 .. Len(toHost)
    BY <1>1, <1>3, ConstantsAssumption
  <2> QED BY <1>1, <1>2, <1>3, <2>1, OneDroppedTrue
<1>4. CASE UNCHANGED toHost
  BY <1>1, <1>2, <1>4, AllKeptTrue
<1> QED BY <1>3, <1>4 DEF Unroutable

LEMMA GarbleTrue ==
    ASSUME BulkInv, TruthInv, Garble
    PROVE  TruthInv'
<1>1. /\ HostSide /\ HostTrue(owner)
      /\ host.pc \in Waiting /\ Stop /\ UNCHANGED <<device, owner, shelf, tx>>
  BY DEF BulkInv, HostInv, TruthInv, Garble
<1>2. Keeps(host)
  BY <1>1, StopTrue
<1>3. PICK k \in 1 .. Len(toHost) : toHost' = RemoveAt(toHost, k)
  BY DEF Garble
<1> QED BY <1>1, <1>2, <1>3, OneDroppedTrue

LEMMA LoseTrue ==
    ASSUME BulkInv, TruthInv, Lose
    PROVE  TruthInv'
<1>1. /\ HostTrue(owner) /\ toDevice \in Seq(Sent) /\ toDevice # <<>>
      /\ toDevice' = Tail(toDevice) /\ UNCHANGED <<host, toHost, tx, device, owner, shelf>>
  BY DEF BulkInv, HostInv, HostSide, TruthInv, Lose
<1>2. PICK n \in Nat : n = Len(toDevice)
  BY <1>1
<1>3. n >= 1 /\ Len(toDevice') = n - 1 /\ \A i \in 1 .. n - 1 : toDevice'[i] = toDevice[i + 1]
  BY <1>1, <1>2
<1>4. ASSUME NEW i \in 1 .. n - 1, toDevice'[i].op = "data"
      PROVE  host.pc # "opening" /\ toDevice'[i].source = host.session /\ toDevice'[i].id = host.stream
  <2>1. i + 1 \in 1 .. n /\ toDevice'[i] = toDevice[i + 1]
    BY <1>3
  <2> QED BY <1>1, <1>2, <1>4, <2>1 DEF HostTrue
<1>5. HostTrue(owner)'
  BY <1>1, <1>3, <1>4 DEF HostTrue, Published, Unpublished, Closed
<1>6. Keeps(host)
  BY <1>1, <1>5 DEF Keeps
<1> QED BY <1>1, <1>6, AllKeptTrue

LEMMA KillTrue ==
    ASSUME BulkInv, TruthInv, Kill
    PROVE  TruthInv'
<1>1. /\ HostTrue(owner) /\ host \in HostType
      /\ host' = [host EXCEPT !.pc = "gone"]
      /\ UNCHANGED <<toDevice, toHost, tx, device, owner, shelf>>
  BY DEF BulkInv, HostInv, HostSide, TruthInv, Kill, wires
<1>2. /\ host'.pc = "gone" /\ host'.session = host.session /\ host'.stream = host.stream
      /\ host'.durable = host.durable /\ host'.sent = host.sent
  BY <1>1 DEF HostType
<1>3. HostTrue(owner)'
  BY <1>1, <1>2 DEF HostTrue
<1>4. Keeps(host)
  BY <1>2, <1>3 DEF Keeps
<1> QED BY <1>1, <1>4, AllKeptTrue

(***************************************************************************)
(* The theorem.                                                            *)
(***************************************************************************)
LEMMA TruthInitially == Init => TruthInv
<1> SUFFICES ASSUME Init PROVE TruthInv
  OBVIOUS
<1>1. /\ host = Idling /\ Len(toDevice) = 0 /\ Len(toHost) = 0 /\ Len(tx) = 0 /\ shelf = {}
  BY DEF Init
<1>2. /\ owner.upload = 0 /\ owner.nextId = 1 /\ Len(owner.mail) = 0
  BY DEF Init
<1>3. /\ device.mode = "idle" /\ device.held = {} /\ device.active = FALSE
      /\ device.id = 0 /\ device.tombstone = 0
  BY DEF Init, Idle, Opening
<1>4. DeviceTrue(device, owner)
  BY <1>2, <1>3 DEF DeviceTrue
<1>5. /\ host.pc = "idle" /\ host.stream = 0 /\ host.durable = 0 /\ host.sent = 0
  BY <1>1 DEF Idling
<1>6. OwnerTrue(owner)
  BY <1>1, <1>2, <1>5 DEF OwnerTrue, MailTrue
<1>7. HostTrue(owner)
  BY <1>1, <1>2, <1>5 DEF HostTrue
<1>8. Honest(toHost, device, owner) /\ Honest(tx, device, owner) /\ Once(toHost, tx)
  BY <1>1 DEF Honest, Once
<1> QED BY <1>4, <1>6, <1>7, <1>8 DEF TruthInv

LEMMA TruthStays ==
    ASSUME BulkInv, TruthInv, [Next]_vars
    PROVE  TruthInv'
<1>1. CASE UNCHANGED vars
  <2>1. UNCHANGED <<host, device, owner, shelf, toDevice, toHost, tx>>
    BY <1>1 DEF vars, wires
  <2>2. HostTrue(owner)'
    BY <2>1 DEF TruthInv, HostTrue, Published, Unpublished, Closed
  <2>3. Keeps(host)
    BY <2>1, <2>2 DEF Keeps
  <2> QED BY <2>1, <2>3, AllKeptTrue
<1>2. CASE Next
  BY <1>2, StartTrue, ReceiveTrue, TimeoutTrue, UnroutableTrue, GarbleTrue, KillTrue, LoseTrue,
     HandleFrameTrue, TransmitTrue, HandleOwnerTrue, ExpireIdleTrue, OwnerStepTrue, Zenon
     DEF Next, DeviceStep
<1> QED BY <1>1, <1>2

(* What the host reports and counts is true of the card: success only of   *)
(* what is published, a confirmed cleanup only of what is neither published *)
(* nor open, and as durable only chunks of its own file that the owner has. *)
THEOREM HostAlwaysInformed == Spec => []HostInformed
<1>1. BulkInv /\ TruthInv => HostInformed
  <2> SUFFICES ASSUME BulkInv, TruthInv PROVE HostInformed
    OBVIOUS
  <2>1. HostTrue(owner) /\ OwnerTrue(owner) /\ host \in HostType
    BY DEF TruthInv, BulkInv, HostInv, HostSide
  <2>2. HostTruth
    BY <2>1 DEF HostTruth, HostTrue, Published, Unpublished, Closed
  <2>3. ASSUME owner.upload = host.stream, NEW k \in 0 .. host.durable - 1
        PROVE  owner.file[k] = host.session
    <3>1. PICK durable \in Nat, sent \in 0 .. Chunks : durable = host.durable /\ sent = host.sent
      BY <2>1 DEF HostType
    <3>2. durable <= sent /\ (host.stream = 0 => durable = 0)
      BY <2>1, <3>1 DEF HostTrue
    <3>3. k \in 0 .. Chunks - 1 /\ k < durable /\ host.stream # 0
      BY <2>3, <3>1, <3>2, ConstantsAssumption
    <3>4. owner.file[k] \in {0, host.session} /\ owner.file[k] # 0
      BY <2>1, <2>3, <3>1, <3>3 DEF OwnerTrue, Filled
    <3> QED BY <3>4
  <2> QED BY <2>2, <2>3 DEF HostInformed, HostProgressIsDurable
<1>2. Spec => []TruthInv
  <2>1. BulkInv /\ TruthInv /\ [Next]_vars => TruthInv'
    BY TruthStays
  <2> QED BY <2>1, TruthInitially, StreamInStep, PTL DEF Spec
<1> QED BY <1>1, <1>2, StreamInStep, PTL
================================================================================
