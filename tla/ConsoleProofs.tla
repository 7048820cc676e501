---------------------------- MODULE ConsoleProofs ----------------------------
(***************************************************************************)
(* That the gray overlay yields, for every size of the queues and channels *)
(* and every bound: whoever puts a request into the queue moves the epoch, *)
(* and the overlay remembers the epoch it began with.                      *)
(*                                                                         *)
(* That the console and the aggregator never wait for each other: what is  *)
(* reserved, completed or waits for room never exceeds the channel of the  *)
(* completions while the console waits for an answer.                      *)
(*                                                                         *)
(* That every request a host waits for is on its way: the commands keep    *)
(* the order in which they were sent, so that none that is older, or of an *)
(* older invocation, takes the place of one that is waited for.            *)
(*                                                                         *)
(* That panel, engine and console agree when all has settled: the events   *)
(* that wait, in the sink and in the channel, always end in the page the   *)
(* engine is on and in the count of the open book.                         *)
(***************************************************************************)
EXTENDS Console, FiniteSetTheorems, SequenceTheorems, TLAPS

(* While an overlay is being written, the epoch has moved on as soon as a  *)
(* request waits.                                                          *)
YieldInv ==
    /\ epoch \in Nat
    /\ "at" \in DOMAIN job
    /\ job.at = "overlay" =>
        /\ job.epoch \in Nat
        /\ job.epoch <= epoch
        /\ queue # <<>> => job.epoch < epoch

(* Publishing the events ends what the display task was doing.             *)
LEMMA PublishEnds ==
    ASSUME NEW pushed, Publish(pushed)
    PROVE  "at" \in DOMAIN job' /\ job'.at \in {"idle", "flush"}
BY DEF Publish, Idle

(* So does a recovery.                                                     *)
LEMMA RecoverEnds ==
    ASSUME NEW seq, NEW page, Recover(seq, page)
    PROVE  "at" \in DOMAIN job' /\ job'.at \in {"idle", "flush"}
BY PublishEnds DEF Recover

(* What a step of the display task does to the epoch and to the overlay it *)
(* writes: the queue only gets shorter, and a new overlay finds it empty.  *)
LEMMA DisplayKeepsYield ==
    ASSUME YieldInv, EngineNext
    PROVE  YieldInv'
<1>0. epoch' = epoch
  BY DEF EngineNext, Flush, ServeAtOnce, Start, FinishTurn, FinishProbe, StartCleanup, FinishCleanup,
         StartOverlay, CancelOverlay, ActivateOverlay, FinishBase, OverlayFails, FinishMenu,
         FinishBack, FinishSelect, SelectRefused, PowerRefresh, SleepRefused
<1>1. SUFFICES "at" \in DOMAIN job' /\ (job'.at # "overlay" \/ (job' = job /\ queue' = queue)
                                        \/ (queue' = <<>> /\ job'.epoch = epoch))
  BY <1>0 DEF YieldInv
<1>2. CASE Flush BY <1>2, PublishEnds DEF Flush
<1>3. CASE ServeAtOnce BY <1>3, PublishEnds DEF ServeAtOnce
<1>4. CASE Start BY <1>4 DEF Start
<1>5. CASE FinishTurn BY <1>5, PublishEnds, RecoverEnds DEF FinishTurn
<1>6. CASE FinishProbe BY <1>6, PublishEnds DEF FinishProbe
<1>7. CASE StartCleanup BY <1>7 DEF StartCleanup, Poll, YieldInv
<1>8. CASE FinishCleanup BY <1>8, PublishEnds, RecoverEnds DEF FinishCleanup
<1>9. CASE StartOverlay BY <1>9 DEF StartOverlay, Poll
<1>10. CASE CancelOverlay BY <1>10, PublishEnds DEF CancelOverlay
<1>11. CASE ActivateOverlay BY <1>11 DEF ActivateOverlay, YieldInv
<1>12. CASE FinishBase BY <1>12, PublishEnds DEF FinishBase
<1>13. CASE OverlayFails BY <1>13, RecoverEnds DEF OverlayFails
<1>14. CASE FinishMenu BY <1>14, PublishEnds DEF FinishMenu
<1>15. CASE FinishBack BY <1>15, PublishEnds DEF FinishBack
<1>16. CASE FinishSelect BY <1>16, PublishEnds DEF FinishSelect
<1>17. CASE SelectRefused BY <1>17, PublishEnds DEF SelectRefused
<1>18. CASE PowerRefresh
  BY <1>18, PublishEnds DEF PowerRefresh
<1>19. CASE SleepRefused BY <1>19, PublishEnds DEF SleepRefused
<1> QED
  BY <1>2, <1>3, <1>4, <1>5, <1>6, <1>7, <1>8, <1>9, <1>10, <1>11, <1>12, <1>13, <1>14, <1>15,
     <1>16, <1>17, <1>18, <1>19
  DEF EngineNext

(* A request that is put into the queue moves the epoch, always.           *)
LEMMA QueryKeepsYield ==
    ASSUME YieldInv, ServeQuery
    PROVE  YieldInv'
<1>1. job' = job
  BY DEF ServeQuery
<1>2. CASE queue' = queue /\ epoch' = epoch
  BY <1>1, <1>2 DEF YieldInv
<1>3. CASE epoch' = epoch + 1
  BY <1>1, <1>3 DEF YieldInv
<1>4. (queue' = queue /\ epoch' = epoch) \/ epoch' = epoch + 1
  BY DEF ServeQuery
<1> QED
  BY <1>2, <1>3, <1>4

LEMMA YieldInvInit == Init => YieldInv
BY DEF Init, EngineInit, Idle, YieldInv

LEMMA YieldInvNext == YieldInv /\ [Next]_vars => YieldInv'
<1> SUFFICES ASSUME YieldInv, [Next]_vars PROVE YieldInv'
  OBVIOUS
<1>1. CASE Display BY <1>1, DisplayKeepsYield DEF Display
<1>2. CASE DisplayForgets BY <1>2 DEF DisplayForgets, SelectLost, Idle, YieldInv
<1>3. CASE ServeQuery BY <1>3, QueryKeepsYield
<1>4. CASE UNCHANGED <<queue, epoch, job>> BY <1>4 DEF YieldInv
<1>5. Next \/ UNCHANGED <<queue, epoch, job>>
  BY DEF vars, engineVars
<1>6. ConsoleTask => UNCHANGED <<queue, epoch, job>>
  BY DEF ConsoleTask, Gather, Decode, Handle, Enqueued, Written, PublishErrors, engineVars
<1>7. Commit \/ CommitSends => UNCHANGED <<queue, epoch, job>>
  BY DEF Commit, CommitSends, engineVars
<1>8. Host => UNCHANGED <<queue, epoch, job>>
  BY DEF Host, SendKey, SendCommand, Send, NewInvocation, HostReads, engineVars
<1> QED
  BY <1>1, <1>2, <1>3, <1>4, <1>5, <1>6, <1>7, <1>8 DEF Next, Aggregator

(* An overlay that the panel is told to show finds no request waiting: it  *)
(* was undisturbed, and a request would have disturbed it                  *)
(* (plane_write.rs, the comparison of the epochs).                         *)
LEMMA ActivationIsUndisturbed ==
    ASSUME YieldInv, [Next]_vars, job.at = "overlay", job'.at = "base"
    PROVE  queue = <<>>
<1>1. CASE ActivateOverlay
  BY <1>1 DEF ActivateOverlay, Undisturbed, YieldInv
<1>2. CASE CancelOverlay \/ OverlayFails
  BY <1>2, PublishEnds, RecoverEnds DEF CancelOverlay, OverlayFails
<1>3. ~(job.at = "overlay" /\ job'.at = "base" /\ job' = job)
  OBVIOUS
<1> QED
  BY <1>1, <1>2, <1>3
  DEF Next, Display, DisplayForgets, EngineNext, Flush, ServeAtOnce, Start, Take, Poll, Serving,
      FinishTurn, FinishProbe, StartCleanup, FinishCleanup, StartOverlay, FinishBase, FinishMenu,
      FinishBack, FinishSelect, SelectRefused, SelectLost, PowerRefresh, SleepRefused,
      ConsoleTask, Gather, Decode, Handle, Enqueued, Written, PublishErrors,
      Aggregator, Commit, CommitSends, ServeQuery,
      Host, SendKey, SendCommand, Send, NewInvocation, HostReads, vars, engineVars

(* The gray overlay is never activated while a request waits, for every    *)
(* number of pages, requests and failures and every capacity of the queues *)
(* (engine_flow.rs, overlay; plane_write.rs).                              *)
THEOREM OverlayAlwaysYields == Spec => OverlayYields
<1>1. Spec => []YieldInv
  BY YieldInvInit, YieldInvNext, PTL DEF Spec
<1>2. YieldInv /\ [Next]_vars => [job.at = "overlay" /\ job'.at = "base" => queue = <<>>]_vars
  BY ActivationIsUndisturbed
<1> QED
  BY <1>1, <1>2, PTL DEF Spec, OverlayYields

(* A reservation, a completion on its way, or one that waits for room.     *)
Outstanding == Cardinality(pending) + Len(committing) + Len(done)

(* The console asks the aggregator, or will without emptying the channel   *)
(* of the completions before.                                              *)
Asks ==
    \/ con.at \in {"status", "announce", "errors"}
    \/ con.at = "enqueue" /\ reply.kind = "none"
    \/ con.at = "write" /\ errors

(* One question at a time: a query or its answer is where the console that *)
(* asked it waits.                                                         *)
Exchange ==
    /\ query.kind = "none" \/ reply.kind = "none"
    /\ query.kind \in {"none", "status", "errors", "enqueue"}
    /\ reply.kind \in {"none", "status", "ack", "reserve"}
    /\ query.kind = "status" \/ reply.kind = "status" => con.at = "status"
    /\ query.kind = "errors" \/ reply.kind = "ack" => con.at = "errors"
    /\ query.kind = "enqueue" \/ reply.kind = "reserve" => con.at = "enqueue"

(* A sequence, whatever of.                                                *)
IsSequence(s) == s \in Seq({s[i] : i \in DOMAIN s})

(* At most the queue's capacity is outstanding when the console asks; one  *)
(* command more can be reserved before it empties the channel.  A          *)
(* completion that waits for room is the last one outstanding beside those *)
(* in the channel.                                                         *)
StuckInv ==
    /\ IsFiniteSet(pending) /\ Cardinality(pending) <= QueueCapacity
    /\ IsSequence(done) /\ IsSequence(committing)
    /\ Len(done) <= DoneCapacity /\ Len(committing) <= 1
    /\ committing # <<>> => pending = {}
    /\ Outstanding <= QueueCapacity + 1
    /\ Asks => Outstanding <= QueueCapacity
    /\ errors \in BOOLEAN /\ "at" \in DOMAIN con
    /\ con.at \in {"wait", "status", "announce", "enqueue"} => ~errors
    /\ con.at = "errors" => errors
    /\ Exchange

LEMMA SequenceOfItsOwn ==
    ASSUME NEW S, NEW s \in Seq(S)
    PROVE  IsSequence(s)
<1> DEFINE R == {s[i] : i \in DOMAIN s}
<1>1. Len(s) \in Nat /\ DOMAIN s = 1 .. Len(s) /\ s = [i \in 1 .. Len(s) |-> s[i]]
  BY LenProperties
<1>2. \A i \in 1 .. Len(s) : s[i] \in R
  BY <1>1
<1> HIDE DEF R
<1>3. s \in Seq(R)
  BY <1>1, <1>2, IsASeq
<1> QED
  BY <1>3 DEF IsSequence, R

LEMMA SequenceGrows ==
    ASSUME NEW s, NEW x, IsSequence(s)
    PROVE  IsSequence(Append(s, x)) /\ Len(Append(s, x)) = Len(s) + 1
<1> DEFINE R == {s[i] : i \in DOMAIN s} \cup {x}
<1>1. s \in Seq(R)
  BY DEF IsSequence
<1> HIDE DEF R
<1>2. x \in R
  BY DEF R
<1>3. Append(s, x) \in Seq(R) /\ Len(Append(s, x)) = Len(s) + 1
  BY <1>1, <1>2, AppendProperties
<1> QED
  BY <1>3, SequenceOfItsOwn

LEMMA SingleIsSequence ==
    ASSUME NEW x
    PROVE  IsSequence(<<x>>) /\ Len(<<x>>) = 1 /\ <<x>> # <<>>
BY DEF IsSequence

LEMMA EmptyIsSequence == IsSequence(<<>>) /\ Len(<<>>) = 0
BY DEF IsSequence

(* A completion that waited takes its place.                               *)
LEMMA SequenceTakesOne ==
    ASSUME NEW s, NEW t, IsSequence(s), IsSequence(t), t # <<>>, Len(t) <= 1
    PROVE  IsSequence(s \o t) /\ Len(s \o t) = Len(s) + 1 /\ Len(t) = 1
<1> DEFINE R == {s[i] : i \in DOMAIN s} \cup {t[i] : i \in DOMAIN t}
<1>1. s \in Seq(R) /\ t \in Seq(R)
  BY DEF IsSequence
<1> HIDE DEF R
<1>2. Len(t) = 1
  <2> DEFINE n == Len(t)
  <2>1. n \in Nat \ {0} /\ n <= 1
    BY <1>1, EmptySeq
  <2> HIDE DEF n
  <2>2. n = 1
    BY <2>1
  <2> QED
    BY <2>2 DEF n
<1>3. s \o t \in Seq(R) /\ Len(s \o t) = Len(s) + Len(t)
  BY <1>1, ConcatProperties
<1> QED
  BY <1>2, <1>3, SequenceOfItsOwn

LEMMA StuckInvInit == Init => StuckInv
<1> SUFFICES ASSUME Init PROVE StuckInv
  OBVIOUS
<1>1. done = <<>> /\ committing = <<>> /\ pending = {} /\ ~errors /\ errors \in BOOLEAN
  BY DEF Init
<1>2. Cardinality(pending) = 0 /\ IsFiniteSet(pending) /\ Len(done) = 0 /\ Len(committing) = 0
  BY <1>1, FS_EmptySet, EmptyIsSequence
<1>3. IsSequence(done) /\ IsSequence(committing)
  BY <1>1, EmptyIsSequence
<1>4. con.at = "wait" /\ "at" \in DOMAIN con /\ Exchange
  BY DEF Init, Waiting, Exchange
<1> QED
  BY <1>1, <1>2, <1>3, <1>4, ConstantsAssumption DEF StuckInv, Outstanding

(* The console empties the channel before it asks: only what is reserved,  *)
(* or the one completion that waits for room, is still outstanding.        *)
LEMMA GatherKeepsStuck ==
    ASSUME StuckInv, Gather
    PROVE  StuckInv'
<1>1. done' = <<>> /\ IsSequence(done') /\ Len(done') = 0
  BY EmptyIsSequence DEF Gather
<1>2. UNCHANGED <<pending, committing, errors, reply>> /\ ~errors
  BY DEF Gather, aggVars, StuckInv
<1>3. con'.at \in {"status", "write", "wait"} /\ "at" \in DOMAIN con'
  BY <1>2 DEF Gather, AfterFrame, Waiting
<1>4. Exchange'
  BY <1>2 DEF Gather, AfterFrame, Waiting, StuckInv, Exchange
<1>5. Outstanding' <= QueueCapacity
  <2>1. CASE committing = <<>>
    BY <1>1, <1>2, <2>1, EmptyIsSequence, FS_CardinalityType DEF Outstanding, StuckInv
  <2>2. CASE committing # <<>>
    <3>1. Cardinality(pending) = 0
      BY <2>2, FS_EmptySet DEF StuckInv
    <3>2. Len(committing) \in Nat /\ Len(committing) <= 1
      BY DEF StuckInv, IsSequence
    <3> QED
      BY <1>1, <1>2, <3>1, <3>2, ConstantsAssumption DEF Outstanding
  <2> QED
    BY <2>1, <2>2
<1>6. Outstanding' \in Int
  BY <1>1, <1>2, FS_CardinalityType DEF Outstanding, StuckInv, IsSequence
<1> QED
  BY <1>1, <1>2, <1>3, <1>4, <1>5, <1>6, ConstantsAssumption DEF StuckInv

(* The other steps of the console leave what is outstanding alone.         *)
LEMMA ConsoleKeepsStuck ==
    ASSUME StuckInv, Decode \/ Handle \/ Enqueued \/ Written \/ PublishErrors
    PROVE  StuckInv'
<1>1. UNCHANGED <<pending, committing, done>>
  BY DEF Decode, Handle, Enqueued, Written, PublishErrors, aggVars
<1>2. Outstanding' = Outstanding
  BY <1>1 DEF Outstanding
<1>3. IsSequence(done)' /\ IsSequence(committing)'
  BY <1>1 DEF StuckInv
<1>9. IsFiniteSet(pending)' /\ Cardinality(pending)' <= QueueCapacity
  BY <1>1 DEF StuckInv
<1>4. CASE Decode
  <2>1. con.at = "status" /\ ~errors /\ Exchange' /\ "at" \in DOMAIN con'
    BY <1>4 DEF Exchange, Decode, AfterFrame, Waiting, StuckInv
  <2>4. errors = FALSE
    BY <2>1 DEF StuckInv
  <2>2. \/ errors' = TRUE /\ con'.at \in {"write", "errors"}
        \/ errors' = FALSE /\ con'.at = "announce"
    BY <1>4, <2>4 DEF Decode, AfterFrame, Waiting
  <2>3. Outstanding <= QueueCapacity
    BY <2>1 DEF StuckInv, Asks
  <2> QED
    BY <1>1, <1>2, <1>3, <2>1, <2>2, <2>3, <1>9 DEF StuckInv
<1>5. CASE Handle
  <2>3. con.at = "announce" /\ ~errors /\ errors' = errors /\ reply' = reply
    BY <1>5 DEF Handle, StuckInv
  <2>4. \/ con' = [Waiting EXCEPT !.at = AfterFrame] /\ query' = query
        \/ con' = [con EXCEPT !.at = "enqueue"] /\ query'.kind = "enqueue"
    <3>1. \/ con' = [Waiting EXCEPT !.at = AfterFrame] /\ UNCHANGED query
          \/ /\ query' = [kind |-> "enqueue", command |-> con.command,
                           request |-> RequestOf(con.command)]
             /\ con' = [con EXCEPT !.at = "enqueue"]
      BY <1>5, Zenon DEF Handle
    <3>2. query' = [kind |-> "enqueue", command |-> con.command, request |-> RequestOf(con.command)]
          => query'.kind = "enqueue"
      OBVIOUS
    <3> QED
      BY <3>1, <3>2, Zenon
  <2>5. /\ "at" \in DOMAIN con'
        /\ \/ con'.at \in {"write", "wait"} /\ query' = query
           \/ con'.at = "enqueue" /\ query'.kind = "enqueue"
    BY <2>3, <2>4 DEF AfterFrame, Waiting, StuckInv
  <2>1. Exchange'
    BY <2>3, <2>5 DEF Exchange, StuckInv
  <2>2. con'.at \in {"write", "wait", "enqueue"}
    BY <2>5
  <2> QED
    BY <1>1, <1>2, <1>3, <2>1, <2>2, <2>3, <2>5 DEF StuckInv, Asks
<1>6. CASE Enqueued
  BY <1>1, <1>2, <1>3, <1>6 DEF Exchange, Enqueued, AfterFrame, Waiting, StuckInv, Asks
<1>7. CASE Written
  BY <1>1, <1>2, <1>3, <1>7 DEF Exchange, Written, AfterFrame, Waiting, StuckInv, Asks
<1>8. CASE PublishErrors
  <2>3. con.at = "errors" /\ errors
    BY <1>8 DEF PublishErrors, StuckInv
  <2>4. \/ /\ reply.kind = "ack" /\ reply'.kind = "none" /\ query' = query
           /\ con' = Waiting /\ errors' = FALSE
        \/ /\ reply.kind # "ack" /\ reply' = reply /\ query.kind = "none" /\ query'.kind = "errors"
           /\ con' = con /\ errors' = errors
    BY <1>8 DEF PublishErrors
  <2>5. Waiting.at = "wait" /\ "at" \in DOMAIN Waiting
    BY DEF Waiting
  <2>1. Exchange' /\ "at" \in DOMAIN con'
    BY <2>3, <2>4, <2>5 DEF Exchange, StuckInv
  <2>6. errors = TRUE
    BY <2>3 DEF StuckInv
  <2>2. \/ con'.at = "wait" /\ errors' = FALSE
        \/ con'.at = "errors" /\ errors' = TRUE
    BY <2>3, <2>4, <2>5, <2>6
  <2>7. Outstanding <= QueueCapacity
    BY <2>3 DEF StuckInv, Asks
  <2> QED
    BY <1>1, <1>2, <1>3, <1>9, <2>1, <2>2, <2>7 DEF StuckInv
<1> QED
  BY <1>4, <1>5, <1>6, <1>7, <1>8

(* A completion takes its reservation with it, and finds the channel full  *)
(* only when it was the last.                                              *)
LEMMA CommitKeepsStuck ==
    ASSUME StuckInv, Commit
    PROVE  StuckInv'
<1>1. UNCHANGED <<con, errors, query, reply>> /\ committing = <<>>
  BY DEF Commit, conVars
<1>2. PICK own \in SUBSET pending :
          /\ pending' = pending \ own
          /\ IF own = {} THEN UNCHANGED <<done, committing>>
             ELSE \E completion :
                    IF RoomForDone THEN done' = Append(done, completion) /\ UNCHANGED committing
                    ELSE committing' = <<completion>> /\ UNCHANGED done
  <2> DEFINE event == Head(events)
             taken == IF event.kind = "done" THEN Reserved(event.seq) ELSE {}
  <2>1. taken \in SUBSET pending
    BY DEF Reserved
  <2>2. /\ pending' = pending \ taken
        /\ IF taken = {} THEN UNCHANGED <<done, committing>>
           ELSE LET completion == [command |-> CHOOSE c \in taken : TRUE, ok |-> event.ok] IN
                IF RoomForDone THEN done' = Append(done, completion) /\ UNCHANGED committing
                ELSE committing' = <<completion>> /\ UNCHANGED done
    BY DEF Commit
  <2> HIDE DEF taken
  <2> QED
    BY <2>1, <2>2
<1>3. CASE own = {}
  <2>1. UNCHANGED <<pending, done, committing>>
    BY <1>2, <1>3
  <2> QED
    BY <1>1, <2>1 DEF StuckInv, Outstanding, Asks, Exchange, IsSequence
<1>4. CASE own # {}
  <2>1. IsFiniteSet(pending') /\ Cardinality(pending') <= Cardinality(pending) - 1
        /\ Cardinality(pending') \in Nat /\ Cardinality(pending) \in Nat
    <3>1. PICK c \in own : TRUE
      BY <1>4
    <3>2. IsFiniteSet(pending \ {c}) /\ Cardinality(pending \ {c}) = Cardinality(pending) - 1
      BY <1>2, <3>1, FS_RemoveElement DEF StuckInv
    <3>3. pending' \subseteq pending \ {c}
      BY <1>2, <3>1
    <3> QED
      BY <3>2, <3>3, FS_Subset, FS_CardinalityType DEF StuckInv
  <2>2. Len(done) \in Nat /\ Len(committing) = 0 /\ IsSequence(committing)
    BY <1>1, EmptyIsSequence DEF StuckInv, IsSequence
  <2>3. PICK completion :
          IF RoomForDone THEN done' = Append(done, completion) /\ UNCHANGED committing
          ELSE committing' = <<completion>> /\ UNCHANGED done
    BY <1>2, <1>4
  <2>4. CASE RoomForDone
    <3>1. IsSequence(done') /\ Len(done') = Len(done) + 1 /\ committing' = committing
      BY <2>3, <2>4, SequenceGrows DEF StuckInv
    <3>2. Len(done') <= DoneCapacity
      BY <2>2, <2>4, <3>1, ConstantsAssumption DEF RoomForDone
    <3>3. IsSequence(committing)' /\ Len(committing') = 0 /\ committing' = <<>>
      BY <1>1, <2>2, <3>1
    <3>4. Outstanding' <= Outstanding /\ Outstanding' \in Nat /\ Outstanding \in Nat
      BY <2>1, <2>2, <3>1, <3>3 DEF Outstanding
    <3> QED
      BY <1>1, <2>1, <3>1, <3>2, <3>3, <3>4, ConstantsAssumption DEF StuckInv, Asks, Exchange
  <2>5. CASE ~RoomForDone
    <3>1. IsSequence(committing') /\ Len(committing') = 1 /\ done' = done
      BY <2>3, <2>5, SingleIsSequence
    <3>2. Len(done) = DoneCapacity
      BY <2>2, <2>5, ConstantsAssumption DEF RoomForDone, StuckInv
    <3>3. Outstanding' <= Outstanding /\ Outstanding' \in Nat /\ Outstanding \in Nat
      BY <2>1, <2>2, <3>1 DEF Outstanding
    <3>4. Cardinality(pending') = 0
      BY <2>1, <2>2, <3>1, <3>2, <3>3, ConstantsAssumption, CapacityAssumption
      DEF StuckInv, Outstanding
    <3>5. pending' = {}
      BY <2>1, <3>4, FS_EmptySet
    <3>6. IsSequence(done)'
      BY <3>1 DEF StuckInv
    <3> QED
      BY <1>1, <2>1, <3>1, <3>3, <3>4, <3>5, <3>6, ConstantsAssumption DEF StuckInv, Asks, Exchange
  <2> QED
    BY <2>4, <2>5
<1> QED
  BY <1>3, <1>4

LEMMA CommitSendsKeepsStuck ==
    ASSUME StuckInv, CommitSends
    PROVE  StuckInv'
<1>1. UNCHANGED <<con, errors, query, reply, pending>>
  BY DEF CommitSends, conVars
<1>6. Len(done) \in Nat
  BY DEF StuckInv, IsSequence
<1>2. IsSequence(done') /\ Len(done') = Len(done) + 1 /\ Len(committing) = 1
  BY SequenceTakesOne DEF CommitSends, StuckInv
<1>3. committing' = <<>> /\ IsSequence(committing)' /\ Len(committing') = 0
  BY EmptyIsSequence DEF CommitSends
<1>4. Len(done') <= DoneCapacity
  BY <1>2, <1>6, ConstantsAssumption DEF CommitSends, RoomForDone
<1>5. Outstanding' = Outstanding
  BY <1>1, <1>2, <1>3, <1>6, FS_CardinalityType DEF Outstanding, StuckInv
<1> QED
  BY <1>1, <1>2, <1>3, <1>4, <1>5 DEF StuckInv, Asks, Exchange

(* The console waits for the answer of one query, and reserves one.        *)
LEMMA ServeQueryKeepsStuck ==
    ASSUME StuckInv, ServeQuery
    PROVE  StuckInv'
<1>1. UNCHANGED <<con, errors, done, committing>> /\ committing = <<>>
      /\ query' = [kind |-> "none"]
  BY DEF ServeQuery, conVars
<1>2. IsSequence(done)' /\ IsSequence(committing)' /\ Len(done) \in Nat /\ Len(committing) = 0
  BY <1>1, EmptyIsSequence DEF StuckInv, IsSequence
<1>5. Exchange'
  BY <1>1 DEF ServeQuery, StuckInv, Exchange
<1>3. CASE pending' = pending
  <2>1. Outstanding' = Outstanding
    BY <1>1, <1>3 DEF Outstanding
  <2>2. Asks' => Asks
    BY <1>1 DEF ServeQuery, Asks, StuckInv, Exchange
  <2> QED
    BY <1>1, <1>2, <1>3, <1>5, <2>1, <2>2 DEF StuckInv
<1>4. CASE /\ query.kind = "enqueue" /\ reply'.kind = "reserve"
           /\ Cardinality(pending) < QueueCapacity
           /\ pending' = pending \cup {query.command}
  <2>1. con.at = "enqueue" /\ Asks
    BY <1>4 DEF StuckInv, Asks, Exchange
  <2>2. IsFiniteSet(pending') /\ Cardinality(pending') <= Cardinality(pending) + 1
        /\ Cardinality(pending') \in Nat /\ Cardinality(pending) \in Nat
    <3> DEFINE command == query.command
    <3>1. IsFiniteSet(pending) /\ Cardinality(pending) \in Nat
      BY FS_CardinalityType DEF StuckInv
    <3>2. /\ IsFiniteSet(pending \cup {command})
          /\ Cardinality(pending \cup {command})
               = IF command \in pending THEN Cardinality(pending) ELSE Cardinality(pending) + 1
      BY <3>1, FS_AddElement
    <3> HIDE DEF command
    <3>3. pending' = pending \cup {command}
      BY <1>4 DEF command
    <3> QED
      BY <3>1, <3>2, <3>3
  <2>3. Outstanding' <= Outstanding + 1 /\ Outstanding \in Nat /\ Outstanding' \in Nat
    BY <1>1, <1>2, <2>2 DEF Outstanding
  <2>4. ~Asks'
    BY <1>1, <1>4, <2>1 DEF Asks
  <2>5. Cardinality(pending') <= QueueCapacity /\ Outstanding' <= QueueCapacity + 1
    BY <1>4, <2>1, <2>2, <2>3, ConstantsAssumption DEF StuckInv
  <2> QED
    BY <1>1, <1>2, <1>4, <1>5, <2>1, <2>2, <2>4, <2>5 DEF StuckInv
<1> QED
  BY <1>3, <1>4 DEF ServeQuery

LEMMA StuckInvNext == StuckInv /\ [Next]_vars => StuckInv'
<1> SUFFICES ASSUME StuckInv, [Next]_vars PROVE StuckInv'
  OBVIOUS
<1>1. CASE ConsoleTask
  BY <1>1, GatherKeepsStuck, ConsoleKeepsStuck DEF ConsoleTask
<1>2. CASE Aggregator
  BY <1>2, CommitKeepsStuck, CommitSendsKeepsStuck, ServeQueryKeepsStuck DEF Aggregator
<1>3. CASE UNCHANGED <<con, errors, query, reply, pending, committing, done>>
  BY <1>3 DEF StuckInv, Outstanding, Asks, Exchange, IsSequence
<1>4. Display \/ DisplayForgets \/ Host \/ UNCHANGED vars
      => UNCHANGED <<con, errors, query, reply, pending, committing, done>>
  BY DEF Display, DisplayForgets, Host, SendKey, SendCommand, Send, NewInvocation, HostReads,
         vars, conVars, aggVars
<1> QED
  BY <1>1, <1>2, <1>3, <1>4 DEF Exchange, Next

(* The console and the aggregator never wait for each other, whatever the  *)
(* capacities are, as long as every request of a full queue finds room for *)
(* its completion (diagnostic_aggregator.rs, the send of a completion      *)
(* before the next query; diagnostic_console.rs, the drain of the          *)
(* completions before each question).                                      *)
THEOREM ConsoleNeverStuck == Spec => []ConsoleNotStuck
<1>1. StuckInv => ConsoleNotStuck
  <2> SUFFICES ASSUME StuckInv, committing # <<>>, ~RoomForDone, Asks PROVE FALSE
    BY DEF ConsoleNotStuck, Asks
  <2>1. Len(committing) = 1
    BY EmptyIsSequence, SequenceTakesOne DEF StuckInv
  <2>2. Len(done) = DoneCapacity /\ Cardinality(pending) = 0
    BY FS_EmptySet, ConstantsAssumption DEF StuckInv, IsSequence, RoomForDone
  <2> QED
    BY <2>1, <2>2, ConstantsAssumption, CapacityAssumption DEF StuckInv, Outstanding
<1> QED
  BY <1>1, StuckInvInit, StuckInvNext, PTL DEF Spec

(***************************************************************************)
(* Where the answers are.                                                  *)
(***************************************************************************)
Kinds == Keys \cup Commands
CommandType == [kind : Kinds, seq : Nat, of : Nat]

\* A sequence is given once by an invocation; a command that is no key was sent
\* when none was waiting for its answer, so that it is older than all that are.
Known(c, h) ==
    /\ c.kind \in Kinds
    /\ c.of \in 1 .. h.of /\ c.seq \in Nat \ {0}
    /\ c.of = h.of =>
        /\ c.seq < h.next
        /\ \A request \in h.owed :
              /\ c.seq = request.seq => c.kind = request.kind
              /\ c.kind \notin Keys => c.seq <= request.seq

\* The order in which the commands were sent.
Before(a, b) == a.of < b.of \/ (a.of = b.of /\ a.seq < b.seq)
OlderThan(c, s) == \A i \in DOMAIN s : s[i] # NoCommand => Before(c, s[i])

\* The frames the console has not decoded yet.
Line == rx \o wire

LineInv(h, s) ==
    \A i \in DOMAIN s : s[i] # NoCommand =>
        /\ Known(s[i], h)
        /\ \A j \in DOMAIN s : i < j /\ s[j] # NoCommand => Before(s[i], s[j])

Holds == con.at \in {"announce", "enqueue"}

\* A command that was decoded before the frames of the line and the one in hand.
Passed(c) ==
    /\ Known(c, host) /\ OlderThan(c, Line)
    /\ con.at = "announce" => Before(c, con.command)

HasDone(s, seq) == \E i \in DOMAIN s : s[i].kind = "done" /\ s[i].seq = seq
HasRequest(s, seq) == \E i \in DOMAIN s : s[i].seq = seq
Ongoing(seq) ==
    \/ HasRequest(queue, seq)
    \/ job.at = "request" /\ job.request.seq = seq
    \/ HasDone(sink, seq) \/ HasDone(events, seq)

Completed(s, c) == \E i \in DOMAIN s : Same(s[i].command, c)

\* A command that the console has handed over.
Carried(c) ==
    \/ c \in pending /\ Ongoing(c.seq)
    \/ Completed(done, c) \/ Completed(committing, c)
    \/ c \in lost

HostKnown(h) ==
    /\ h.of \in Nat \ {0} /\ h.next \in Nat \ {0}
    /\ h.owed \subseteq CommandType
    /\ \A request \in h.owed : request.of = h.of /\ request.seq \in 1 .. h.next - 1

EngineKnown ==
    /\ IsSequence(queue) /\ IsSequence(sink) /\ IsSequence(events)
    /\ Len(events) <= EventCapacity
    /\ "at" \in DOMAIN job

ConKnown ==
    /\ IsSequence(rx) /\ IsSequence(wire) /\ IsSequence(tx)
    /\ con.at = "status" => rx # <<>>
    /\ \A i \in DOMAIN Line : Line[i] # NoCommand => Line[i] \in CommandType
    /\ LineInv(host, Line)
    /\ Holds => con.command \in CommandType /\ Known(con.command, host) /\ OlderThan(con.command, Line)
    /\ \A i \in DOMAIN tx : Passed(tx[i])
    /\ query.kind = "enqueue" => query.command = con.command /\ query.request.seq = con.command.seq
    /\ reply.kind = "reserve" => reply.ok \in BOOLEAN /\ (reply.ok => Carried(con.command))

AggKnown ==
    /\ pending \subseteq CommandType
    /\ \A c \in pending : Passed(c) /\ \A d \in pending : c.seq = d.seq => c = d
    /\ \A i \in DOMAIN done : Passed(done[i].command)
    /\ \A i \in DOMAIN committing : Passed(committing[i].command)

Where(request) ==
    \/ In(request, Line) \/ In(request, tx)
    \/ Holds /\ Same(con.command, request)
    \/ Carried(request)

OwedInv ==
    /\ HostKnown(host) /\ EngineKnown /\ ConKnown /\ AggKnown
    /\ \A request \in host.owed : Where(request)

(***************************************************************************)
(* Sequences, whatever they are of.                                        *)
(***************************************************************************)
LEMMA Elements ==
    ASSUME NEW s, IsSequence(s)
    PROVE  Len(s) \in Nat /\ DOMAIN s = 1 .. Len(s)
BY DEF IsSequence

LEMMA ConcatElements ==
    ASSUME NEW s, NEW t, IsSequence(s), IsSequence(t)
    PROVE  /\ IsSequence(s \o t) /\ Len(s \o t) = Len(s) + Len(t)
           /\ \A i \in 1 .. Len(s) + Len(t) :
                 (s \o t)[i] = IF i <= Len(s) THEN s[i] ELSE t[i - Len(s)]
<1> DEFINE R == {s[i] : i \in DOMAIN s} \cup {t[i] : i \in DOMAIN t}
<1>1. s \in Seq(R) /\ t \in Seq(R)
  BY DEF IsSequence
<1> HIDE DEF R
<1> QED BY <1>1, ConcatProperties, SequenceOfItsOwn

LEMMA TailElements ==
    ASSUME NEW s, IsSequence(s), s # <<>>
    PROVE  /\ IsSequence(Tail(s)) /\ Len(s) >= 1 /\ Len(Tail(s)) = Len(s) - 1 /\ Head(s) = s[1]
           /\ \A i \in 1 .. Len(s) - 1 : Tail(s)[i] = s[i + 1]
<1> DEFINE R == {s[i] : i \in DOMAIN s}
<1>1. s \in Seq(R)
  BY DEF IsSequence
<1> HIDE DEF R
<1>2. Len(s) >= 1
  BY <1>1, EmptySeq
<1>3. /\ Tail(s) \in Seq(R) /\ Len(Tail(s)) = Len(s) - 1
      /\ \A i \in 1 .. Len(Tail(s)) : Tail(s)[i] = s[i + 1]
  BY <1>1, HeadTailProperties
<1>4. Head(s) = s[1]
  BY <1>1, <1>2
<1>5. IsSequence(Tail(s))
  BY <1>3, SequenceOfItsOwn
<1> QED BY <1>2, <1>3, <1>4, <1>5

LEMMA AppendElements ==
    ASSUME NEW s, NEW x, IsSequence(s)
    PROVE  /\ IsSequence(Append(s, x)) /\ Len(Append(s, x)) = Len(s) + 1
           /\ Append(s, x)[Len(s) + 1] = x
           /\ \A i \in 1 .. Len(s) : Append(s, x)[i] = s[i]
<1> DEFINE R == {s[i] : i \in DOMAIN s} \cup {x}
<1>1. s \in Seq(R)
  BY DEF IsSequence
<1> HIDE DEF R
<1>2. x \in R
  BY DEF R
<1> QED BY <1>1, <1>2, AppendProperties, SequenceGrows

LEMMA CutElements ==
    ASSUME NEW s, IsSequence(s), NEW n \in 0 .. Len(s)
    PROVE  /\ IsSequence(SubSeq(s, 1, n)) /\ Len(SubSeq(s, 1, n)) = n
           /\ \A i \in 1 .. n : SubSeq(s, 1, n)[i] = s[i]
           /\ IsSequence(SubSeq(s, n + 1, Len(s))) /\ Len(SubSeq(s, n + 1, Len(s))) = Len(s) - n
           /\ \A i \in 1 .. Len(s) - n : SubSeq(s, n + 1, Len(s))[i] = s[n + i]
<1> DEFINE R == {s[i] : i \in DOMAIN s}
<1>1. s \in Seq(R) /\ Len(s) \in Nat
  BY DEF IsSequence
<1> HIDE DEF R
<1>2. PICK len \in Nat : len = Len(s)
  BY <1>1
<1>3. n \in 0 .. len /\ \A i \in 1 .. len : s[i] \in R
  BY <1>1, <1>2
<1>4. /\ SubSeq(s, 1, n) \in Seq(R)
      /\ Len(SubSeq(s, 1, n)) = IF 1 <= n THEN n - 1 + 1 ELSE 0
      /\ \A i \in 1 .. n - 1 + 1 : SubSeq(s, 1, n)[i] = s[1 + i - 1]
  <2>1. 1 \in Int /\ n \in Int /\ \A i \in 1 .. n : s[i] \in R
    BY <1>3
  <2> QED BY <2>1, SubSeqProperties
<1>5. PICK m \in Nat : m = n + 1
  BY <1>3
<1>6. /\ SubSeq(s, m, len) \in Seq(R)
      /\ Len(SubSeq(s, m, len)) = IF m <= len THEN len - m + 1 ELSE 0
      /\ \A i \in 1 .. len - m + 1 : SubSeq(s, m, len)[i] = s[m + i - 1]
  <2>1. m \in Int /\ len \in Int /\ \A i \in m .. len : s[i] \in R
    BY <1>3, <1>5
  <2> QED BY <2>1, SubSeqProperties
<1>7. IsSequence(SubSeq(s, 1, n)) /\ IsSequence(SubSeq(s, m, len))
  BY <1>4, <1>6, SequenceOfItsOwn
<1>8. /\ Len(SubSeq(s, 1, n)) = n /\ \A i \in 1 .. n : SubSeq(s, 1, n)[i] = s[i]
  <2>1. Len(SubSeq(s, 1, n)) = n
    BY <1>3, <1>4
  <2>2. ASSUME NEW i \in 1 .. n PROVE SubSeq(s, 1, n)[i] = s[i]
    <3>1. i \in 1 .. n - 1 + 1 /\ 1 + i - 1 = i
      BY <1>3
    <3> QED BY <1>4, <3>1
  <2> QED BY <2>1, <2>2
<1>9. /\ Len(SubSeq(s, m, len)) = len - n
      /\ \A i \in 1 .. len - n : SubSeq(s, m, len)[i] = s[n + i]
  <2>1. Len(SubSeq(s, m, len)) = len - n
    BY <1>3, <1>5, <1>6
  <2>2. ASSUME NEW i \in 1 .. len - n PROVE SubSeq(s, m, len)[i] = s[n + i]
    <3>1. i \in 1 .. len - m + 1 /\ m + i - 1 = n + i
      BY <1>3, <1>5
    <3> QED BY <1>6, <3>1
  <2> QED BY <2>1, <2>2
<1> QED BY <1>2, <1>5, <1>7, <1>8, <1>9

LEMMA DoneInConcat ==
    ASSUME NEW s, NEW t, IsSequence(s), IsSequence(t), NEW seq,
           HasDone(s, seq) \/ HasDone(t, seq)
    PROVE  HasDone(s \o t, seq)
<1>1. PICK n \in Nat : n = Len(s)
  BY Elements
<1>2. PICK m \in Nat : m = Len(t)
  BY Elements
<1>3. PICK u : u = s \o t
  OBVIOUS
<1>4. /\ DOMAIN s = 1 .. n /\ DOMAIN t = 1 .. m /\ DOMAIN u = 1 .. n + m
      /\ \A i \in 1 .. n + m : u[i] = IF i <= n THEN s[i] ELSE t[i - n]
  BY <1>1, <1>2, <1>3, Elements, ConcatElements
<1>5. CASE HasDone(s, seq)
  <2>1. PICK i \in 1 .. n : s[i].kind = "done" /\ s[i].seq = seq
    BY <1>4, <1>5 DEF HasDone
  <2>2. i \in 1 .. n + m /\ u[i] = s[i]
    BY <1>4
  <2> QED BY <1>3, <1>4, <2>1, <2>2 DEF HasDone
<1>6. CASE HasDone(t, seq)
  <2>1. PICK i \in 1 .. m : t[i].kind = "done" /\ t[i].seq = seq
    BY <1>4, <1>6 DEF HasDone
  <2>2. n + i \in 1 .. n + m /\ u[n + i] = t[i]
    BY <1>4
  <2> QED BY <1>3, <1>4, <2>1, <2>2 DEF HasDone
<1> QED BY <1>5, <1>6

(***************************************************************************)
(* The display task answers every request it takes.                        *)
(***************************************************************************)
\* What a step of the display task must not do is to forget a request.
KeepsOngoing == EngineKnown' /\ \A seq : Ongoing(seq) => Ongoing(seq)'

\* All that is pushed, and all that waited, is in the sink or in the channel.
LEMMA PublishKeepsEvents ==
    ASSUME IsSequence(sink), IsSequence(events), Len(events) <= EventCapacity,
           NEW pushed, IsSequence(pushed), Publish(pushed)
    PROVE  /\ IsSequence(sink') /\ IsSequence(events') /\ Len(events') <= EventCapacity
           /\ \A seq : HasDone(sink, seq) \/ HasDone(events, seq) \/ HasDone(pushed, seq) =>
                          HasDone(sink', seq) \/ HasDone(events', seq)
<1>1. PICK u : u = sink \o pushed
  OBVIOUS
<1>2. IsSequence(u) /\ \A seq : HasDone(sink, seq) \/ HasDone(pushed, seq) => HasDone(u, seq)
  BY <1>1, ConcatElements, DoneInConcat
<1>3. PICK len \in Nat : len = Len(u)
  BY <1>2, Elements
<1>4. PICK m \in Nat : m = Len(events)
  BY Elements
<1>5. PICK n : n = Fitting(u)
  OBVIOUS
<1>6. n \in 0 .. len /\ m + n <= EventCapacity
  BY <1>3, <1>4, <1>5, ConstantsAssumption DEF Fitting
<1>7. PICK a : a = SubSeq(u, 1, n)
  OBVIOUS
<1>8. PICK b : b = SubSeq(u, n + 1, len)
  OBVIOUS
<1>9. /\ IsSequence(a) /\ Len(a) = n /\ \A i \in 1 .. n : a[i] = u[i]
      /\ IsSequence(b) /\ Len(b) = len - n /\ \A i \in 1 .. len - n : b[i] = u[n + i]
  BY <1>2, <1>3, <1>6, <1>7, <1>8, CutElements
<1>10. events' = events \o a /\ sink' = b
  BY <1>1, <1>3, <1>5, <1>7, <1>8 DEF Publish, Push
<1>11. IsSequence(events') /\ Len(events') = m + n
  BY <1>4, <1>9, <1>10, ConcatElements
<1>12. ASSUME NEW seq, HasDone(u, seq) PROVE HasDone(a, seq) \/ HasDone(b, seq)
  <2>1. PICK i \in 1 .. len : u[i].kind = "done" /\ u[i].seq = seq
    BY <1>2, <1>3, <1>12, Elements DEF HasDone
  <2>2. CASE i <= n
    <3>1. i \in 1 .. n /\ DOMAIN a = 1 .. n
      BY <1>9, <2>2, Elements
    <3> QED BY <1>9, <2>1, <3>1 DEF HasDone
  <2>3. CASE ~ (i <= n)
    <3>1. i - n \in 1 .. len - n /\ n + (i - n) = i /\ DOMAIN b = 1 .. len - n
      BY <1>6, <1>9, <2>3, Elements
    <3> QED BY <1>9, <2>1, <3>1 DEF HasDone
  <2> QED BY <2>2, <2>3
<1>13. \A seq : HasDone(events, seq) \/ HasDone(a, seq) => HasDone(events', seq)
  BY <1>9, <1>10, DoneInConcat
<1> QED BY <1>2, <1>4, <1>6, <1>9, <1>10, <1>11, <1>12, <1>13

LEMMA PublishKeeps ==
    ASSUME EngineKnown, NEW pushed, IsSequence(pushed), Publish(pushed), IsSequence(queue'),
           \A seq : HasRequest(queue, seq) => HasRequest(queue', seq) \/ HasDone(pushed, seq),
           job.at = "request" => HasDone(pushed, job.request.seq)
    PROVE  KeepsOngoing
<1>1. /\ IsSequence(sink') /\ IsSequence(events') /\ Len(events') <= EventCapacity
      /\ \A seq : HasDone(sink, seq) \/ HasDone(events, seq) \/ HasDone(pushed, seq) =>
                     HasDone(sink', seq) \/ HasDone(events', seq)
  BY PublishKeepsEvents DEF EngineKnown
<1>2. "at" \in DOMAIN job'
  BY PublishEnds
<1> QED BY <1>1, <1>2 DEF KeepsOngoing, EngineKnown, Ongoing

\* One event, or two, of which the last is an answer.
LEMMA AnswerPushed ==
    ASSUME NEW seq, NEW ok, NEW page, NEW other
    PROVE  /\ IsSequence(<<DoneEvent(seq, ok, page)>>)
           /\ HasDone(<<DoneEvent(seq, ok, page)>>, seq)
           /\ IsSequence(<<other, DoneEvent(seq, ok, page)>>)
           /\ HasDone(<<other, DoneEvent(seq, ok, page)>>, seq)
<1>1. PICK e : e = DoneEvent(seq, ok, page)
  OBVIOUS
<1>2. e.kind = "done" /\ e.seq = seq
  BY <1>1 DEF DoneEvent
<1>3. IsSequence(<<e>>) /\ HasDone(<<e>>, seq)
  <2>1. DOMAIN <<e>> = 1 .. 1 /\ <<e>>[1] = e /\ 1 \in 1 .. 1
    OBVIOUS
  <2> QED BY <1>2, <2>1, SingleIsSequence DEF HasDone
<1>4. IsSequence(<<other, e>>) /\ HasDone(<<other, e>>, seq)
  <2>1. <<other, e>> \in Seq({other, e}) /\ DOMAIN <<other, e>> = 1 .. 2 /\ <<other, e>>[2] = e
        /\ 2 \in 1 .. 2
    OBVIOUS
  <2> QED BY <1>2, <2>1, SequenceOfItsOwn DEF HasDone
<1> QED BY <1>1, <1>3, <1>4

LEMMA NothingPushedKeeps ==
    ASSUME EngineKnown, Publish(<<>>), queue' = queue, job.at # "request"
    PROVE  KeepsOngoing
BY PublishKeeps, EmptyIsSequence DEF EngineKnown

\* A recovery answers the request it is for, if any.
LEMMA RecoverKeeps ==
    ASSUME EngineKnown, NEW page, queue' = queue, NEW s, Recover(s, page),
           s = <<>> \/ \E x : s = <<x>>,
           job.at = "request" => s = <<job.request.seq>>
    PROVE  KeepsOngoing
<1>1. PICK moved : moved = (IF page # engine.page THEN <<PageEvent(page)>> ELSE <<>>)
  OBVIOUS
<1>2. IsSequence(moved)
  BY <1>1, SingleIsSequence, EmptyIsSequence
<1>3. ASSUME NEW ok, NEW at
      PROVE  /\ IsSequence([i \in DOMAIN s |-> DoneEvent(s[i], ok, at)])
             /\ job.at = "request" => HasDone([i \in DOMAIN s |-> DoneEvent(s[i], ok, at)], job.request.seq)
  <2>1. CASE s = <<>>
    <3>1. DOMAIN s = {} /\ s # <<job.request.seq>>
      BY <2>1
    <3>2. [i \in DOMAIN s |-> DoneEvent(s[i], ok, at)] = <<>>
      BY <3>1
    <3> QED BY <3>1, <3>2, EmptyIsSequence
  <2>2. CASE \E x : s = <<x>>
    <3>1. PICK x : s = <<x>>
      BY <2>2
    <3>2. DOMAIN s = {1} /\ s[1] = x
      BY <3>1
    <3>3. PICK e : e = DoneEvent(x, ok, at)
      OBVIOUS
    <3>4. [i \in DOMAIN s |-> DoneEvent(s[i], ok, at)] = <<e>>
      BY <3>2, <3>3
    <3>5. job.at = "request" => x = job.request.seq
      BY <3>1
    <3>6. IsSequence(<<e>>) /\ HasDone(<<e>>, x)
      BY <3>3, AnswerPushed
    <3> QED BY <3>4, <3>5, <3>6
  <2> QED BY <2>1, <2>2
<1>4. CASE Publish(moved \o [i \in DOMAIN s |-> DoneEvent(s[i], TRUE, page)])
  <2>1. PICK t : t = [i \in DOMAIN s |-> DoneEvent(s[i], TRUE, page)]
    OBVIOUS
  <2>2. IsSequence(t) /\ (job.at = "request" => HasDone(t, job.request.seq))
    BY <1>3, <2>1
  <2>3. PICK u : u = moved \o t
    OBVIOUS
  <2>4. IsSequence(u) /\ (job.at = "request" => HasDone(u, job.request.seq))
    BY <1>2, <2>2, <2>3, ConcatElements, DoneInConcat
  <2>5. Publish(u)
    BY <1>4, <2>1, <2>3
  <2> QED BY <2>4, <2>5, PublishKeeps DEF EngineKnown
<1>5. CASE Publish([i \in DOMAIN s |-> DoneEvent(s[i], FALSE, engine.page)])
  <2>1. PICK t : t = [i \in DOMAIN s |-> DoneEvent(s[i], FALSE, engine.page)]
    OBVIOUS
  <2>2. IsSequence(t) /\ (job.at = "request" => HasDone(t, job.request.seq))
    BY <1>3, <2>1
  <2>3. Publish(t)
    BY <1>5, <2>1
  <2> QED BY <2>2, <2>3, PublishKeeps DEF EngineKnown
<1>6. \/ Publish(moved \o [i \in DOMAIN s |-> DoneEvent(s[i], TRUE, page)])
      \/ Publish([i \in DOMAIN s |-> DoneEvent(s[i], FALSE, engine.page)])
  BY <1>1 DEF Recover
<1> QED BY <1>4, <1>5, <1>6

LEMMA RequestInTail ==
    ASSUME NEW s, IsSequence(s), s # <<>>, NEW seq, HasRequest(s, seq)
    PROVE  Head(s).seq = seq \/ HasRequest(Tail(s), seq)
<1>1. PICK n \in Nat : n = Len(s)
  BY Elements
<1>2. PICK t : t = Tail(s)
  OBVIOUS
<1>3. /\ n >= 1 /\ DOMAIN s = 1 .. n /\ DOMAIN t = 1 .. n - 1 /\ Head(s) = s[1]
      /\ \A i \in 1 .. n - 1 : t[i] = s[i + 1]
  BY <1>1, <1>2, TailElements, Elements
<1>4. PICK i \in 1 .. n : s[i].seq = seq
  BY <1>3 DEF HasRequest
<1>5. CASE i = 1
  BY <1>3, <1>4, <1>5
<1>6. CASE i # 1
  <2>1. i - 1 \in 1 .. n - 1 /\ i - 1 + 1 = i
    BY <1>6
  <2>2. t[i - 1] = s[i]
    BY <1>3, <2>1
  <2> QED BY <1>2, <1>3, <1>4, <2>1, <2>2 DEF HasRequest
<1> QED BY <1>5, <1>6

LEMMA TakeLeaves ==
    ASSUME EngineKnown, Take
    PROVE  /\ job.at = "idle" /\ IsSequence(queue')
           /\ \A seq : HasRequest(queue, seq) => Head(queue).seq = seq \/ HasRequest(queue', seq)
BY TailElements, RequestInTail DEF Take, EngineKnown

LEMMA ServeAtOnceKeeps ==
    ASSUME EngineKnown, ServeAtOnce
    PROVE  KeepsOngoing
<1>1. PICK request : request = Head(queue)
  OBVIOUS
<1>2. /\ job.at = "idle" /\ IsSequence(queue')
      /\ \A seq : HasRequest(queue, seq) => request.seq = seq \/ HasRequest(queue', seq)
  BY <1>1, TakeLeaves DEF ServeAtOnce
<1>3. PICK pushed : Publish(pushed) /\ IsSequence(pushed) /\ HasDone(pushed, request.seq)
  <2>1. \/ Publish(<<DoneEvent(request.seq, FALSE, engine.page)>>)
        \/ Publish(<<DoneEvent(request.seq, TRUE, engine.page)>>)
        \/ Publish(<<FastEvent(request.kind = "fast"), DoneEvent(request.seq, TRUE, engine.page)>>)
    BY <1>1 DEF ServeAtOnce
  <2> QED BY <2>1, AnswerPushed
<1> QED BY <1>2, <1>3, PublishKeeps

LEMMA StartKeeps ==
    ASSUME EngineKnown, Start
    PROVE  KeepsOngoing
<1>1. /\ job.at = "idle" /\ IsSequence(queue')
      /\ \A seq : HasRequest(queue, seq) => Head(queue).seq = seq \/ HasRequest(queue', seq)
  BY TakeLeaves DEF Start
<1>2. job' = [at |-> "request", request |-> Head(queue)] /\ UNCHANGED <<sink, events>>
  BY DEF Start
<1>3. "at" \in DOMAIN job' /\ job'.at = "request" /\ job'.request = Head(queue)
  BY <1>2
<1> QED BY <1>1, <1>2, <1>3 DEF KeepsOngoing, EngineKnown, Ongoing, HasDone

\* The request that is served is answered.
LEMMA AnswerKeeps ==
    ASSUME EngineKnown, queue' = queue, job.at = "request",
           NEW other, NEW ok, NEW page,
           \/ Publish(<<DoneEvent(job.request.seq, ok, page)>>)
           \/ Publish(<<other, DoneEvent(job.request.seq, ok, page)>>)
    PROVE  KeepsOngoing
<1>1. PICK pushed : Publish(pushed) /\ IsSequence(pushed) /\ HasDone(pushed, job.request.seq)
  BY AnswerPushed
<1> QED BY <1>1, PublishKeeps DEF EngineKnown

\* Nothing is served, and nothing published.
LEMMA QuietlyKeeps ==
    ASSUME EngineKnown, UNCHANGED <<queue, sink, events>>, job.at # "request", "at" \in DOMAIN job'
    PROVE  KeepsOngoing
BY DEF KeepsOngoing, EngineKnown, Ongoing, HasRequest, HasDone

LEMMA PairOfSingles ==
    ASSUME NEW x, NEW y
    PROVE  <<x>> \o <<y>> = <<x, y>>
<1>1. <<x>> \in Seq({x, y}) /\ <<y>> \in Seq({x, y}) /\ <<x, y>> \in Seq({x, y})
  OBVIOUS
<1>2. PICK s : s = <<x>> \o <<y>>
  OBVIOUS
<1>3. s \in Seq({x, y}) /\ Len(s) = 2 /\ s[1] = x /\ s[2] = y
  BY <1>1, <1>2, ConcatProperties
<1>4. s = <<x, y>>
  BY <1>1, <1>3
<1> QED BY <1>2, <1>4

LEMMA DisplayKeepsOngoing ==
    ASSUME EngineKnown, EngineNext
    PROVE  KeepsOngoing
<1>1. CASE Flush
  BY <1>1, NothingPushedKeeps DEF Flush
<1>2. CASE ServeAtOnce \/ Start
  BY <1>2, ServeAtOnceKeeps, StartKeeps
<1>3. CASE FinishTurn
  <2>1. job.at = "request" /\ queue' = queue
    BY <1>3 DEF FinishTurn, Serving
  <2>2. PICK page : \/ Publish(<<PageEvent(page), DoneEvent(job.request.seq, TRUE, page)>>)
                    \/ Recover(<<job.request.seq>>, page)
    BY <1>3 DEF FinishTurn
  <2>3. CASE Publish(<<PageEvent(page), DoneEvent(job.request.seq, TRUE, page)>>)
    BY <2>1, <2>3, AnswerKeeps
  <2>4. CASE Recover(<<job.request.seq>>, page)
    BY <2>1, <2>4, RecoverKeeps
  <2> QED BY <2>2, <2>3, <2>4
<1>4. CASE FinishProbe
  BY <1>4, AnswerKeeps DEF FinishProbe, Serving
<1>5. CASE StartCleanup
  <2>1. UNCHANGED <<queue, sink, events>> /\ job.at = "idle" /\ "at" \in DOMAIN job'
    BY <1>5 DEF StartCleanup, Poll, EngineKnown
  <2> QED BY <2>1, QuietlyKeeps
<1>6. CASE FinishCleanup
  <2>1. job.at = "cleanup" /\ queue' = queue
    BY <1>6 DEF FinishCleanup
  <2>2. PICK x : Publish(<<>>) \/ Recover(<<x>>, engine.page)
    BY <1>6 DEF FinishCleanup
  <2> QED BY <2>1, <2>2, NothingPushedKeeps, RecoverKeeps
<1>7. CASE StartOverlay
  <2>1. UNCHANGED <<queue, sink, events>> /\ job.at = "idle" /\ "at" \in DOMAIN job'
    BY <1>7 DEF StartOverlay, Poll
  <2> QED BY <2>1, QuietlyKeeps
<1>8. CASE CancelOverlay \/ FinishBase
  BY <1>8, NothingPushedKeeps DEF CancelOverlay, FinishBase
<1>9. CASE ActivateOverlay
  <2>1. UNCHANGED <<queue, sink, events>> /\ job.at = "overlay" /\ "at" \in DOMAIN job'
    BY <1>9 DEF ActivateOverlay, EngineKnown
  <2> QED BY <2>1, QuietlyKeeps
<1>10. CASE OverlayFails
  <2>1. job.at \in {"overlay", "base"} /\ queue' = queue /\ Recover(<<>>, engine.page)
    BY <1>10 DEF OverlayFails
  <2> QED BY <2>1, RecoverKeeps
<1>11. CASE FinishMenu
  BY <1>11, AnswerKeeps DEF FinishMenu, Serving, MenuAnswer
<1>12. CASE FinishBack
  <2>1. job.at = "request" /\ queue' = queue
    BY <1>12 DEF FinishBack, Serving
  <2>2. <<MenuEvent>> \o MenuAnswer = <<MenuEvent, DoneEvent(job.request.seq, TRUE, engine.page)>>
    BY PairOfSingles DEF MenuAnswer
  <2>3. Publish(<<MenuEvent, DoneEvent(job.request.seq, TRUE, engine.page)>>)
    BY <1>12, <2>2 DEF FinishBack
  <2> QED BY <2>1, <2>3, AnswerKeeps
<1>13. CASE FinishSelect
  <2>1. job.at = "request" /\ queue' = queue
    BY <1>13 DEF FinishSelect, Serving
  <2>2. <<OpenEvent(progress)>> \o <<DoneEvent(job.request.seq, TRUE, progress)>>
        = <<OpenEvent(progress), DoneEvent(job.request.seq, TRUE, progress)>>
    BY PairOfSingles
  <2>3. Publish(<<OpenEvent(progress), DoneEvent(job.request.seq, TRUE, progress)>>)
    BY <1>13, <2>2 DEF FinishSelect
  <2> QED BY <2>1, <2>3, AnswerKeeps
<1>14. CASE SelectRefused
  BY <1>14, AnswerKeeps DEF SelectRefused, Serving, MenuAnswer
<1>15. CASE PowerRefresh
  <2>1. job.at = "idle" /\ queue' = queue
    BY <1>15 DEF PowerRefresh
  <2>2. CASE Publish(<<>>)
    BY <2>1, <2>2, NothingPushedKeeps
  <2>3. CASE Publish(<<DoneEvent(PowerSequence, FALSE, engine.page)>>)
    <3>1. PICK pushed : Publish(pushed) /\ IsSequence(pushed)
      BY <2>3, AnswerPushed
    <3> QED BY <2>1, <3>1, PublishKeeps DEF EngineKnown
  <2>4. CASE /\ job' = [at |-> "request", request |-> [kind |-> "full", seq |-> PowerSequence]]
             /\ UNCHANGED <<sink, events>>
    BY <2>1, <2>4, QuietlyKeeps
  <2> QED BY <1>15, <2>2, <2>3, <2>4 DEF PowerRefresh
<1>16. CASE SleepRefused
  BY <1>16, NothingPushedKeeps DEF SleepRefused
<1> QED
  BY <1>1, <1>2, <1>3, <1>4, <1>5, <1>6, <1>7, <1>8, <1>9, <1>10, <1>11, <1>12, <1>13, <1>14,
     <1>15, <1>16
  DEF EngineNext

\* A book whose first page could not be shown is the one exception.
LEMMA ForgottenIsLost ==
    ASSUME EngineKnown, DisplayForgets
    PROVE  /\ EngineKnown'
           /\ \A seq : Ongoing(seq) => Ongoing(seq)' \/ Reserved(seq) \subseteq lost'
<1>1. /\ job.at = "request" /\ job' = Idle /\ UNCHANGED <<queue, sink, events>>
      /\ lost' = lost \cup Reserved(job.request.seq)
  BY DEF DisplayForgets, SelectLost, Serving
<1> QED BY <1>1 DEF EngineKnown, Ongoing, Idle, HasRequest, HasDone

(***************************************************************************)
(* The commands and their order.                                           *)
(***************************************************************************)
\* A host that gave up, or took an answer, waits for fewer.
LEMMA KnownShrinks ==
    ASSUME NEW h, NEW g, g.of = h.of, g.next = h.next, g.owed \subseteq h.owed,
           NEW c, Known(c, h)
    PROVE  Known(c, g)
BY DEF Known

\* A command is older than the next one that its invocation sends, or another.
LEMMA KnownIsOlder ==
    ASSUME NEW h, h.of \in Nat, NEW c, Known(c, h), NEW f, f.of = h.of, f.seq = h.next
    PROVE  Before(c, f)
BY DEF Known, Before

\* A command that is not a key is handled when nothing the host waits for has
\* been handed over.
LEMMA NothingOwedBefore ==
    ASSUME HostKnown(host), NEW c, Known(c, host), c.kind \notin Keys,
           NEW x, Known(x, host), Before(x, c),
           NEW request \in host.owed, Same(x, request)
    PROVE  FALSE
<1>1. /\ c.of \in 1 .. host.of /\ host.of \in Nat /\ x.of = host.of /\ x.seq = request.seq
      /\ c.seq \in Nat /\ x.seq \in Nat
  BY DEF HostKnown, Known, Same
<1>2. c.of = host.of /\ x.seq < c.seq
  BY <1>1 DEF Before
<1>3. c.seq <= request.seq
  BY <1>2 DEF Known
<1> QED BY <1>1, <1>2, <1>3

\* What the host waits for is told by its invocation and its sequence.
LEMMA SameIsEqual ==
    ASSUME HostKnown(host), NEW c \in CommandType, Known(c, host),
           NEW request \in host.owed, Same(c, request)
    PROVE  c = request
<1>1. /\ request \in CommandType /\ request.of = host.of
      /\ c.of = request.of /\ c.seq = request.seq
  BY DEF HostKnown, Same
<1>2. c.kind = request.kind
  BY <1>1 DEF Known
<1> QED BY <1>1, <1>2 DEF CommandType

\* What is known of a command does not depend on the console.
LEMMA PassedStays ==
    ASSUME NEW c, Passed(c), host' = host, Line' = Line,
           con'.at = "announce" => Before(c, con'.command)
    PROVE  Passed(c)'
BY DEF Passed, Known, OlderThan, Before

(***************************************************************************)
(* What the host does.                                                     *)
(***************************************************************************)
\* The rest of the system is as it was.
Elsewhere ==
    /\ UNCHANGED <<rx, con, query, reply, pending, committing, done, lost>>
    /\ UNCHANGED <<queue, job, sink, events>>

LEMMA CarriedElsewhere ==
    ASSUME Elsewhere
    PROVE  /\ EngineKnown' <=> EngineKnown
           /\ \A c : Carried(c)' <=> Carried(c)
BY DEF Elsewhere, EngineKnown, Carried, Ongoing, HasRequest, HasDone, Completed, Same

\* The last frame on the line is younger than everything else.
LEMMA SendKeepsOwed ==
    ASSUME OwedInv, NEW kind \in Kinds, Send(kind, host.of, host.next),
           kind \notin Keys => host.owed = {}
    PROVE  OwedInv'
<1>1. PICK f : f = [kind |-> kind, seq |-> host.next, of |-> host.of]
  OBVIOUS
<1>2. PICK g : g = IF torn THEN NoCommand ELSE f
  OBVIOUS
<1>3. PICK owed : owed = host.owed \cup (IF torn THEN {} ELSE {f})
  OBVIOUS
<1>4. /\ wire' = Append(wire, g) /\ torn' = FALSE /\ Elsewhere /\ tx' = tx
      /\ host' = [of |-> host.of, next |-> host.next + 1, owed |-> owed]
  BY <1>1, <1>2, <1>3 DEF Send, engineVars, conVars, aggVars, Elsewhere
<1>5. /\ HostKnown(host) /\ IsSequence(rx) /\ IsSequence(wire) /\ ConKnown /\ AggKnown
      /\ LineInv(host, Line)
  BY DEF OwedInv, ConKnown
<1>6. PICK of \in Nat \ {0}, next \in Nat \ {0} : of = host.of /\ next = host.next
  BY <1>5 DEF HostKnown
<1>7. host'.of = of /\ host'.next = next + 1 /\ host'.owed = owed
  BY <1>4, <1>6
<1>8. f \in CommandType /\ f.kind = kind /\ f.seq = next /\ f.of = of
  BY <1>1, <1>6 DEF CommandType
<1>9. /\ owed \subseteq CommandType
      /\ \A request \in owed : request = f \/ (request \in host.owed /\ request.seq \in 1 .. next - 1)
      /\ \A request \in owed : request.of = of /\ request.seq \in 1 .. next
  BY <1>3, <1>5, <1>6, <1>8 DEF HostKnown
<1>10. HostKnown(host')
  BY <1>4, <1>6, <1>7, <1>9 DEF HostKnown
<1>11. ASSUME NEW c, Known(c, host) PROVE Known(c, host') /\ Before(c, f)
  <2>1. c.kind \in Kinds /\ c.of \in 1 .. of /\ c.seq \in Nat \ {0}
    BY <1>6, <1>11 DEF Known
  <2>2. ASSUME c.of = of
        PROVE  c.seq < next /\ \A request \in owed :
                  /\ c.seq = request.seq => c.kind = request.kind
                  /\ c.kind \notin Keys => c.seq <= request.seq
    <3>1. /\ c.seq < next
          /\ \A request \in host.owed :
                /\ c.seq = request.seq => c.kind = request.kind
                /\ c.kind \notin Keys => c.seq <= request.seq
      BY <1>6, <1>11, <2>2 DEF Known
    <3> QED BY <1>8, <1>9, <2>1, <3>1
  <2>3. c.seq < next => c.seq < next + 1
    BY <2>1
  <2>4. Known(c, host')
    BY <1>6, <1>7, <2>1, <2>2, <2>3 DEF Known
  <2> QED BY <1>6, <1>8, <1>11, <2>4, KnownIsOlder
<1>12. Known(f, host')
  <2>1. ASSUME NEW request \in owed
        PROVE  /\ f.seq = request.seq => f.kind = request.kind
               /\ f.kind \notin Keys => f.seq <= request.seq
    <3>1. CASE request = f
      BY <1>8, <3>1
    <3>2. CASE request # f
      BY <1>8, <1>9, <3>2
    <3> QED BY <3>1, <3>2
  <2> QED BY <1>6, <1>7, <1>8, <2>1 DEF Known
<1>13. PICK s : s = Line
  OBVIOUS
<1>14. PICK n \in Nat : n = Len(s)
  BY <1>5, <1>13, ConcatElements, Elements DEF Line
<1>15. PICK t : t = Line'
  OBVIOUS
<1>16. /\ IsSequence(wire') /\ DOMAIN s = 1 .. n /\ DOMAIN t = 1 .. n + 1
       /\ t[n + 1] = g /\ \A i \in 1 .. n : t[i] = s[i]
  <2>1. PICK p \in Nat, q \in Nat : p = Len(rx) /\ q = Len(wire)
    BY <1>5, Elements
  <2>2. PICK w : w = Append(wire, g)
    OBVIOUS
  <2>3. IsSequence(w) /\ Len(w) = q + 1 /\ w[q + 1] = g /\ \A i \in 1 .. q : w[i] = wire[i]
    BY <1>5, <2>1, <2>2, AppendElements
  <2>4. /\ IsSequence(s) /\ n = p + q
        /\ \A i \in 1 .. p + q : s[i] = IF i <= p THEN rx[i] ELSE wire[i - p]
    BY <1>5, <1>13, <1>14, <2>1, ConcatElements DEF Line
  <2>5. t = rx \o w
    BY <1>4, <1>15, <2>2 DEF Line, Elsewhere
  <2>6. /\ IsSequence(t) /\ Len(t) = p + (q + 1)
        /\ \A i \in 1 .. p + (q + 1) : t[i] = IF i <= p THEN rx[i] ELSE w[i - p]
    <3>1. IsSequence(rx) /\ IsSequence(w) /\ Len(rx) = p /\ Len(w) = q + 1
      BY <1>5, <2>1, <2>3
    <3> QED BY <2>5, <3>1, ConcatElements
  <2>7. DOMAIN s = 1 .. n /\ DOMAIN t = 1 .. n + 1
    <3>1. p + (q + 1) = n + 1
      BY <2>4
    <3>2. Len(t) = n + 1
      BY <2>6, <3>1
    <3> QED BY <1>14, <2>4, <2>6, <3>2, Elements
  <2>8. t[n + 1] = g
    <3>1. n + 1 \in 1 .. p + (q + 1) /\ ~ (n + 1 <= p) /\ n + 1 - p = q + 1
      BY <2>4
    <3> QED BY <2>3, <2>6, <3>1
  <2>9. ASSUME NEW i \in 1 .. n PROVE t[i] = s[i]
    <3>1. i \in 1 .. p + q /\ i \in 1 .. p + (q + 1)
      BY <2>4
    <3>2. CASE i <= p
      BY <2>4, <2>6, <3>1, <3>2
    <3>3. CASE ~ (i <= p)
      <4>1. i - p \in 1 .. q
        BY <3>1, <3>3
      <4> QED BY <2>3, <2>4, <2>6, <3>1, <3>3, <4>1
    <3> QED BY <3>2, <3>3
  <2> QED BY <1>4, <2>2, <2>3, <2>7, <2>8, <2>9
<1>17. g = NoCommand \/ g = f
  BY <1>2
<1>18. /\ \A i \in 1 .. n : s[i] # NoCommand => s[i] \in CommandType /\ Known(s[i], host)
       /\ \A i, j \in 1 .. n : i < j /\ s[i] # NoCommand /\ s[j] # NoCommand => Before(s[i], s[j])
  BY <1>5, <1>13, <1>16 DEF ConKnown, LineInv
<1>19. \A i \in 1 .. n + 1 : i \in 1 .. n \/ i = n + 1
  OBVIOUS
<1>20. \A i \in 1 .. n + 1 : t[i] # NoCommand => t[i] \in CommandType /\ Known(t[i], host')
  BY <1>8, <1>11, <1>12, <1>16, <1>17, <1>18, <1>19
<1>21. ASSUME NEW i \in 1 .. n + 1, NEW j \in 1 .. n + 1, i < j, t[i] # NoCommand, t[j] # NoCommand
       PROVE  Before(t[i], t[j])
  <2>1. i \in 1 .. n /\ t[i] = s[i]
    BY <1>16, <1>21
  <2>2. CASE j \in 1 .. n
    BY <1>16, <1>18, <1>21, <2>1, <2>2
  <2>3. CASE j = n + 1
    <3>1. t[j] = f
      BY <1>16, <1>17, <1>21, <2>3
    <3>2. Known(s[i], host)
      BY <1>18, <1>21, <2>1
    <3> QED BY <1>11, <2>1, <3>1, <3>2
  <2> QED BY <1>19, <2>2, <2>3
<1>22. LineInv(host, Line)'
  BY <1>15, <1>16, <1>20, <1>21 DEF LineInv
<1>23. ASSUME NEW c, Known(c, host), OlderThan(c, s) PROVE OlderThan(c, t)
  BY <1>11, <1>16, <1>17, <1>19, <1>23 DEF OlderThan
<1>24. \A c : Passed(c) => Passed(c)'
  BY <1>4, <1>11, <1>13, <1>15, <1>23 DEF Passed, Elsewhere
<1>25. /\ EngineKnown' /\ \A c : Carried(c) => Carried(c)'
  BY <1>4, CarriedElsewhere DEF OwedInv
<1>26. ConKnown'
  <2>1. Holds' => con'.command \in CommandType /\ Known(con'.command, host') /\ OlderThan(con'.command, t)
    BY <1>4, <1>5, <1>11, <1>13, <1>23 DEF ConKnown, Elsewhere, Holds
  <2>2. \A i \in DOMAIN tx' : Passed(tx[i])'
    BY <1>4, <1>5, <1>24 DEF ConKnown
  <2>3. query'.kind = "enqueue" => query'.command = con'.command /\ query'.request.seq = con'.command.seq
    BY <1>4, <1>5 DEF ConKnown, Elsewhere
  <2>4. reply'.kind = "reserve" => reply'.ok \in BOOLEAN /\ (reply'.ok => Carried(con.command)')
    BY <1>4, <1>5, <1>25 DEF ConKnown, Elsewhere
  <2>5. IsSequence(rx') /\ IsSequence(tx') /\ (con'.at = "status" => rx' # <<>>)
    BY <1>4, <1>5 DEF ConKnown, Elsewhere
  <2> QED BY <1>15, <1>16, <1>20, <1>22, <2>1, <2>2, <2>3, <2>4, <2>5 DEF ConKnown
<1>27. AggKnown'
  BY <1>4, <1>5, <1>24 DEF AggKnown, Elsewhere
<1>28. ASSUME NEW request \in owed PROVE Where(request)'
  <2>1. CASE request \in host.owed
    <3>1. Where(request)
      BY <2>1 DEF OwedInv
    <3>2. In(request, s) => In(request, t)
      BY <1>16 DEF In, Same
    <3>3. In(request, tx) => In(request, tx)'
      BY <1>4
    <3>4. Holds /\ Same(con.command, request) => Holds' /\ Same(con.command, request)'
      BY <1>4 DEF Elsewhere, Holds
    <3> QED BY <1>13, <1>15, <1>25, <3>1, <3>2, <3>3, <3>4 DEF Where
  <2>2. CASE request \notin host.owed
    <3>1. request = f /\ g = f
      BY <1>2, <1>3, <2>2
    <3>2. In(request, t)
      <4>1. n + 1 \in DOMAIN t
        BY <1>16
      <4> QED BY <1>16, <3>1, <4>1 DEF In, Same
    <3> QED BY <1>15, <3>2 DEF Where
  <2> QED BY <2>1, <2>2
<1> QED BY <1>7, <1>10, <1>25, <1>26, <1>27, <1>28 DEF OwedInv

\* An invocation that ends owes nothing, and the next one sends after it.
LEMMA NewInvocationKeepsOwed ==
    ASSUME OwedInv, NewInvocation
    PROVE  OwedInv'
<1>1. /\ Elsewhere /\ wire' = wire /\ tx' = tx
      /\ host' = [of |-> host.of + 1, next |-> 1, owed |-> {}]
  BY DEF NewInvocation, engineVars, conVars, aggVars, Elsewhere
<1>2. Line' = Line /\ (Holds' <=> Holds)
  BY <1>1 DEF Line, Elsewhere, Holds
<1>3. PICK of \in Nat \ {0} : of = host.of
  BY DEF OwedInv, HostKnown
<1>4. host'.of = of + 1 /\ host'.next = 1 /\ host'.owed = {}
  BY <1>1, <1>3
<1>5. ASSUME NEW c, Known(c, host) PROVE Known(c, host')
  <2>1. c.of \in 1 .. of /\ c.kind \in Kinds /\ c.seq \in Nat \ {0}
    BY <1>3, <1>5 DEF Known
  <2>2. c.of \in 1 .. of + 1 /\ c.of # of + 1
    BY <2>1
  <2> QED BY <1>4, <2>1, <2>2 DEF Known
<1>6. \A c : Passed(c) => Passed(c)'
  BY <1>1, <1>2, <1>5 DEF Passed, Elsewhere
<1>7. EngineKnown' /\ \A c : Carried(c) => Carried(c)'
  BY <1>1, CarriedElsewhere DEF OwedInv
<1>8. ConKnown'
  <2>1. ConKnown
    BY DEF OwedInv
  <2>2. IsSequence(rx') /\ IsSequence(wire') /\ IsSequence(tx') /\ (con'.at = "status" => rx' # <<>>)
    BY <1>1, <2>1 DEF ConKnown, Elsewhere
  <2>3. \A i \in DOMAIN Line' : Line'[i] # NoCommand => Line'[i] \in CommandType
    BY <1>2, <2>1 DEF ConKnown
  <2>4. LineInv(host, Line)'
    BY <1>2, <1>5, <2>1 DEF ConKnown, LineInv
  <2>5. Holds' => con'.command \in CommandType /\ Known(con.command, host)' /\ OlderThan(con.command, Line)'
    BY <1>1, <1>2, <1>5, <2>1 DEF ConKnown, Elsewhere
  <2>6. \A i \in DOMAIN tx' : Passed(tx[i])'
    BY <1>1, <1>6, <2>1 DEF ConKnown
  <2>7. query'.kind = "enqueue" => query'.command = con'.command /\ query'.request.seq = con'.command.seq
    BY <1>1, <2>1 DEF ConKnown, Elsewhere
  <2>8. reply'.kind = "reserve" => reply'.ok \in BOOLEAN /\ (reply'.ok => Carried(con.command)')
    BY <1>1, <1>7, <2>1 DEF ConKnown, Elsewhere
  <2> QED BY <2>2, <2>3, <2>4, <2>5, <2>6, <2>7, <2>8 DEF ConKnown
<1>9. AggKnown'
  BY <1>1, <1>6 DEF OwedInv, AggKnown, Elsewhere
<1>10. HostKnown(host')
  BY <1>3, <1>4 DEF HostKnown
<1> QED BY <1>4, <1>7, <1>8, <1>9, <1>10 DEF OwedInv

LEMMA InTail ==
    ASSUME NEW s, IsSequence(s), s # <<>>, NEW x, In(x, s)
    PROVE  Same(Head(s), x) \/ In(x, Tail(s))
<1>1. PICK n \in Nat : n = Len(s)
  BY Elements
<1>2. PICK t : t = Tail(s)
  OBVIOUS
<1>3. /\ n >= 1 /\ DOMAIN s = 1 .. n /\ DOMAIN t = 1 .. n - 1 /\ Head(s) = s[1]
      /\ \A i \in 1 .. n - 1 : t[i] = s[i + 1]
  BY <1>1, <1>2, TailElements, Elements
<1>4. PICK i \in 1 .. n : Same(s[i], x)
  BY <1>3 DEF In
<1>5. CASE i = 1
  BY <1>3, <1>4, <1>5
<1>6. CASE i # 1
  <2>1. i - 1 \in 1 .. n - 1 /\ i - 1 + 1 = i
    BY <1>6
  <2>2. t[i - 1] = s[i]
    BY <1>3, <2>1
  <2> QED BY <1>2, <1>3, <1>4, <2>1, <2>2 DEF In
<1> QED BY <1>5, <1>6

LEMMA TailOf ==
    ASSUME NEW s, IsSequence(s), s # <<>>
    PROVE  /\ Head(s) = s[1] /\ 1 \in DOMAIN s
           /\ \A i \in DOMAIN Tail(s) : i + 1 \in DOMAIN s /\ Tail(s)[i] = s[i + 1]
<1>1. PICK n \in Nat : n = Len(s)
  BY Elements
<1>2. PICK t : t = Tail(s)
  OBVIOUS
<1>3. /\ n >= 1 /\ DOMAIN s = 1 .. n /\ DOMAIN t = 1 .. n - 1 /\ Head(s) = s[1]
      /\ \A i \in 1 .. n - 1 : t[i] = s[i + 1]
  BY <1>1, <1>2, TailElements, Elements
<1> QED BY <1>2, <1>3

\* The answer that the host takes ends its wait, so that it is owed no more.
LEMMA HostReadsKeepsOwed ==
    ASSUME OwedInv, HostReads
    PROVE  OwedInv'
<1>1. /\ Elsewhere /\ wire' = wire /\ tx' = Tail(tx) /\ tx # <<>>
      /\ host' = Takes(Head(tx)) /\ con.at = "write"
  BY DEF HostReads, engineVars, aggVars, Elsewhere
<1>2. Line' = Line /\ ~ Holds /\ ~ Holds'
  BY <1>1 DEF Line, Elsewhere, Holds
<1>3. HostKnown(host) /\ ConKnown /\ AggKnown /\ IsSequence(tx)
  BY DEF OwedInv, ConKnown
<1>4. PICK a : a = Head(tx)
  OBVIOUS
<1>5. PICK owed : owed = host'.owed
  OBVIOUS
<1>6. /\ host'.of = host.of /\ host'.next = host.next /\ owed \subseteq host.owed
      /\ \A request \in owed :
            ~ (request.seq = a.seq /\ OpcodeOf(request.kind) = OpcodeOf(a.kind))
  <2>1. PICK own : own = {request \in {r \in host.owed : r.seq = a.seq} :
                             OpcodeOf(request.kind) = OpcodeOf(a.kind)}
    OBVIOUS
  <2>2. PICK set : (set = {} \/ set = host.owed \ own) /\ host' = [host EXCEPT !.owed = set]
    BY <1>1, <1>4, <2>1 DEF Takes
  <2>3. host'.of = host.of /\ host'.next = host.next /\ owed \subseteq set
    BY <1>5, <2>2
  <2> QED BY <2>1, <2>2, <2>3
<1>7. ASSUME NEW c, Known(c, host) PROVE Known(c, host')
  BY <1>5, <1>6, <1>7, KnownShrinks
<1>8. \A c : Passed(c) => Passed(c)'
  BY <1>1, <1>2, <1>7 DEF Passed, Elsewhere
<1>9. EngineKnown' /\ \A c : Carried(c) => Carried(c)'
  BY <1>1, CarriedElsewhere DEF OwedInv
<1>10. /\ a = tx[1] /\ 1 \in DOMAIN tx /\ IsSequence(tx')
       /\ \A i \in DOMAIN tx' : i + 1 \in DOMAIN tx /\ tx'[i] = tx[i + 1]
  BY <1>1, <1>3, <1>4, TailOf, TailElements
<1>11. ConKnown'
  <2>1. IsSequence(rx') /\ IsSequence(wire') /\ (con'.at = "status" => rx' # <<>>)
    BY <1>1, <1>3 DEF ConKnown, Elsewhere
  <2>2. \A i \in DOMAIN Line' : Line'[i] # NoCommand => Line'[i] \in CommandType
    BY <1>2, <1>3 DEF ConKnown
  <2>3. LineInv(host, Line)'
    BY <1>2, <1>3, <1>7 DEF ConKnown, LineInv
  <2>4. \A i \in DOMAIN tx' : Passed(tx[i])'
    BY <1>3, <1>8, <1>10 DEF ConKnown
  <2>5. query'.kind = "enqueue" => query'.command = con'.command /\ query'.request.seq = con'.command.seq
    BY <1>1, <1>3 DEF ConKnown, Elsewhere
  <2>6. reply'.kind = "reserve" => reply'.ok \in BOOLEAN /\ (reply'.ok => Carried(con.command)')
    BY <1>1, <1>3, <1>9 DEF ConKnown, Elsewhere
  <2> QED BY <1>2, <1>10, <2>1, <2>2, <2>3, <2>4, <2>5, <2>6 DEF ConKnown
<1>12. AggKnown'
  BY <1>1, <1>3, <1>8 DEF AggKnown, Elsewhere
<1>13. HostKnown(host')
  BY <1>3, <1>5, <1>6 DEF HostKnown
<1>14. ASSUME NEW request \in owed PROVE Where(request)'
  <2>1. Where(request) /\ request \in host.owed
    BY <1>6 DEF OwedInv
  <2>2. ~ Same(a, request)
    <3> SUFFICES ASSUME Same(a, request) PROVE FALSE
      OBVIOUS
    <3>1. Known(a, host) /\ request.of = host.of /\ a.of = request.of /\ a.seq = request.seq
      BY <1>3, <1>10, <2>1 DEF ConKnown, Passed, HostKnown, Same
    <3>2. a.kind = request.kind
      BY <2>1, <3>1 DEF Known
    <3> QED BY <1>6, <3>1, <3>2
  <2>3. In(request, tx) => In(request, tx')
    BY <1>1, <1>3, <1>4, <2>2, InTail
  <2> QED BY <1>2, <1>9, <2>1, <2>3 DEF Where
<1> QED BY <1>5, <1>9, <1>11, <1>12, <1>13, <1>14 DEF OwedInv

(***************************************************************************)
(* What the console does.                                                  *)
(***************************************************************************)
LEMMA AnswerIsKnown ==
    ASSUME NEW c, NEW ok
    PROVE  LET a == Answer(c, ok) IN
           /\ \A h : Known(c, h) => Known(a, h)
           /\ \A s : OlderThan(c, s) => OlderThan(a, s)
           /\ \A d : Before(c, d) => Before(a, d)
           /\ \A request : Same(c, request) => Same(a, request)
<1> DEFINE a == Answer(c, ok)
<1>1. a.kind = c.kind /\ a.seq = c.seq /\ a.of = c.of
  BY DEF Answer
<1> HIDE DEF a
<1>2. /\ \A h : Known(c, h) => Known(a, h)
      /\ \A s : OlderThan(c, s) => OlderThan(a, s)
      /\ \A d : Before(c, d) => Before(a, d)
      /\ \A request : Same(c, request) => Same(a, request)
  BY <1>1 DEF Known, OlderThan, Before, Same
<1> QED BY <1>2 DEF a

LEMMA InAppended ==
    ASSUME NEW s, NEW x, IsSequence(s)
    PROVE  /\ \A c : In(c, s) \/ Same(x, c) => In(c, Append(s, x))
           /\ \A i \in DOMAIN Append(s, x) : Append(s, x)[i] = x \/ (i \in DOMAIN s /\ Append(s, x)[i] = s[i])
<1>1. PICK n \in Nat : n = Len(s)
  BY Elements
<1>2. PICK t : t = Append(s, x)
  OBVIOUS
<1>3. /\ IsSequence(t) /\ Len(t) = n + 1 /\ t[n + 1] = x /\ \A i \in 1 .. n : t[i] = s[i]
  BY <1>1, <1>2, AppendElements
<1>4. DOMAIN s = 1 .. n /\ DOMAIN t = 1 .. n + 1
  BY <1>1, <1>3, Elements
<1>5. \A i \in 1 .. n + 1 : i = n + 1 \/ i \in 1 .. n
  OBVIOUS
<1>6. n + 1 \in 1 .. n + 1 /\ \A i \in 1 .. n : i \in 1 .. n + 1
  OBVIOUS
<1> QED BY <1>2, <1>3, <1>4, <1>5, <1>6 DEF In

\* A step of the console that takes no frame: what it held is answered, or it
\* goes on holding it, or has handed it over.
LEMMA ConsoleTurns ==
    ASSUME OwedInv, EngineKnown',
           UNCHANGED <<host, rx, wire, pending, committing, done, lost, queue, job, sink>>,
           \A seq : HasDone(events, seq) => HasDone(events', seq),
           NEW s, tx' = s, IsSequence(s),
           \A i \in DOMAIN s : Known(s[i], host) /\ OlderThan(s[i], Line),
           con'.at \notin {"announce", "status"},
           con'.at = "enqueue" => Holds /\ con'.command = con.command,
           query'.kind = "enqueue" => query'.command = con'.command /\ query'.request.seq = con'.command.seq,
           reply'.kind # "reserve",
           \A request \in host.owed :
              In(request, tx) \/ (Holds /\ Same(con.command, request)) =>
                 \/ In(request, s) \/ Carried(request)
                 \/ con'.at = "enqueue" /\ Same(con'.command, request)
    PROVE  OwedInv'
<1>1. Line' = Line /\ HostKnown(host) /\ ConKnown /\ AggKnown
  BY DEF Line, OwedInv
<1>2. \A c : Passed(c) => Passed(c)'
  BY <1>1 DEF Passed, Known, OlderThan
<1>3. \A c : Carried(c) => Carried(c)'
  BY DEF Carried, Ongoing, Completed
<1>4. ConKnown'
  <2>1. /\ IsSequence(rx') /\ IsSequence(wire') /\ IsSequence(tx')
        /\ \A i \in DOMAIN Line' : Line'[i] # NoCommand => Line'[i] \in CommandType
    BY <1>1 DEF ConKnown
  <2>2. LineInv(host, Line)'
    BY <1>1 DEF ConKnown, LineInv, Known, Before
  <2>3. Holds' => con'.command \in CommandType /\ Known(con.command, host)' /\ OlderThan(con.command, Line)'
    BY <1>1 DEF ConKnown, Holds, Known, OlderThan, Before
  <2>4. \A i \in DOMAIN tx' : Passed(tx[i])'
    BY <1>1 DEF Passed, Known, OlderThan, Before
  <2> QED BY <2>1, <2>2, <2>3, <2>4 DEF ConKnown
<1>5. AggKnown'
  BY <1>1, <1>2 DEF AggKnown
<1>6. ASSUME NEW request \in host.owed PROVE Where(request)'
  <2>1. Where(request)
    BY DEF OwedInv
  <2>2. con'.at = "enqueue" /\ Same(con'.command, request) => Holds' /\ Same(con.command, request)'
    BY DEF Holds, Same
  <2>3. In(request, s) => In(request, tx)'
    BY DEF In, Same
  <2>4. In(request, Line) => In(request, Line)'
    BY <1>1 DEF In, Same
  <2> QED BY <1>3, <2>1, <2>2, <2>3, <2>4 DEF Where
<1>7. HostKnown(host)'
  BY <1>1 DEF HostKnown
<1> QED BY <1>4, <1>5, <1>6, <1>7 DEF OwedInv

LEMMA AfterFrameIs == AfterFrame \in {"write", "errors", "wait"}
BY DEF AfterFrame

LEMMA HandleKeepsOwed ==
    ASSUME OwedInv, StuckInv, Handle
    PROVE  OwedInv'
<1>1. /\ con.at = "announce" /\ Holds /\ Len(events) < EventCapacity
      /\ events' = Append(events, CommandEvent)
      /\ UNCHANGED <<host, rx, wire, pending, committing, done, lost, queue, job, sink, reply>>
  BY DEF Handle, hostVars, aggVars, Holds
<1>2. query.kind # "enqueue" /\ reply.kind # "reserve"
  BY <1>1 DEF StuckInv, Exchange
<1>3. PICK c : c = con.command
  OBVIOUS
<1>4. /\ HostKnown(host) /\ c \in CommandType /\ Known(c, host) /\ OlderThan(c, Line)
      /\ IsSequence(tx)
      /\ \A i \in DOMAIN tx : Known(tx[i], host) /\ OlderThan(tx[i], Line) /\ Before(tx[i], c)
  BY <1>1, <1>3 DEF OwedInv, ConKnown, Passed
<1>5. EngineKnown' /\ \A seq : HasDone(events, seq) => HasDone(events', seq)
  <2>1. PICK n \in Nat : n = Len(events)
    BY Elements DEF OwedInv, EngineKnown
  <2>2. PICK t : t = Append(events, CommandEvent)
    OBVIOUS
  <2>3. IsSequence(events) /\ IsSequence(t) /\ Len(t) = n + 1 /\ \A i \in 1 .. n : t[i] = events[i]
    BY <2>1, <2>2, AppendElements DEF OwedInv, EngineKnown
  <2>4. DOMAIN events = 1 .. n /\ DOMAIN t = 1 .. n + 1
    BY <2>1, <2>3, Elements
  <2>5. \A i \in 1 .. n : i \in 1 .. n + 1
    OBVIOUS
  <2>6. \A seq : HasDone(events, seq) => HasDone(t, seq)
    BY <2>3, <2>4, <2>5 DEF HasDone
  <2>7. n + 1 <= EventCapacity
    BY <1>1, <2>1, ConstantsAssumption
  <2> QED BY <1>1, <2>2, <2>3, <2>6, <2>7 DEF OwedInv, EngineKnown
<1>6. \/ \E ok : IsImmediate(c) /\ tx' = <<Answer(c, ok)>> /\ con'.at \in {"write", "errors", "wait"}
                 /\ query' = query
      \/ tx' = Append(tx, Answer(c, TRUE)) /\ con'.at \in {"write", "errors", "wait"} /\ query' = query
      \/ /\ query' = [kind |-> "enqueue", command |-> c, request |-> RequestOf(c)]
         /\ con' = [con EXCEPT !.at = "enqueue"] /\ tx' = tx
  <2>1. \A at : [Waiting EXCEPT !.at = at].at = at
    BY DEF Waiting
  <2> QED BY <1>3, <2>1, AfterFrameIs DEF Handle, Replaced, Queued
<1>7. CASE \E ok : IsImmediate(c) /\ tx' = <<Answer(c, ok)>> /\ con'.at \in {"write", "errors", "wait"}
                   /\ query' = query
  <2>1. PICK ok : IsImmediate(c) /\ tx' = <<Answer(c, ok)>>
    BY <1>7
  <2>2. c.kind \notin Keys
    BY <2>1, ConstantsAssumption DEF IsImmediate
  <2>3. PICK a : a = Answer(c, ok)
    OBVIOUS
  <2>4. /\ Known(a, host) /\ OlderThan(a, Line)
        /\ \A request \in host.owed : Same(c, request) => Same(a, request)
    BY <1>4, <2>3, AnswerIsKnown
  <2>5. PICK s : s = <<a>>
    OBVIOUS
  <2>6. IsSequence(s) /\ DOMAIN s = {1} /\ s[1] = a
    BY <2>5, SingleIsSequence
  <2>7. ASSUME NEW request \in host.owed, In(request, tx) PROVE FALSE
    <3>1. PICK i \in DOMAIN tx : Same(tx[i], request)
      BY <2>7 DEF In
    <3> QED BY <1>4, <2>2, <3>1, NothingOwedBefore
  <2>8. \A request \in host.owed :
           In(request, tx) \/ (Holds /\ Same(con.command, request)) => In(request, s)
    BY <1>3, <2>4, <2>6, <2>7 DEF In
  <2>9. tx' = s /\ \A i \in DOMAIN s : Known(s[i], host) /\ OlderThan(s[i], Line)
    BY <2>1, <2>3, <2>4, <2>5, <2>6
  <2>10. query'.kind # "enqueue" /\ reply'.kind # "reserve" /\ con'.at \notin {"announce", "status", "enqueue"}
    BY <1>1, <1>2, <1>7
  <2> QED BY <1>1, <1>5, <2>6, <2>8, <2>9, <2>10, ConsoleTurns
<1>8. CASE tx' = Append(tx, Answer(c, TRUE)) /\ con'.at \in {"write", "errors", "wait"} /\ query' = query
  <2>1. PICK a : a = Answer(c, TRUE)
    OBVIOUS
  <2>2. /\ Known(a, host) /\ OlderThan(a, Line)
        /\ \A request \in host.owed : Same(c, request) => Same(a, request)
    BY <1>4, <2>1, AnswerIsKnown
  <2>3. PICK s : s = Append(tx, a)
    OBVIOUS
  <2>4. /\ IsSequence(s) /\ \A request : In(request, tx) \/ Same(a, request) => In(request, s)
        /\ \A i \in DOMAIN s : s[i] = a \/ (i \in DOMAIN tx /\ s[i] = tx[i])
    BY <1>4, <2>3, InAppended, AppendElements
  <2>5. \A request \in host.owed :
           In(request, tx) \/ (Holds /\ Same(con.command, request)) => In(request, s)
    BY <1>3, <2>2, <2>4
  <2>6. tx' = s /\ \A i \in DOMAIN s : Known(s[i], host) /\ OlderThan(s[i], Line)
    BY <1>4, <1>8, <2>1, <2>2, <2>3, <2>4
  <2>7. query'.kind # "enqueue" /\ reply'.kind # "reserve" /\ con'.at \notin {"announce", "status", "enqueue"}
    BY <1>1, <1>2, <1>8
  <2> QED BY <1>1, <1>5, <2>4, <2>5, <2>6, <2>7, ConsoleTurns
<1>9. CASE /\ query' = [kind |-> "enqueue", command |-> c, request |-> RequestOf(c)]
           /\ con' = [con EXCEPT !.at = "enqueue"] /\ tx' = tx
  <2>1. RequestOf(c).seq = c.seq
    BY DEF RequestOf
  <2>2. query'.command = c /\ query'.request.seq = c.seq
    BY <1>9, <2>1
  <2>3. con'.at = "enqueue" /\ con'.command = c
    BY <1>3, <1>9 DEF StuckInv
  <2>4. PICK s : s = tx
    OBVIOUS
  <2>5. /\ tx' = s /\ IsSequence(s) /\ \A i \in DOMAIN s : Known(s[i], host) /\ OlderThan(s[i], Line)
        /\ \A request \in host.owed : In(request, tx) => In(request, s)
    BY <1>4, <1>9, <2>4
  <2>6. con'.at \notin {"announce", "status"} /\ reply'.kind # "reserve" /\ con'.command = con.command
    BY <1>1, <1>2, <1>3, <2>3
  <2> QED BY <1>1, <1>3, <1>5, <2>2, <2>3, <2>5, <2>6, ConsoleTurns
<1> QED BY <1>6, <1>7, <1>8, <1>9

\* A command that the aggregator refused is answered, one that it took is carried.
LEMMA EnqueuedKeepsOwed ==
    ASSUME OwedInv, StuckInv, Enqueued
    PROVE  OwedInv'
<1>1. /\ con.at = "enqueue" /\ Holds /\ reply.kind = "reserve" /\ reply'.kind = "none"
      /\ UNCHANGED <<host, rx, wire, pending, committing, done, lost, queue, job, sink, events, query>>
      /\ tx' = IF reply.ok THEN tx ELSE Queued(Answer(con.command, FALSE))
  BY DEF Enqueued, hostVars, aggVars, engineVars, Holds
<1>2. query.kind = "none"
  BY <1>1 DEF StuckInv, Exchange
<1>3. PICK c : c = con.command
  OBVIOUS
<1>4. /\ HostKnown(host) /\ c \in CommandType /\ Known(c, host) /\ OlderThan(c, Line)
      /\ IsSequence(tx)
      /\ \A i \in DOMAIN tx : Known(tx[i], host) /\ OlderThan(tx[i], Line)
      /\ reply.ok \in BOOLEAN /\ (reply.ok => Carried(c))
  BY <1>1, <1>3 DEF OwedInv, ConKnown, Passed
<1>5. EngineKnown' /\ \A seq : HasDone(events, seq) => HasDone(events', seq)
  BY <1>1 DEF OwedInv, EngineKnown
<1>6. con'.at \in {"write", "errors", "wait"}
  <2>1. \A at : [Waiting EXCEPT !.at = at].at = at
    BY DEF Waiting
  <2> QED BY <2>1, AfterFrameIs DEF Enqueued
<1>7. /\ query'.kind # "enqueue" /\ reply'.kind # "reserve"
      /\ con'.at \notin {"announce", "status", "enqueue"}
  BY <1>1, <1>2, <1>6
<1>8. PICK s : s = tx'
  OBVIOUS
<1>9. /\ IsSequence(s) /\ \A i \in DOMAIN s : Known(s[i], host) /\ OlderThan(s[i], Line)
      /\ \A request \in host.owed :
            In(request, tx) \/ (Holds /\ Same(con.command, request)) =>
               In(request, s) \/ Carried(request)
  <2>1. CASE reply.ok
    <3>1. s = tx /\ Carried(c)
      BY <1>1, <1>4, <1>8, <2>1
    <3>2. \A request \in host.owed : Same(c, request) => c = request
      BY <1>4, SameIsEqual
    <3> QED BY <1>3, <1>4, <3>1, <3>2
  <2>2. CASE ~ reply.ok
    <3>1. PICK a : a = Answer(c, FALSE)
      OBVIOUS
    <3>2. /\ Known(a, host) /\ OlderThan(a, Line)
          /\ \A request \in host.owed : Same(c, request) => Same(a, request)
      BY <1>4, <3>1, AnswerIsKnown
    <3>3. s = Append(tx, a)
      BY <1>1, <1>3, <1>8, <2>2, <3>1 DEF Queued
    <3>4. /\ IsSequence(s) /\ \A request : In(request, tx) \/ Same(a, request) => In(request, s)
          /\ \A i \in DOMAIN s : s[i] = a \/ (i \in DOMAIN tx /\ s[i] = tx[i])
      BY <1>4, <3>3, InAppended, AppendElements
    <3> QED BY <1>3, <1>4, <3>2, <3>4
  <2> QED BY <1>4, <2>1, <2>2
<1> QED BY <1>1, <1>5, <1>7, <1>8, <1>9, ConsoleTurns

\* The console that ends a write, or publishes its errors, holds no command.
LEMMA QuietTurnsKeepOwed ==
    ASSUME OwedInv, StuckInv, Written \/ PublishErrors
    PROVE  OwedInv'
<1>1. UNCHANGED <<host, rx, wire, tx, pending, committing, done, lost, queue, job, sink, events>>
  BY DEF Written, PublishErrors, hostVars, aggVars, engineVars
<1>2. con.at \in {"write", "errors"}
  BY DEF Written, PublishErrors
<1>3. query.kind # "enqueue" /\ reply.kind # "reserve" /\ ~ Holds
  BY <1>2 DEF StuckInv, Exchange, Holds
<1>4. query'.kind # "enqueue" /\ reply'.kind # "reserve" /\ con'.at \in {"wait", "errors"}
  <2>1. CASE Written
    BY <1>3, <2>1 DEF Written, Waiting
  <2>2. CASE PublishErrors
    BY <1>3, <2>2 DEF PublishErrors, Waiting
  <2> QED BY <2>1, <2>2
<1>5. EngineKnown' /\ \A seq : HasDone(events, seq) => HasDone(events', seq)
  BY <1>1 DEF OwedInv, EngineKnown
<1>6. PICK s : s = tx
  OBVIOUS
<1>7. /\ tx' = s /\ IsSequence(s) /\ \A i \in DOMAIN s : Known(s[i], host) /\ OlderThan(s[i], Line)
      /\ \A request \in host.owed : In(request, tx) => In(request, s)
  BY <1>1, <1>6 DEF OwedInv, ConKnown, Passed
<1>8. con'.at \notin {"announce", "status", "enqueue"}
  BY <1>4
<1> QED BY <1>1, <1>3, <1>4, <1>5, <1>7, <1>8, ConsoleTurns

\* The line without its first frame.
LEMMA LineWithoutFirst ==
    ASSUME IsSequence(rx), IsSequence(wire), rx # <<>>, rx' = Tail(rx), wire' = wire
    PROVE  \E n \in Nat \ {0} :
              /\ IsSequence(rx') /\ DOMAIN Line = 1 .. n /\ DOMAIN Line' = 1 .. n - 1
              /\ Line[1] = Head(rx) /\ \A i \in 1 .. n - 1 : Line'[i] = Line[i + 1]
<1>1. PICK p \in Nat, q \in Nat : p = Len(rx) /\ q = Len(wire)
  BY Elements
<1>2. PICK r : r = Tail(rx)
  OBVIOUS
<1>3. /\ IsSequence(r) /\ p >= 1 /\ Len(r) = p - 1 /\ Head(rx) = rx[1]
      /\ \A i \in 1 .. p - 1 : r[i] = rx[i + 1]
  BY <1>1, <1>2, TailElements
<1>4. PICK s : s = Line
  OBVIOUS
<1>5. PICK t : t = Line'
  OBVIOUS
<1>6. /\ IsSequence(s) /\ Len(s) = p + q
      /\ \A i \in 1 .. p + q : s[i] = IF i <= p THEN rx[i] ELSE wire[i - p]
  BY <1>1, <1>4, ConcatElements DEF Line
<1>7. t = r \o wire
  BY <1>2, <1>5 DEF Line
<1>8. PICK m \in Nat : m = p - 1
  <2>1. p >= 1
    BY <1>3
  <2> QED BY <2>1
<1>9. /\ IsSequence(t) /\ Len(t) = m + q
      /\ \A i \in 1 .. m + q : t[i] = IF i <= m THEN r[i] ELSE wire[i - m]
  <2>1. IsSequence(r) /\ IsSequence(wire) /\ Len(r) = m /\ Len(wire) = q
    BY <1>1, <1>3, <1>8
  <2> QED BY <1>7, <2>1, ConcatElements
<1>10. PICK n \in Nat \ {0} : n = p + q /\ n - 1 = m + q
  BY <1>1, <1>3, <1>8
<1>11. DOMAIN s = 1 .. n /\ DOMAIN t = 1 .. n - 1
  BY <1>6, <1>9, <1>10, Elements
<1>12. s[1] = Head(rx)
  <2>1. 1 \in 1 .. p + q /\ 1 <= p
    BY <1>3
  <2> QED BY <1>3, <1>6, <2>1
<1>13. ASSUME NEW i \in 1 .. n - 1 PROVE t[i] = s[i + 1]
  <2>1. i \in 1 .. m + q /\ i + 1 \in 1 .. p + q
    BY <1>10
  <2>2. CASE i <= m
    <3>1. i + 1 <= p /\ i \in 1 .. p - 1
      BY <1>8, <2>2
    <3> QED BY <1>3, <1>6, <1>9, <2>1, <2>2, <3>1
  <2>3. CASE ~ (i <= m)
    <3>1. ~ (i + 1 <= p) /\ (i + 1) - p = i - m
      BY <1>8, <2>3
    <3>2. t[i] = wire[i - m]
      BY <1>9, <2>1, <2>3
    <3>3. s[i + 1] = wire[(i + 1) - p]
      BY <1>6, <2>1, <3>1
    <3> QED BY <3>1, <3>2, <3>3
  <2> QED BY <2>2, <2>3
<1> QED BY <1>2, <1>3, <1>4, <1>5, <1>11, <1>12, <1>13

\* The first frame goes from the line into the hand of the console.
LEMMA DecodeKeepsOwed ==
    ASSUME OwedInv, StuckInv, Decode
    PROVE  OwedInv'
<1>1. /\ con.at = "status" /\ ~ Holds /\ rx' = Tail(rx) /\ reply'.kind # "reserve"
      /\ UNCHANGED <<host, wire, tx, query, pending, committing, done, lost>>
      /\ UNCHANGED <<queue, job, sink, events>>
  BY DEF Decode, hostVars, aggVars, engineVars, Holds
<1>2. query'.kind # "enqueue"
  BY <1>1 DEF StuckInv, Exchange
<1>3. HostKnown(host) /\ EngineKnown /\ ConKnown /\ AggKnown /\ rx # <<>>
  BY <1>1 DEF OwedInv, ConKnown
<1>4. PICK f : f = Head(rx)
  OBVIOUS
<1>5. \/ f = NoCommand /\ con'.at \in {"write", "errors", "wait"}
      \/ f # NoCommand /\ con'.at = "announce" /\ con'.command = f
  <2>1. \A at : [Waiting EXCEPT !.at = at].at = at
    BY DEF Waiting
  <2>2. CASE f = NoCommand
    <3>1. con' = [Waiting EXCEPT !.at = AfterFrame]
      BY <1>4, <2>2 DEF Decode
    <3> QED BY <2>1, <2>2, <3>1, AfterFrameIs
  <2>3. CASE f # NoCommand
    <3>1. con' = [at |-> "announce", command |-> f,
                  page |-> reply.snapshot.page, count |-> reply.snapshot.count]
      BY <1>4, <2>3 DEF Decode
    <3>2. con'.at = "announce" /\ con'.command = f
      BY <3>1
    <3> QED BY <2>3, <3>2
  <2> QED BY <2>2, <2>3
<1>6. PICK s : s = Line
  OBVIOUS
<1>7. PICK t : t = Line'
  OBVIOUS
<1>8. PICK n \in Nat \ {0} :
         /\ IsSequence(rx') /\ DOMAIN s = 1 .. n /\ DOMAIN t = 1 .. n - 1
         /\ s[1] = f /\ \A i \in 1 .. n - 1 : t[i] = s[i + 1]
  BY <1>1, <1>3, <1>4, <1>6, <1>7, LineWithoutFirst DEF ConKnown
<1>9. 1 \in 1 .. n /\ \A i \in 1 .. n - 1 : i + 1 \in 1 .. n /\ 1 < i + 1
  OBVIOUS
<1>10. /\ \A i \in 1 .. n : s[i] # NoCommand => s[i] \in CommandType /\ Known(s[i], host)
       /\ \A i, j \in 1 .. n : i < j /\ s[i] # NoCommand /\ s[j] # NoCommand => Before(s[i], s[j])
  BY <1>3, <1>6, <1>8 DEF ConKnown, LineInv
<1>11. \A i \in 1 .. n - 1 : t[i] # NoCommand => t[i] \in CommandType /\ Known(t[i], host)
  BY <1>8, <1>9, <1>10
<1>12. ASSUME NEW i \in 1 .. n - 1, NEW j \in 1 .. n - 1, i < j, t[i] # NoCommand, t[j] # NoCommand
       PROVE  Before(t[i], t[j])
  <2>1. i + 1 < j + 1
    BY <1>12
  <2> QED BY <1>8, <1>9, <1>10, <1>12, <2>1
<1>13. LineInv(host, Line)'
  BY <1>1, <1>7, <1>8, <1>11, <1>12 DEF LineInv
<1>14. ASSUME NEW c, OlderThan(c, s)
       PROVE  OlderThan(c, t) /\ (f # NoCommand => Before(c, f))
  BY <1>8, <1>9, <1>14 DEF OlderThan
<1>15. f # NoCommand => f \in CommandType /\ Known(f, host) /\ OlderThan(f, t)
  BY <1>8, <1>9, <1>10 DEF OlderThan
<1>16. \A c : Passed(c) => Passed(c)'
  <2>1. ASSUME NEW c, Passed(c) PROVE Known(c, host) /\ OlderThan(c, t) /\ (con'.at = "announce" => Before(c, con'.command))
    BY <1>5, <1>6, <1>14, <2>1 DEF Passed
  <2> QED BY <1>1, <1>7, <2>1 DEF Passed
<1>17. EngineKnown' /\ \A c : Carried(c) => Carried(c)'
  BY <1>1, <1>3 DEF EngineKnown, Carried, Ongoing, Completed
<1>18. ConKnown'
  <2>1. Holds' => con'.command \in CommandType /\ Known(con'.command, host') /\ OlderThan(con'.command, t)
    BY <1>1, <1>5, <1>15 DEF Holds
  <2>2. IsSequence(wire') /\ IsSequence(tx') /\ \A i \in DOMAIN tx' : Passed(tx[i])'
    BY <1>1, <1>3, <1>16 DEF ConKnown
  <2>3. con'.at # "status"
    BY <1>5
  <2> QED BY <1>1, <1>2, <1>7, <1>8, <1>11, <1>13, <2>1, <2>2, <2>3 DEF ConKnown
<1>19. AggKnown'
  BY <1>1, <1>3, <1>16 DEF AggKnown
<1>20. ASSUME NEW request \in host.owed PROVE Where(request)'
  <2>1. Where(request)
    BY DEF OwedInv
  <2>2. CASE In(request, Line)
    <3>1. PICK i \in 1 .. n : Same(s[i], request)
      BY <1>6, <1>8, <2>2 DEF In
    <3>2. CASE i = 1
      <4>1. Same(f, request) /\ f.of # 0
        BY <1>3, <1>8, <3>1, <3>2 DEF HostKnown, Same
      <4>2. f # NoCommand
        BY <4>1 DEF NoCommand
      <4>3. Holds' /\ con'.command = f
        BY <1>5, <4>2 DEF Holds
      <4> QED BY <4>1, <4>3 DEF Where, Same
    <3>3. CASE i # 1
      <4>1. i - 1 \in 1 .. n - 1 /\ i - 1 + 1 = i
        BY <3>3
      <4>2. t[i - 1] = s[i]
        BY <1>8, <4>1
      <4> QED BY <1>7, <1>8, <3>1, <4>1, <4>2 DEF Where, In, Same
    <3> QED BY <3>2, <3>3
  <2>3. CASE In(request, tx)
    BY <1>1, <2>3 DEF Where, In, Same
  <2>4. CASE Carried(request)
    BY <1>17, <2>4 DEF Where
  <2> QED BY <1>1, <2>1, <2>2, <2>3, <2>4 DEF Where
<1>21. HostKnown(host)'
  BY <1>1, <1>3 DEF HostKnown
<1> QED BY <1>1, <1>17, <1>18, <1>19, <1>20, <1>21 DEF OwedInv

LEMMA EmptyAfter ==
    ASSUME NEW s, IsSequence(s)
    PROVE  s \o <<>> = s
<1> DEFINE R == {s[i] : i \in DOMAIN s}
<1>1. s \in Seq(R)
  BY DEF IsSequence
<1> HIDE DEF R
<1> QED BY <1>1

\* What is completed is answered.
LEMMA DrainedAnswers ==
    ASSUME IsSequence(done), IsSequence(tx)
    PROVE  \E s : /\ s = tx \o Drained /\ IsSequence(s)
                  /\ \A c : In(c, tx) \/ Completed(done, c) => In(c, s)
                  /\ \A i \in DOMAIN s :
                        \/ \E j \in DOMAIN tx : s[i] = tx[j]
                        \/ \E j \in DOMAIN done : s[i] = Answer(done[j].command, done[j].ok)
<1>1. PICK n \in Nat, m \in Nat : n = Len(tx) /\ m = Len(done)
  BY Elements
<1>2. DOMAIN tx = 1 .. n /\ DOMAIN done = 1 .. m
  BY <1>1, Elements
<1>3. PICK d : d = Drained
  OBVIOUS
<1>4. d = [i \in 1 .. m |-> Answer(done[i].command, done[i].ok)]
  BY <1>2, <1>3 DEF Drained
<1>5. IsSequence(d) /\ Len(d) = m
  <2> DEFINE R == {Answer(done[i].command, done[i].ok) : i \in 1 .. m}
  <2>1. \A i \in 1 .. m : Answer(done[i].command, done[i].ok) \in R
    OBVIOUS
  <2> HIDE DEF R
  <2>2. d \in [1 .. m -> R]
    BY <1>4, <2>1
  <2>3. d \in Seq(R) /\ Len(d) = m
    BY <2>2
  <2> QED BY <2>3, SequenceOfItsOwn
<1>6. PICK s : s = tx \o d
  OBVIOUS
<1>7. /\ IsSequence(s) /\ DOMAIN s = 1 .. n + m
      /\ \A i \in 1 .. n + m : s[i] = IF i <= n THEN tx[i] ELSE d[i - n]
  BY <1>1, <1>5, <1>6, Elements, ConcatElements
<1>8. ASSUME NEW i \in 1 .. n + m
      PROVE  \/ i \in 1 .. n /\ s[i] = tx[i]
             \/ i - n \in 1 .. m /\ s[i] = d[i - n]
  <2>1. (i <= n /\ i \in 1 .. n) \/ (~ (i <= n) /\ i - n \in 1 .. m)
    BY <1>8
  <2> QED BY <1>7, <2>1
<1>9. ASSUME NEW c, In(c, tx) PROVE In(c, s)
  <2>1. PICK i \in 1 .. n : Same(tx[i], c)
    BY <1>2, <1>9 DEF In
  <2>2. i \in 1 .. n + m /\ i <= n
    OBVIOUS
  <2> QED BY <1>7, <2>1, <2>2 DEF In
<1>10. ASSUME NEW c, Completed(done, c) PROVE In(c, s)
  <2>1. PICK j \in 1 .. m : Same(done[j].command, c)
    BY <1>2, <1>10 DEF Completed
  <2>2. n + j \in 1 .. n + m /\ ~ (n + j <= n) /\ n + j - n = j
    OBVIOUS
  <2>3. Same(d[j], c)
    BY <1>4, <2>1, AnswerIsKnown
  <2>4. s[n + j] = d[n + j - n]
    BY <1>7, <2>2
  <2>5. s[n + j] = d[j] /\ n + j \in DOMAIN s
    BY <1>7, <2>2, <2>4
  <2> QED BY <2>3, <2>5 DEF In
<1>11. ASSUME NEW i \in DOMAIN s
       PROVE  \/ \E j \in DOMAIN tx : s[i] = tx[j]
              \/ \E j \in DOMAIN done : s[i] = Answer(done[j].command, done[j].ok)
  <2>1. CASE i \in 1 .. n /\ s[i] = tx[i]
    BY <1>2, <2>1
  <2>2. CASE i - n \in 1 .. m /\ s[i] = d[i - n]
    <3>1. PICK j \in 1 .. m : j = i - n
      BY <2>2
    <3>2. s[i] = Answer(done[j].command, done[j].ok)
      BY <1>4, <2>2, <3>1
    <3> QED BY <1>2, <3>2
  <2> QED BY <1>7, <1>8, <2>1, <2>2
<1>12. s = tx \o Drained /\ IsSequence(s)
  BY <1>3, <1>6, <1>7
<1>13. \A c : In(c, tx) \/ Completed(done, c) => In(c, s)
  BY <1>9, <1>10
<1> QED BY <1>11, <1>12, <1>13, Zenon

\* The frames are read, the completions become answers.
LEMMA GatherKeepsOwed ==
    ASSUME OwedInv, StuckInv, Gather
    PROVE  OwedInv'
<1>1. /\ con.at = "wait" /\ ~ Holds /\ rx' = rx \o wire /\ wire' = <<>> /\ done' = <<>>
      /\ tx' = tx \o Drained
      /\ UNCHANGED <<host, reply, pending, committing, lost>>
      /\ UNCHANGED <<queue, job, sink, events>>
  BY DEF Gather, hostVars, aggVars, engineVars, Holds
<1>2. query.kind # "enqueue" /\ reply'.kind # "reserve"
  BY <1>1 DEF StuckInv, Exchange
<1>3. \/ con'.at = "status" /\ rx' # <<>> /\ query'.kind = "status"
      \/ con'.at \in {"write", "errors", "wait"} /\ query' = query
  <2>1. \A at : [Waiting EXCEPT !.at = at].at = at
    BY DEF Waiting
  <2>2. CASE rx' # <<>>
    <3>1. con' = [Waiting EXCEPT !.at = "status"] /\ query' = [kind |-> "status"]
      BY <2>2 DEF Gather
    <3> QED BY <2>1, <2>2, <3>1
  <2>3. CASE ~ (rx' # <<>>)
    <3>1. con' = [Waiting EXCEPT !.at = AfterFrame] /\ query' = query
      BY <2>3 DEF Gather
    <3> QED BY <2>1, <3>1, AfterFrameIs
  <2> QED BY <2>2, <2>3
<1>4. /\ query'.kind # "enqueue" /\ ~ Holds' /\ con'.at # "announce"
      /\ con'.at = "status" => rx' # <<>>
  BY <1>2, <1>3 DEF Holds
<1>5. HostKnown(host) /\ EngineKnown /\ ConKnown /\ AggKnown
  BY DEF OwedInv
<1>6. IsSequence(rx') /\ IsSequence(wire') /\ Line' = Line
  <2>1. PICK u : u = rx \o wire
    OBVIOUS
  <2>2. IsSequence(u) /\ u \o <<>> = u
    BY <1>5, <2>1, ConcatElements, EmptyAfter DEF ConKnown
  <2> QED BY <1>1, <2>1, <2>2, EmptyIsSequence DEF Line
<1>7. PICK s : /\ s = tx \o Drained /\ IsSequence(s)
               /\ \A c : In(c, tx) \/ Completed(done, c) => In(c, s)
               /\ \A i \in DOMAIN s :
                     \/ \E j \in DOMAIN tx : s[i] = tx[j]
                     \/ \E j \in DOMAIN done : s[i] = Answer(done[j].command, done[j].ok)
  BY <1>5, DrainedAnswers DEF ConKnown, StuckInv
<1>8. tx' = s
  BY <1>1, <1>7
<1>9. \A c : Passed(c) => Passed(c)'
  BY <1>1, <1>4, <1>6, PassedStays
<1>10. ASSUME NEW c, NEW ok, Passed(c) PROVE Passed(Answer(c, ok))
  <2>1. PICK a : a = Answer(c, ok)
    OBVIOUS
  <2>2. Known(a, host) /\ OlderThan(a, Line)
    BY <1>10, <2>1, AnswerIsKnown DEF Passed
  <2> QED BY <1>1, <2>1, <2>2 DEF Passed
<1>11. ConKnown'
  <2>1. \A i \in DOMAIN s : Passed(s[i])
    BY <1>5, <1>7, <1>10 DEF ConKnown, AggKnown
  <2>2. IsSequence(tx') /\ \A i \in DOMAIN tx' : Passed(tx[i])'
    BY <1>7, <1>8, <1>9, <2>1
  <2>3. \A i \in DOMAIN Line' : Line'[i] # NoCommand => Line'[i] \in CommandType
    BY <1>5, <1>6 DEF ConKnown
  <2>4. LineInv(host, Line)'
    BY <1>1, <1>5, <1>6 DEF ConKnown, LineInv
  <2> QED BY <1>2, <1>4, <1>6, <2>2, <2>3, <2>4 DEF ConKnown
<1>12. AggKnown'
  <2>1. DOMAIN done' = {}
    BY <1>1
  <2> QED BY <1>1, <1>5, <1>9, <2>1 DEF AggKnown
<1>13. EngineKnown'
  BY <1>1, <1>5 DEF EngineKnown
<1>14. ASSUME NEW request \in host.owed PROVE Where(request)'
  <2>1. Where(request)
    BY DEF OwedInv
  <2>2. CASE In(request, Line)
    BY <1>6, <2>2 DEF Where, In, Same
  <2>3. CASE In(request, tx) \/ Completed(done, request)
    <3>1. In(request, s)
      BY <1>7, <2>3
    <3> QED BY <1>8, <3>1 DEF Where, In, Same
  <2>4. CASE \/ request \in pending /\ Ongoing(request.seq)
             \/ Completed(committing, request) \/ request \in lost
    <3>1. Carried(request)'
      BY <1>1, <2>4 DEF Carried, Ongoing, Completed
    <3> QED BY <3>1 DEF Where
  <2> QED BY <1>1, <2>1, <2>2, <2>3, <2>4 DEF Where, Carried
<1>15. HostKnown(host)'
  BY <1>1, <1>5 DEF HostKnown
<1> QED BY <1>1, <1>11, <1>12, <1>13, <1>14, <1>15 DEF OwedInv

(***************************************************************************)
(* What the aggregator and the display task do.                            *)
(***************************************************************************)
LEMMA PassedKept ==
    ASSUME UNCHANGED <<host, rx, wire, con>>, NEW c, Passed(c)
    PROVE  Passed(c)'
BY DEF Passed, Known, OlderThan, Before, Line

\* A step that leaves host and console alone, and carries what was carried.
LEMMA AggregatorTurns ==
    ASSUME OwedInv, EngineKnown', AggKnown',
           UNCHANGED <<host, rx, wire, tx, con>>,
           \A c : Carried(c) => Carried(c)',
           query' = query \/ query'.kind # "enqueue",
           reply' = reply \/ reply'.kind # "reserve"
               \/ (reply'.ok \in BOOLEAN /\ (reply'.ok => Carried(con.command)'))
    PROVE  OwedInv'
<1>1. HostKnown(host) /\ ConKnown /\ Line' = Line /\ (Holds' <=> Holds)
  BY DEF OwedInv, Line, Holds
<1>2. \A c : Passed(c) => Passed(c)'
  BY PassedKept
<1>3. ConKnown'
  <2>1. IsSequence(rx') /\ IsSequence(wire') /\ IsSequence(tx') /\ (con'.at = "status" => rx' # <<>>)
    BY <1>1 DEF ConKnown
  <2>2. \A i \in DOMAIN Line' : Line'[i] # NoCommand => Line'[i] \in CommandType
    BY <1>1 DEF ConKnown
  <2>3. LineInv(host, Line)'
    BY <1>1 DEF ConKnown, LineInv
  <2>4. Holds' => con'.command \in CommandType /\ Known(con.command, host)' /\ OlderThan(con.command, Line)'
    BY <1>1 DEF ConKnown
  <2>5. \A i \in DOMAIN tx' : Passed(tx[i])'
    BY <1>1, <1>2 DEF ConKnown
  <2>6. query'.kind = "enqueue" => query'.command = con'.command /\ query'.request.seq = con'.command.seq
    BY <1>1 DEF ConKnown
  <2>7. reply'.kind = "reserve" => reply'.ok \in BOOLEAN /\ (reply'.ok => Carried(con.command)')
    BY <1>1 DEF ConKnown
  <2> QED BY <2>1, <2>2, <2>3, <2>4, <2>5, <2>6, <2>7 DEF ConKnown
<1>4. ASSUME NEW request \in host.owed PROVE Where(request)'
  <2>1. Where(request)
    BY DEF OwedInv
  <2>2. (In(request, Line) => In(request, Line)') /\ (In(request, tx) => In(request, tx)')
    BY <1>1 DEF In, Same
  <2>3. Holds /\ Same(con.command, request) => Holds' /\ Same(con.command, request)'
    BY <1>1 DEF Same
  <2> QED BY <2>1, <2>2, <2>3 DEF Where
<1>5. HostKnown(host)'
  BY <1>1 DEF HostKnown
<1> QED BY <1>3, <1>4, <1>5 DEF OwedInv

\* The elements of a sequence are those of two others.
Joins(u, s, t) ==
    /\ \A i \in DOMAIN u : (\E j \in DOMAIN s : u[i] = s[j]) \/ (\E j \in DOMAIN t : u[i] = t[j])
    /\ \A j \in DOMAIN s : \E i \in DOMAIN u : u[i] = s[j]
    /\ \A j \in DOMAIN t : \E i \in DOMAIN u : u[i] = t[j]

LEMMA ConcatOf ==
    ASSUME NEW s, NEW t, IsSequence(s), IsSequence(t)
    PROVE  Joins(s \o t, s, t)
<1>1. PICK n \in Nat, m \in Nat : n = Len(s) /\ m = Len(t)
  BY Elements
<1>2. PICK u : u = s \o t
  OBVIOUS
<1>3. /\ DOMAIN s = 1 .. n /\ DOMAIN t = 1 .. m /\ DOMAIN u = 1 .. n + m
      /\ \A i \in 1 .. n + m : u[i] = IF i <= n THEN s[i] ELSE t[i - n]
  BY <1>1, <1>2, Elements, ConcatElements
<1>4. ASSUME NEW i \in DOMAIN u
      PROVE  (\E j \in DOMAIN s : u[i] = s[j]) \/ (\E j \in DOMAIN t : u[i] = t[j])
  <2>1. i \in 1 .. n + m
    BY <1>3
  <2>2. (i <= n /\ i \in 1 .. n) \/ (~ (i <= n) /\ i - n \in 1 .. m)
    BY <2>1
  <2>3. (i \in DOMAIN s /\ u[i] = s[i]) \/ (i - n \in DOMAIN t /\ u[i] = t[i - n])
    BY <1>3, <2>1, <2>2
  <2> QED BY <2>3
<1>5. ASSUME NEW j \in DOMAIN s PROVE \E i \in DOMAIN u : u[i] = s[j]
  <2>1. j \in 1 .. n + m /\ j <= n
    BY <1>3
  <2> QED BY <1>3, <2>1
<1>6. ASSUME NEW j \in DOMAIN t PROVE \E i \in DOMAIN u : u[i] = t[j]
  <2>1. j \in 1 .. m
    BY <1>3
  <2>2. n + j \in 1 .. n + m /\ ~ (n + j <= n) /\ (n + j) - n = j
    BY <2>1
  <2>3. u[n + j] = t[(n + j) - n]
    BY <1>3, <2>2
  <2>4. u[n + j] = t[j] /\ n + j \in DOMAIN u
    BY <1>3, <2>2, <2>3
  <2> QED BY <2>4
<1>7. Joins(u, s, t)
  BY <1>4, <1>5, <1>6 DEF Joins
<1> QED BY <1>2, <1>7

LEMMA AppendOf ==
    ASSUME NEW s, NEW x, IsSequence(s)
    PROVE  LET u == Append(s, x) IN
           /\ \A i \in DOMAIN u : (\E j \in DOMAIN s : u[i] = s[j]) \/ u[i] = x
           /\ \A j \in DOMAIN s : \E i \in DOMAIN u : u[i] = s[j]
           /\ \E i \in DOMAIN u : u[i] = x
<1>1. PICK n \in Nat : n = Len(s)
  BY Elements
<1>2. PICK u : u = Append(s, x)
  OBVIOUS
<1>3. /\ IsSequence(u) /\ Len(u) = n + 1 /\ u[n + 1] = x /\ \A i \in 1 .. n : u[i] = s[i]
  BY <1>1, <1>2, AppendElements
<1>4. DOMAIN s = 1 .. n /\ DOMAIN u = 1 .. n + 1
  BY <1>1, <1>3, Elements
<1>5. \A i \in 1 .. n + 1 : i = n + 1 \/ i \in 1 .. n
  OBVIOUS
<1>6. n + 1 \in 1 .. n + 1 /\ \A i \in 1 .. n : i \in 1 .. n + 1
  OBVIOUS
<1> QED BY <1>2, <1>3, <1>4, <1>5, <1>6

LEMMA DoneInTail ==
    ASSUME NEW s, IsSequence(s), s # <<>>, NEW seq, HasDone(s, seq)
    PROVE  (Head(s).kind = "done" /\ Head(s).seq = seq) \/ HasDone(Tail(s), seq)
<1>1. PICK n \in Nat : n = Len(s)
  BY Elements
<1>2. PICK t : t = Tail(s)
  OBVIOUS
<1>3. /\ n >= 1 /\ DOMAIN s = 1 .. n /\ DOMAIN t = 1 .. n - 1 /\ Head(s) = s[1]
      /\ \A i \in 1 .. n - 1 : t[i] = s[i + 1]
  BY <1>1, <1>2, TailElements, Elements
<1>4. PICK i \in 1 .. n : s[i].kind = "done" /\ s[i].seq = seq
  BY <1>3 DEF HasDone
<1>5. CASE i = 1
  BY <1>3, <1>4, <1>5
<1>6. CASE i # 1
  <2>1. i - 1 \in 1 .. n - 1 /\ i - 1 + 1 = i
    BY <1>6
  <2>2. t[i - 1] = s[i]
    BY <1>3, <2>1
  <2> QED BY <1>2, <1>3, <1>4, <2>1, <2>2 DEF HasDone
<1> QED BY <1>5, <1>6

\* What a completion is of is no longer reserved, and completed.
LEMMA CommitKeepsOwed ==
    ASSUME OwedInv, StuckInv, Commit
    PROVE  OwedInv'
<1>1. /\ committing = <<>> /\ events # <<>> /\ events' = Tail(events)
      /\ UNCHANGED <<host, rx, wire, tx, con, query, reply, lost>>
      /\ UNCHANGED <<queue, job, sink>>
  BY DEF Commit, hostVars, conVars
<1>2. EngineKnown /\ AggKnown /\ IsSequence(done)
  BY DEF OwedInv, StuckInv
<1>3. PICK e : e = Head(events)
  OBVIOUS
<1>4. PICK own : own = IF e.kind = "done" THEN Reserved(e.seq) ELSE {}
  OBVIOUS
<1>5. PICK completion : completion = [command |-> CHOOSE c \in own : TRUE, ok |-> e.ok]
  OBVIOUS
<1>6. /\ pending' = pending \ own
      /\ own = {} => done' = done /\ committing' = committing
      /\ own # {} => \/ done' = Append(done, completion) /\ committing' = committing
                     \/ committing' = <<completion>> /\ done' = done
  BY <1>3, <1>4, <1>5 DEF Commit
<1>7. /\ own \subseteq pending /\ \A c, d \in own : c = d
      /\ e.kind = "done" => \A c \in pending : c.seq = e.seq => c \in own
  BY <1>2, <1>4 DEF Reserved, AggKnown
<1>8. own # {} => completion.command \in own /\ \A c \in own : c = completion.command
  <2>1. own # {} => (CHOOSE c \in own : TRUE) \in own
    OBVIOUS
  <2>2. completion.command = CHOOSE c \in own : TRUE
    BY <1>5
  <2> QED BY <1>7, <2>1, <2>2
<1>9. EngineKnown'
  <2>1. PICK n \in Nat : n = Len(events)
    BY <1>2, Elements DEF EngineKnown
  <2>2. IsSequence(events') /\ Len(events') = n - 1
    BY <1>1, <1>2, <2>1, TailElements DEF EngineKnown
  <2>3. n <= EventCapacity
    BY <1>2, <2>1 DEF EngineKnown
  <2>4. Len(events') <= EventCapacity
    BY <2>2, <2>3, ConstantsAssumption
  <2> QED BY <1>1, <1>2, <2>2, <2>4 DEF EngineKnown
<1>10. ASSUME NEW seq, Ongoing(seq) PROVE Ongoing(seq)' \/ (e.kind = "done" /\ e.seq = seq)
  <2>1. HasDone(events, seq) => (e.kind = "done" /\ e.seq = seq) \/ HasDone(events', seq)
    BY <1>1, <1>2, <1>3, DoneInTail DEF EngineKnown
  <2>2. /\ HasRequest(queue, seq) => HasRequest(queue, seq)'
        /\ HasDone(sink, seq) => HasDone(sink, seq)'
        /\ HasDone(events', seq) => HasDone(events, seq)'
    BY <1>1 DEF HasRequest, HasDone
  <2> QED BY <1>1, <1>10, <2>1, <2>2 DEF Ongoing
<1>11. \/ own = {} /\ done' = done /\ committing' = committing
       \/ /\ own # {} /\ committing' = committing
          /\ \A i \in DOMAIN done' :
                (\E j \in DOMAIN done : done'[i] = done[j]) \/ done'[i] = completion
          /\ \A j \in DOMAIN done : \E i \in DOMAIN done' : done'[i] = done[j]
          /\ \E i \in DOMAIN done' : done'[i] = completion
       \/ /\ own # {} /\ done' = done
          /\ DOMAIN committing' = {1} /\ committing'[1] = completion
  <2>1. CASE own = {}
    BY <1>6, <2>1
  <2>2. CASE own # {} /\ done' = Append(done, completion) /\ committing' = committing
    BY <1>2, <2>2, AppendOf
  <2>3. CASE own # {} /\ committing' = <<completion>> /\ done' = done
    BY <2>3
  <2> QED BY <1>6, <2>1, <2>2, <2>3
<1>12. DOMAIN committing = {}
  BY <1>1
<1>13. ASSUME NEW c, Completed(done, c) PROVE Completed(done, c)'
  <2>1. PICK j \in DOMAIN done : Same(done[j].command, c)
    BY <1>13 DEF Completed
  <2>2. \E i \in DOMAIN done' : done'[i] = done[j]
    BY <1>11
  <2> QED BY <2>1, <2>2 DEF Completed, Same
<1>14. ASSUME NEW c \in own PROVE Completed(done, c)' \/ Completed(committing, c)'
  <2>1. completion.command = c
    BY <1>8
  <2>2. Same(completion.command, c)
    BY <2>1 DEF Same
  <2>3. (\E i \in DOMAIN done' : done'[i] = completion) \/ (\E i \in DOMAIN committing' : committing'[i] = completion)
    BY <1>11
  <2> QED BY <2>2, <2>3 DEF Completed, Same
<1>15. ASSUME NEW c, Carried(c) PROVE Carried(c)'
  <2>1. CASE c \in pending /\ Ongoing(c.seq)
    <3>1. CASE c \in own
      BY <1>14, <3>1 DEF Carried
    <3>2. CASE c \notin own
      <4>1. c \in pending' /\ ~ (e.kind = "done" /\ e.seq = c.seq)
        BY <1>6, <1>7, <2>1, <3>2
      <4>2. Ongoing(c.seq)'
        BY <1>10, <2>1, <4>1
      <4> QED BY <4>1, <4>2 DEF Carried
    <3> QED BY <3>1, <3>2
  <2>2. CASE Completed(done, c)
    BY <1>13, <2>2 DEF Carried
  <2>3. ~ Completed(committing, c)
    BY <1>12 DEF Completed
  <2>4. CASE c \in lost
    BY <1>1, <2>4 DEF Carried
  <2> QED BY <1>15, <2>1, <2>2, <2>3, <2>4 DEF Carried
<1>16. AggKnown'
  <2>1. \A c : Passed(c) => Passed(c)'
    BY <1>1, PassedKept
  <2>2. own # {} => Passed(completion.command)
    BY <1>2, <1>7, <1>8 DEF AggKnown
  <2>3. /\ pending' \subseteq CommandType
        /\ \A c \in pending' : Passed(c)' /\ \A d \in pending' : c.seq = d.seq => c = d
    BY <1>2, <1>6, <2>1 DEF AggKnown
  <2>4. \A i \in DOMAIN done' : Passed(done'[i].command)
    BY <1>2, <1>11, <2>2 DEF AggKnown
  <2>5. \A i \in DOMAIN committing' : Passed(committing'[i].command)
    BY <1>11, <1>12, <2>2
  <2>6. /\ \A i \in DOMAIN done' : Passed(done[i].command)'
        /\ \A i \in DOMAIN committing' : Passed(committing[i].command)'
    BY <1>1, <2>4, <2>5 DEF Passed, Known, OlderThan, Before, Line
  <2> QED BY <2>3, <2>6 DEF AggKnown
<1> QED BY <1>1, <1>9, <1>15, <1>16, AggregatorTurns

\* The completion that waited goes into the channel.
LEMMA CommitSendsKeepsOwed ==
    ASSUME OwedInv, StuckInv, CommitSends
    PROVE  OwedInv'
<1>1. /\ done' = done \o committing /\ committing' = <<>>
      /\ UNCHANGED <<host, rx, wire, tx, con, query, reply, lost, pending>>
      /\ UNCHANGED <<queue, job, sink, events>>
  BY DEF CommitSends, hostVars, conVars, engineVars
<1>2. EngineKnown /\ AggKnown /\ IsSequence(done) /\ IsSequence(committing)
  BY DEF OwedInv, StuckInv
<1>3. /\ \A i \in DOMAIN done' : \/ \E j \in DOMAIN done : done'[i] = done[j]
                                 \/ \E j \in DOMAIN committing : done'[i] = committing[j]
      /\ \A j \in DOMAIN done : \E i \in DOMAIN done' : done'[i] = done[j]
      /\ \A j \in DOMAIN committing : \E i \in DOMAIN done' : done'[i] = committing[j]
  <2>1. Joins(done', done, committing)
    BY <1>1, <1>2, ConcatOf
  <2> QED BY <2>1 DEF Joins
<1>4. EngineKnown'
  BY <1>1, <1>2 DEF EngineKnown
<1>5. ASSUME NEW c, Completed(done, c) \/ Completed(committing, c) PROVE Completed(done, c)'
  <2>1. \E i \in DOMAIN done' : Same(done'[i].command, c)
    BY <1>3, <1>5 DEF Completed
  <2> QED BY <2>1 DEF Completed, Same
<1>6. ASSUME NEW c, Carried(c) PROVE Carried(c)'
  BY <1>1, <1>5, <1>6 DEF Carried, Ongoing
<1>7. AggKnown'
  <2>1. \A c : Passed(c) => Passed(c)'
    BY <1>1, PassedKept
  <2>2. \A i \in DOMAIN done' : Passed(done'[i].command)
    BY <1>2, <1>3 DEF AggKnown
  <2>3. ASSUME NEW i \in DOMAIN done' PROVE Passed(done[i].command)'
    <3>1. PICK c : c = done'[i].command
      OBVIOUS
    <3>2. Passed(c)'
      BY <2>1, <2>2, <3>1
    <3> QED BY <3>1, <3>2 DEF Passed
  <2>4. DOMAIN committing' = {}
    BY <1>1
  <2> QED BY <1>1, <1>2, <2>1, <2>3, <2>4 DEF AggKnown
<1> QED BY <1>1, <1>4, <1>6, <1>7, AggregatorTurns

\* A reservation goes with its request, and is the only one of its sequence.
LEMMA ServeQueryKeepsOwed ==
    ASSUME OwedInv, StuckInv, ServeQuery
    PROVE  OwedInv'
<1>1. /\ query'.kind = "none"
      /\ UNCHANGED <<host, rx, wire, tx, con, committing, done, lost>>
      /\ UNCHANGED <<job, sink, events>>
  BY DEF ServeQuery, hostVars, conVars
<1>2. EngineKnown /\ AggKnown /\ ConKnown
  BY DEF OwedInv
<1>3. \A c : Passed(c) => Passed(c)'
  BY <1>1, PassedKept
<1>4. CASE pending' = pending /\ queue' = queue /\ (reply'.kind = "reserve" => reply'.ok = FALSE)
  <2>1. EngineKnown'
    BY <1>1, <1>2, <1>4 DEF EngineKnown
  <2>2. \A c : Carried(c) => Carried(c)'
    BY <1>1, <1>4 DEF Carried, Ongoing, Completed
  <2>3. AggKnown'
    BY <1>1, <1>2, <1>3, <1>4 DEF AggKnown
  <2>4. query'.kind # "enqueue" /\ (reply'.kind # "reserve" \/ (reply'.ok \in BOOLEAN /\ ~ reply'.ok))
    BY <1>1, <1>4
  <2> QED BY <1>1, <2>1, <2>2, <2>3, <2>4, AggregatorTurns
<1>5. CASE /\ query.kind = "enqueue" /\ Reserved(query.command.seq) = {}
           /\ reply'.ok = TRUE
           /\ pending' = pending \cup {query.command} /\ queue' = Append(queue, query.request)
  <2>1. PICK c : c = con.command
    OBVIOUS
  <2>2. PICK request : request = query.request
    OBVIOUS
  <2>3. con.at = "enqueue" /\ query.command = c /\ request.seq = c.seq
    BY <1>2, <1>5, <2>1, <2>2 DEF StuckInv, Exchange, ConKnown
  <2>4. c \in CommandType /\ Passed(c)
    BY <1>2, <2>1, <2>3 DEF ConKnown, Passed, Holds
  <2>5. pending' = pending \cup {c} /\ \A d \in pending : d.seq # c.seq
    BY <1>5, <2>3 DEF Reserved
  <2>6. PICK q : q = queue'
    OBVIOUS
  <2>7. q = Append(queue, request) /\ IsSequence(queue)
    BY <1>2, <1>5, <2>2, <2>6 DEF EngineKnown
  <2>8. /\ IsSequence(q)
        /\ \A j \in DOMAIN queue : \E i \in DOMAIN q : q[i] = queue[j]
        /\ \E i \in DOMAIN q : q[i] = request
    BY <2>7, AppendOf, AppendElements
  <2>9. /\ HasRequest(q, c.seq) /\ \A seq : HasRequest(queue, seq) => HasRequest(q, seq)
    BY <2>3, <2>8 DEF HasRequest
  <2>10. /\ Ongoing(c.seq)' /\ \A seq : Ongoing(seq) => Ongoing(seq)'
    <3>1. /\ HasRequest(queue, c.seq)' /\ \A seq : HasRequest(queue, seq) => HasRequest(queue, seq)'
      BY <2>6, <2>9 DEF HasRequest
    <3>2. \A seq : /\ HasDone(sink, seq) => HasDone(sink, seq)'
                   /\ HasDone(events, seq) => HasDone(events, seq)'
      BY <1>1 DEF HasDone
    <3> QED BY <1>1, <3>1, <3>2 DEF Ongoing
  <2>11. EngineKnown'
    BY <1>1, <1>2, <2>6, <2>8 DEF EngineKnown
  <2>12. ASSUME NEW d, Carried(d) PROVE Carried(d)'
    <3>1. Completed(done, d) \/ Completed(committing, d) => Completed(done, d)' \/ Completed(committing, d)'
      BY <1>1 DEF Completed, Same
    <3> QED BY <1>1, <2>5, <2>10, <2>12, <3>1 DEF Carried
  <2>13. Carried(con.command)'
    BY <1>1, <2>1, <2>5, <2>10 DEF Carried
  <2>14. AggKnown'
    <3>1. /\ pending' \subseteq CommandType
          /\ \A x \in pending' : Passed(x)' /\ \A d \in pending' : x.seq = d.seq => x = d
      BY <1>2, <1>3, <2>4, <2>5 DEF AggKnown
    <3>2. /\ \A i \in DOMAIN done' : Passed(done[i].command)'
          /\ \A i \in DOMAIN committing' : Passed(committing[i].command)'
      BY <1>1, <1>2, <1>3 DEF AggKnown
    <3> QED BY <3>1, <3>2 DEF AggKnown
  <2>15. reply'.ok \in BOOLEAN /\ query'.kind # "enqueue"
    BY <1>1, <1>5
  <2> QED BY <1>1, <2>11, <2>12, <2>13, <2>14, <2>15, AggregatorTurns
<1>6. \/ pending' = pending /\ queue' = queue /\ (reply'.kind = "reserve" => reply'.ok = FALSE)
      \/ /\ query.kind = "enqueue" /\ Reserved(query.command.seq) = {}
         /\ reply'.ok = TRUE
         /\ pending' = pending \cup {query.command} /\ queue' = Append(queue, query.request)
  <2>1. CASE query.kind \in {"status", "errors"}
    BY <2>1 DEF ServeQuery
  <2>2. CASE query.kind = "enqueue"
    <3>1. PICK sent : /\ sent = (/\ Reserved(query.command.seq) = {} /\ Cardinality(pending) < QueueCapacity
                                /\ Len(queue) < QueueCapacity)
                      /\ reply' = [kind |-> "reserve", ok |-> sent]
                      /\ pending' = IF sent THEN pending \cup {query.command} ELSE pending
                      /\ queue' = IF sent THEN Append(queue, query.request) ELSE queue
      BY <2>2 DEF ServeQuery
    <3>2. reply'.ok = sent /\ sent \in BOOLEAN
      BY <3>1
    <3>3. CASE sent = TRUE
      BY <2>2, <3>1, <3>2, <3>3
    <3>4. CASE sent = FALSE
      BY <3>1, <3>2, <3>4
    <3> QED BY <3>2, <3>3, <3>4
  <2> QED BY <2>1, <2>2 DEF ServeQuery
<1> QED BY <1>4, <1>5, <1>6

\* The display task forgets no request but that of a book it cannot show.
LEMMA DisplayKeepsOwed ==
    ASSUME OwedInv, Display \/ DisplayForgets
    PROVE  OwedInv'
<1>1. UNCHANGED <<host, rx, wire, tx, con, query, reply, pending, committing, done>>
  BY DEF Display, DisplayForgets, hostVars, conVars, aggVars
<1>2. EngineKnown /\ AggKnown
  BY DEF OwedInv
<1>3. /\ EngineKnown' /\ lost \subseteq lost'
      /\ \A seq : Ongoing(seq) => Ongoing(seq)' \/ Reserved(seq) \subseteq lost'
  <2>1. CASE Display
    BY <1>2, <2>1, DisplayKeepsOngoing DEF Display, KeepsOngoing
  <2>2. CASE DisplayForgets
    BY <1>2, <2>2, ForgottenIsLost DEF DisplayForgets
  <2> QED BY <2>1, <2>2
<1>4. ASSUME NEW c, Carried(c) PROVE Carried(c)'
  <2>1. CASE c \in pending /\ Ongoing(c.seq)
    <3>1. c \in Reserved(c.seq)
      BY <2>1 DEF Reserved
    <3> QED BY <1>1, <1>3, <2>1, <3>1 DEF Carried
  <2>2. CASE Completed(done, c) \/ Completed(committing, c)
    BY <1>1, <2>2 DEF Carried, Completed, Same
  <2>3. CASE c \in lost
    BY <1>3, <2>3 DEF Carried
  <2> QED BY <1>4, <2>1, <2>2, <2>3 DEF Carried
<1>5. AggKnown'
  BY <1>1, <1>2, PassedKept DEF AggKnown
<1> QED BY <1>1, <1>3, <1>4, <1>5, AggregatorTurns

LEMMA OwedInvInit == Init => OwedInv
<1> SUFFICES ASSUME Init PROVE OwedInv
  OBVIOUS
<1>1. /\ host = [of |-> 1, next |-> 1, owed |-> {}]
      /\ wire = <<>> /\ rx = <<>> /\ tx = <<>> /\ con = Waiting
      /\ query = [kind |-> "none"] /\ reply = [kind |-> "none"]
      /\ pending = {} /\ committing = <<>> /\ done = <<>>
  BY DEF Init
<1>2. HostKnown(host)
  BY <1>1 DEF HostKnown
<1>3. EngineKnown
  <2>1. queue = <<>> /\ sink = <<>> /\ job = Idle
    BY DEF Init, EngineInit
  <2>2. PICK x : events = <<>> \/ events = <<x>>
    BY DEF Init, EngineInit
  <2>3. PICK n : n = Len(events)
    OBVIOUS
  <2>4. n = 0 \/ n = 1
    BY <2>2, <2>3, SingleIsSequence, EmptyIsSequence
  <2>5. n <= EventCapacity
    BY <2>4, ConstantsAssumption
  <2>6. IsSequence(events)
    BY <2>2, SingleIsSequence, EmptyIsSequence
  <2> QED BY <2>1, <2>5, <2>6, <2>3, EmptyIsSequence DEF EngineKnown, Idle
<1>4. Line = <<>>
  BY <1>1, EmptyIsSequence, EmptyAfter DEF Line
<1>5. ConKnown
  <2>1. DOMAIN Line = {} /\ DOMAIN tx = {}
    BY <1>1, <1>4
  <2>2. ~ Holds /\ con.at # "status"
    BY <1>1 DEF Waiting, Holds
  <2>3. query.kind # "enqueue" /\ reply.kind # "reserve"
    BY <1>1
  <2>4. IsSequence(rx) /\ IsSequence(wire) /\ IsSequence(tx)
    BY <1>1, EmptyIsSequence
  <2> QED BY <2>1, <2>2, <2>3, <2>4 DEF ConKnown, LineInv
<1>6. AggKnown
  <2>1. DOMAIN done = {} /\ DOMAIN committing = {} /\ pending = {}
    BY <1>1
  <2> QED BY <2>1 DEF AggKnown
<1> QED BY <1>1, <1>2, <1>3, <1>5, <1>6 DEF OwedInv

LEMMA OwedInvNext == OwedInv /\ StuckInv /\ [Next]_vars => OwedInv'
<1> SUFFICES ASSUME OwedInv, StuckInv, [Next]_vars PROVE OwedInv'
  OBVIOUS
<1>1. CASE Display \/ DisplayForgets
  BY <1>1, DisplayKeepsOwed
<1>2. CASE ConsoleTask
  BY <1>2, GatherKeepsOwed, DecodeKeepsOwed, HandleKeepsOwed, EnqueuedKeepsOwed, QuietTurnsKeepOwed
  DEF ConsoleTask
<1>3. CASE Aggregator
  BY <1>3, CommitKeepsOwed, CommitSendsKeepsOwed, ServeQueryKeepsOwed DEF Aggregator
<1>4. CASE SendKey
  <2>1. PICK key \in Keys : Send(key, host.of, host.next)
    BY <1>4 DEF SendKey
  <2>2. key \in Kinds
    BY DEF Kinds
  <2> QED BY <2>1, <2>2, SendKeepsOwed
<1>5. CASE SendCommand
  <2>1. PICK kind \in Commands : Send(kind, host.of, host.next)
    BY <1>5 DEF SendCommand
  <2>2. kind \in Kinds /\ host.owed = {}
    BY <1>5 DEF Kinds, SendCommand
  <2> QED BY <2>1, <2>2, SendKeepsOwed
<1>6. CASE NewInvocation \/ HostReads
  BY <1>6, NewInvocationKeepsOwed, HostReadsKeepsOwed
<1>7. CASE UNCHANGED vars
  <2>1. /\ UNCHANGED <<host, rx, wire, tx, con, query, reply, pending, committing, done, lost>>
        /\ UNCHANGED <<queue, job, sink, events>>
    BY <1>7 DEF vars, hostVars, conVars, aggVars, engineVars
  <2>2. EngineKnown' /\ \A c : Carried(c) => Carried(c)'
    BY <2>1, CarriedElsewhere DEF Elsewhere, OwedInv
  <2>3. AggKnown'
    BY <2>1, PassedKept DEF AggKnown, OwedInv
  <2> QED BY <2>1, <2>2, <2>3, AggregatorTurns
<1> QED BY <1>1, <1>2, <1>3, <1>4, <1>5, <1>6, <1>7 DEF Next, Host

LEMMA OwedInvSuffices == OwedInv => AnswerOwed
<1> SUFFICES ASSUME OwedInv, NEW request \in host.owed
             PROVE  \/ In(request, wire) \/ In(request, rx) \/ In(request, tx)
                    \/ con.at \in {"announce", "enqueue"} /\ Same(con.command, request)
                    \/ request \in pending /\ Underway(request)
                    \/ \E completion \in {done[i] : i \in DOMAIN done}
                                           \cup {committing[i] : i \in DOMAIN committing} :
                           Same(completion.command, request)
                    \/ request \in lost
  BY DEF AnswerOwed
<1>1. Where(request)
  BY DEF OwedInv
<1>2. In(request, Line) => In(request, rx) \/ In(request, wire)
  <2>1. IsSequence(rx) /\ IsSequence(wire)
    BY DEF OwedInv, ConKnown
  <2>2. PICK s : s = Line
    OBVIOUS
  <2>3. Joins(s, rx, wire)
    BY <2>1, <2>2, ConcatOf DEF Line
  <2> QED BY <2>2, <2>3 DEF Joins, In
<1>3. Ongoing(request.seq) => Underway(request)
  BY DEF Ongoing, Underway, HasRequest, HasDone
<1>4. Completed(done, request) \/ Completed(committing, request) =>
         \E completion \in {done[i] : i \in DOMAIN done}
                             \cup {committing[i] : i \in DOMAIN committing} :
             Same(completion.command, request)
  BY DEF Completed
<1> QED BY <1>1, <1>2, <1>3, <1>4 DEF Where, Holds, Carried

\* Every request that the host still waits for is on its way, whatever older invocations
\* left behind, for every number of requests and invocations and every capacity: on
\* the wire, in the console, reserved with its request in the display task, completed or
\* answered.  The one exception is a book that could not be shown
\* (runtime_aggregator.rs, reserve_and_enqueue and commit; diagnostic_console.rs).
THEOREM AnswersAlwaysOwed == Spec => []AnswerOwed
<1>1. Init => StuckInv /\ OwedInv
  BY StuckInvInit, OwedInvInit
<1>2. (StuckInv /\ OwedInv) /\ [Next]_vars => (StuckInv /\ OwedInv)'
  BY StuckInvNext, OwedInvNext
<1>3. StuckInv /\ OwedInv => AnswerOwed
  BY OwedInvSuffices
<1> QED
  BY <1>1, <1>2, <1>3, PTL DEF Spec

(***************************************************************************)
(* What the panel shows, and what the events will tell.                    *)
(***************************************************************************)
\* The panel shows the page or the menu, alone, unless something was drawn over it.
PictureInv ==
    /\ "page" \in DOMAIN engine
    /\ mode \in {"menu", "reading"} /\ (book => mode = "reading")
    /\ mode = "reading" /\ ~stray => glass \in {PagePicture(engine.page), Gray(engine.page)}
    /\ mode = "menu" /\ ~stray => glass.kind \in {"menu", "notice"}

\* The events that set the page of the snapshot, and its page count.
PageKinds == {"page", "done", "open", "menu"}
CountKinds == {"open", "menu"}

LastIn(s, kinds, i) ==
    /\ i \in DOMAIN s /\ s[i].kind \in kinds
    /\ \A j \in DOMAIN s : i < j => s[j].kind \notin kinds
NoneIn(s, kinds) == \A i \in DOMAIN s : s[i].kind \notin kinds

\* The events of s leave the snapshot with a page, or with an open book.
Tells(s, page) ==
    \E i \in DOMAIN s : LastIn(s, PageKinds, i) /\ s[i].kind # "menu" /\ s[i].page = page
Opens(s) == \E i \in DOMAIN s : LastIn(s, CountKinds, i) /\ s[i].kind = "open"

\* What the snapshot will have when the events of the channel and the sink are taken.
PageTold(page) ==
    \/ Tells(sink, page)
    \/ NoneIn(sink, PageKinds) /\ Tells(events, page)
    \/ NoneIn(sink, PageKinds) /\ NoneIn(events, PageKinds) /\ snapshot.page = page
CountTold ==
    \/ Opens(sink)
    \/ NoneIn(sink, CountKinds) /\ Opens(events)
    \/ NoneIn(sink, CountKinds) /\ NoneIn(events, CountKinds) /\ snapshot.count = PageCount

ToldInv ==
    /\ {"page", "count"} \subseteq DOMAIN snapshot
    /\ book => PageTold(engine.page) /\ CountTold

(***************************************************************************)
(* The panel.                                                              *)
(***************************************************************************)
\* A recovery draws the page it is for, or the panel has failed.
LEMMA RecoverKeepsPicture ==
    ASSUME PictureInv, NEW s, NEW page, Recover(s, page), UNCHANGED <<mode, book>>
    PROVE  PictureInv'
<1>1. CASE /\ book /\ glass' = PagePicture(page) /\ stray' = FALSE
           /\ engine' = [engine EXCEPT !.page = page, !.phase = "ready", !.recovered = TRUE]
  <2>1. engine'.page = page /\ "page" \in DOMAIN engine'
    BY <1>1 DEF PictureInv
  <2> QED BY <1>1, <2>1 DEF PictureInv
<1>2. CASE stray' = TRUE /\ engine' = [engine EXCEPT !.phase = "fault", !.recovered = TRUE]
  BY <1>2 DEF PictureInv
<1>3. Recover(s, page) => \/ /\ book /\ glass' = PagePicture(page) /\ stray' = FALSE
                             /\ engine' = [engine EXCEPT !.page = page, !.phase = "ready", !.recovered = TRUE]
                          \/ stray' = TRUE /\ engine' = [engine EXCEPT !.phase = "fault", !.recovered = TRUE]
  BY DEF Recover, Seeded
<1> QED BY <1>1, <1>2, <1>3

\* A step that only ends the waits of the engine leaves the picture.
LEMMA PictureStays ==
    ASSUME PictureInv, UNCHANGED <<mode, book, glass, stray>>,
           "page" \in DOMAIN engine', engine'.page = engine.page
    PROVE  PictureInv'
BY DEF PictureInv

LEMMA DifferentialShows ==
    ASSUME NEW to
    PROVE  /\ glass.kind \in {"menu", "notice"} => Differential(MenuPicture, to) = to
           /\ \A page : glass \in {PagePicture(page), Gray(page)} =>
                           Differential(PagePicture(page), to) = to
<1>1. MenuPicture.kind # "page"
  BY DEF MenuPicture, Screen, Picture
<1>2. \A page : PagePicture(page).kind = "page" /\ PagePicture(page).page = page
  BY DEF PagePicture, Picture
<1> QED BY <1>1, <1>2 DEF Differential, Shows

LEMMA ScreenKinds == /\ \A kind : Screen(kind).kind = kind
                     /\ MenuPicture.kind = "menu"
                     /\ \A kind : \A picture \in Redrawn(kind) : picture.kind \in {kind, "lost"}
BY DEF Screen, Picture, MenuPicture, Redrawn

\* What is drawn in the mode of the menu is the menu, or is lost.
LEMMA MenuDrawn ==
    ASSUME PictureInv, UNCHANGED <<mode, book, engine>>,
           glass'.kind \in {"menu", "notice", "lost"}, stray' = Covers(mode)
    PROVE  PictureInv'
BY DEF PictureInv, Covers

LEMMA DisplayKeepsPicture ==
    ASSUME PictureInv, EngineNext
    PROVE  PictureInv'
<1>1. CASE Flush \/ CancelOverlay \/ FinishBase
  BY <1>1, PictureStays DEF Flush, CancelOverlay, FinishBase, PictureInv
<1>2. CASE ServeAtOnce
  <2>1. UNCHANGED <<mode, book, glass, stray>> /\ "page" \in DOMAIN engine' /\ engine'.page = engine.page
    BY <1>2 DEF ServeAtOnce, Interrupted, PictureInv
  <2> QED BY <2>1, PictureStays
<1>3. CASE Start
  <2>1. UNCHANGED <<mode, book, glass, stray>> /\ "page" \in DOMAIN engine' /\ engine'.page = engine.page
    BY <1>3 DEF Start, Interrupted, PictureInv
  <2> QED BY <2>1, PictureStays
<1>4. CASE FinishTurn
  <2>1. PICK page : page = TargetOf(job.request)
    OBVIOUS
  <2>2. UNCHANGED <<mode, book>>
    BY <1>4 DEF FinishTurn
  <2>3. CASE Recover(<<job.request.seq>>, page)
    BY <2>2, <2>3, RecoverKeepsPicture
  <2>4. CASE /\ book /\ stray' = stray
             /\ glass' = Differential(PagePicture(engine.page), PagePicture(page))
             /\ "page" \in DOMAIN engine' /\ engine'.page = page
    BY <2>2, <2>4, DifferentialShows DEF PictureInv
  <2> QED BY <1>4, <2>1, <2>3, <2>4 DEF FinishTurn, PictureInv
<1>5. CASE FinishProbe
  <2>1. UNCHANGED <<mode, book>>
    BY <1>5 DEF FinishProbe
  <2>2. CASE stray' = TRUE /\ "page" \in DOMAIN engine'
    BY <2>1, <2>2 DEF PictureInv
  <2>3. CASE book /\ glass' = Gray(engine.page) /\ engine' = engine
    BY <2>1, <2>3 DEF PictureInv
  <2> QED BY <1>5, <2>2, <2>3 DEF FinishProbe, Probed, Serving, PictureInv
<1>6. CASE StartCleanup \/ StartOverlay
  <2>1. UNCHANGED <<mode, book, glass, stray>> /\ "page" \in DOMAIN engine' /\ engine'.page = engine.page
    BY <1>6 DEF StartCleanup, StartOverlay, PictureInv
  <2> QED BY <2>1, PictureStays
<1>7. CASE FinishCleanup
  <2>1. UNCHANGED <<mode, book>>
    BY <1>7 DEF FinishCleanup
  <2>2. \/ Recover(<<job.seq>>, engine.page)
        \/ UNCHANGED <<glass, stray>> /\ "page" \in DOMAIN engine' /\ engine'.page = engine.page
    BY <1>7 DEF FinishCleanup, PictureInv
  <2> QED BY <2>1, <2>2, RecoverKeepsPicture, PictureStays
<1>8. CASE ActivateOverlay
  <2>1. UNCHANGED <<mode, book, stray, engine>>
    BY <1>8 DEF ActivateOverlay
  <2>2. (glass' = Gray(engine.page) /\ glass.kind = "page") \/ glass' = glass
    BY <1>8 DEF ActivateOverlay
  <2> QED BY <2>1, <2>2 DEF PictureInv
<1>9. CASE OverlayFails
  BY <1>9, RecoverKeepsPicture DEF OverlayFails
<1>10. CASE FinishMenu
  <2>1. UNCHANGED <<mode, book, engine>>
    BY <1>10 DEF FinishMenu
  <2>2. CASE /\ glass' = Differential(MenuPicture, MenuPicture)
             /\ stray' = (stray \/ mode = "reading")
    BY <2>1, <2>2, DifferentialShows, ScreenKinds DEF PictureInv
  <2>3. CASE glass' \in Redrawn("menu") /\ stray' = Covers(mode)
    BY <2>1, <2>3, MenuDrawn, ScreenKinds
  <2> QED BY <1>10, <2>2, <2>3 DEF FinishMenu
<1>11. CASE FinishBack
  <2>1. book' = FALSE /\ mode' = "menu" /\ engine' = engine
    BY <1>11 DEF FinishBack
  <2>2. CASE /\ book /\ stray' = stray
             /\ glass' = Differential(PagePicture(engine.page), MenuPicture)
    BY <2>1, <2>2, DifferentialShows, ScreenKinds DEF PictureInv
  <2>3. CASE glass' = MenuPicture
    BY <2>1, <2>3, ScreenKinds DEF PictureInv
  <2>4. CASE glass' \in Redrawn("menu") \cup Redrawn("notice") /\ stray' = Covers("menu")
    <3>1. glass'.kind \in {"menu", "notice", "lost"}
      BY <2>4, ScreenKinds
    <3> QED BY <2>1, <2>4, <3>1 DEF PictureInv, Covers
  <2> QED BY <1>11, <2>2, <2>3, <2>4 DEF FinishBack
<1>12. CASE FinishSelect
  <2>1. /\ book' = TRUE /\ mode' = "reading"
        /\ engine'.page = progress /\ "page" \in DOMAIN engine'
    BY <1>12 DEF FinishSelect, NewEngine
  <2>2. CASE /\ glass' = Differential(MenuPicture, PagePicture(progress))
             /\ stray' = (stray \/ mode = "reading")
    BY <2>1, <2>2, DifferentialShows DEF PictureInv
  <2>3. CASE glass' = PagePicture(progress)
    BY <2>1, <2>3 DEF PictureInv
  <2> QED BY <1>12, <2>2, <2>3 DEF FinishSelect
<1>13. CASE SelectRefused
  <2>1. UNCHANGED <<mode, book, engine>> /\ glass' \in Redrawn("menu") /\ stray' = Covers(mode)
    BY <1>13 DEF SelectRefused
  <2> QED BY <2>1, MenuDrawn, ScreenKinds
<1>14. CASE PowerRefresh
  <2>1. UNCHANGED <<mode, book, engine>>
    BY <1>14 DEF PowerRefresh
  <2>2. \/ UNCHANGED <<glass, stray>>
        \/ stray' = Covers(mode) /\ glass' \in {MenuPicture, Screen("lost")}
    BY <1>14 DEF PowerRefresh
  <2>3. CASE UNCHANGED <<glass, stray>>
    BY <2>1, <2>3 DEF PictureInv
  <2>4. CASE stray' = Covers(mode) /\ glass' \in {MenuPicture, Screen("lost")}
    <3>1. glass'.kind \in {"menu", "lost"}
      BY <2>4, ScreenKinds
    <3> QED BY <2>1, <2>4, <3>1, MenuDrawn
  <2> QED BY <2>2, <2>3, <2>4
<1>15. CASE SleepRefused
  <2>1. UNCHANGED <<mode, book, engine>> /\ glass' \in Redrawn("notice") /\ stray' = Covers(mode)
    BY <1>15 DEF SleepRefused
  <2> QED BY <2>1, MenuDrawn, ScreenKinds
<1> QED
  BY <1>1, <1>2, <1>3, <1>4, <1>5, <1>6, <1>7, <1>8, <1>9, <1>10, <1>11, <1>12, <1>13, <1>14, <1>15
  DEF EngineNext

LEMMA PictureInvInit == Init => PictureInv
<1> SUFFICES ASSUME Init PROVE PictureInv
  OBVIOUS
<1>1. \/ /\ mode = "menu" /\ book = FALSE /\ engine = NewEngine(0, "ready") /\ glass = MenuPicture
      \/ /\ mode = "reading" /\ book = TRUE
         /\ engine = NewEngine(progress, "gray") /\ glass = PagePicture(progress)
  BY DEF Init, EngineInit
<1>2. \A page, phase : NewEngine(page, phase).page = page /\ "page" \in DOMAIN NewEngine(page, phase)
  BY DEF NewEngine
<1> QED BY <1>1, <1>2, ScreenKinds DEF PictureInv

LEMMA PictureInvNext == PictureInv /\ [Next]_vars => PictureInv'
<1> SUFFICES ASSUME PictureInv, [Next]_vars PROVE PictureInv'
  OBVIOUS
<1>1. CASE Display
  BY <1>1, DisplayKeepsPicture DEF Display
<1>2. CASE DisplayForgets
  <2>1. stray' = TRUE /\ book' = FALSE /\ mode' = mode /\ "page" \in DOMAIN engine'
    BY <1>2 DEF DisplayForgets, SelectLost, NewEngine
  <2> QED BY <2>1 DEF PictureInv
<1>3. CASE UNCHANGED <<mode, book, engine, glass, stray>>
  BY <1>3 DEF PictureInv
<1>4. ConsoleTask => UNCHANGED <<mode, book, engine, glass, stray>>
  BY DEF ConsoleTask, Gather, Decode, Handle, Enqueued, Written, PublishErrors, engineVars
<1>5. Aggregator => UNCHANGED <<mode, book, engine, glass, stray>>
  BY DEF Aggregator, Commit, CommitSends, ServeQuery, engineVars
<1>6. Host => UNCHANGED <<mode, book, engine, glass, stray>>
  BY DEF Host, SendKey, SendCommand, Send, NewInvocation, HostReads, engineVars
<1>7. UNCHANGED vars => UNCHANGED <<mode, book, engine, glass, stray>>
  BY DEF vars, engineVars
<1> QED BY <1>1, <1>2, <1>3, <1>4, <1>5, <1>6, <1>7 DEF Next

(***************************************************************************)
(* What the events tell, one sequence after the other.                     *)
(***************************************************************************)
\* The sequence u is s, then t.
Joined(u, s, t) ==
    \E n, m \in Nat :
        /\ DOMAIN s = 1 .. n /\ DOMAIN t = 1 .. m /\ DOMAIN u = 1 .. n + m
        /\ \A i \in 1 .. n : u[i] = s[i]
        /\ \A i \in 1 .. m : u[n + i] = t[i]

LEMMA ConcatIsJoined ==
    ASSUME NEW s, NEW t, IsSequence(s), IsSequence(t)
    PROVE  Joined(s \o t, s, t)
<1>1. PICK n \in Nat, m \in Nat : n = Len(s) /\ m = Len(t)
  BY Elements
<1>2. PICK u : u = s \o t
  OBVIOUS
<1>3. /\ DOMAIN s = 1 .. n /\ DOMAIN t = 1 .. m /\ DOMAIN u = 1 .. n + m
      /\ \A i \in 1 .. n + m : u[i] = IF i <= n THEN s[i] ELSE t[i - n]
  BY <1>1, <1>2, Elements, ConcatElements
<1>4. ASSUME NEW i \in 1 .. n PROVE u[i] = s[i]
  <2>1. i \in 1 .. n + m /\ i <= n
    OBVIOUS
  <2> QED BY <1>3, <2>1
<1>5. ASSUME NEW i \in 1 .. m PROVE u[n + i] = t[i]
  <2>1. n + i \in 1 .. n + m /\ ~ (n + i <= n) /\ (n + i) - n = i
    OBVIOUS
  <2>2. u[n + i] = t[(n + i) - n]
    BY <1>3, <2>1
  <2> QED BY <2>1, <2>2
<1>6. Joined(u, s, t)
  BY <1>3, <1>4, <1>5 DEF Joined
<1> QED BY <1>2, <1>6

LEMMA JoinedTells ==
    ASSUME NEW u, NEW s, NEW t, Joined(u, s, t)
    PROVE  /\ \A kinds : NoneIn(u, kinds) <=> NoneIn(s, kinds) /\ NoneIn(t, kinds)
           /\ \A page : Tells(u, page) <=> Tells(t, page) \/ (NoneIn(t, PageKinds) /\ Tells(s, page))
           /\ Opens(u) <=> Opens(t) \/ (NoneIn(t, CountKinds) /\ Opens(s))
<1>1. PICK n \in Nat, m \in Nat :
         /\ DOMAIN s = 1 .. n /\ DOMAIN t = 1 .. m /\ DOMAIN u = 1 .. n + m
         /\ \A i \in 1 .. n : u[i] = s[i]
         /\ \A i \in 1 .. m : u[n + i] = t[i]
  BY DEF Joined
<1>2. /\ \A i \in 1 .. n : i \in 1 .. n + m
      /\ \A i \in 1 .. m : n + i \in 1 .. n + m
      /\ \A i \in 1 .. n : \A j \in 1 .. m : i < n + j
      /\ \A i, j \in 1 .. m : i < j <=> n + i < n + j
  OBVIOUS
<1>3. \A k \in 1 .. n + m : k \in 1 .. n \/ \E i \in 1 .. m : k = n + i
  <2>1. ASSUME NEW k \in 1 .. n + m PROVE k \in 1 .. n \/ (k - n \in 1 .. m /\ k = n + (k - n))
    OBVIOUS
  <2> QED BY <2>1
<1>4. ASSUME NEW kinds PROVE NoneIn(u, kinds) <=> NoneIn(s, kinds) /\ NoneIn(t, kinds)
  <2>1. NoneIn(u, kinds) => NoneIn(s, kinds) /\ NoneIn(t, kinds)
    BY <1>1, <1>2 DEF NoneIn
  <2>2. ASSUME NoneIn(s, kinds), NoneIn(t, kinds), NEW k \in 1 .. n + m PROVE u[k].kind \notin kinds
    <3>1. CASE k \in 1 .. n
      BY <1>1, <2>2, <3>1 DEF NoneIn
    <3>2. CASE \E i \in 1 .. m : k = n + i
      BY <1>1, <2>2, <3>2 DEF NoneIn
    <3> QED BY <1>3, <3>1, <3>2
  <2> QED BY <1>1, <2>1, <2>2 DEF NoneIn
<1>5. ASSUME NEW kinds, NEW i \in 1 .. m PROVE LastIn(t, kinds, i) <=> LastIn(u, kinds, n + i)
  <2>1. ASSUME LastIn(t, kinds, i), NEW k \in 1 .. n + m, n + i < k PROVE u[k].kind \notin kinds
    <3>1. k \notin 1 .. n
      BY <1>2, <2>1
    <3>2. PICK j \in 1 .. m : k = n + j
      BY <1>3, <3>1
    <3>3. i < j
      BY <1>2, <2>1, <3>2
    <3> QED BY <1>1, <2>1, <3>2, <3>3 DEF LastIn
  <2>2. ASSUME LastIn(u, kinds, n + i), NEW j \in 1 .. m, i < j PROVE t[j].kind \notin kinds
    <3>1. n + j \in 1 .. n + m /\ n + i < n + j /\ u[n + j] = t[j]
      BY <1>1, <1>2, <2>2
    <3> QED BY <1>1, <2>2, <3>1 DEF LastIn
  <2>3. u[n + i] = t[i] /\ n + i \in DOMAIN u /\ i \in DOMAIN t
    BY <1>1, <1>2
  <2>4. LastIn(t, kinds, i) => LastIn(u, kinds, n + i)
    BY <1>1, <2>1, <2>3 DEF LastIn
  <2>5. LastIn(u, kinds, n + i) => LastIn(t, kinds, i)
    BY <1>1, <2>2, <2>3 DEF LastIn
  <2> QED BY <2>4, <2>5
<1>6. ASSUME NEW kinds, NEW i \in 1 .. n
      PROVE  LastIn(u, kinds, i) <=> LastIn(s, kinds, i) /\ NoneIn(t, kinds)
  <2>1. u[i] = s[i] /\ i \in DOMAIN u /\ i \in DOMAIN s
    BY <1>1, <1>2
  <2>2. ASSUME LastIn(u, kinds, i) PROVE LastIn(s, kinds, i) /\ NoneIn(t, kinds)
    <3>1. ASSUME NEW j \in 1 .. n, i < j PROVE s[j].kind \notin kinds
      BY <1>1, <1>2, <2>2, <3>1 DEF LastIn
    <3>2. ASSUME NEW j \in 1 .. m PROVE t[j].kind \notin kinds
      <4>1. n + j \in DOMAIN u /\ i < n + j /\ u[n + j] = t[j]
        BY <1>1, <1>2
      <4> QED BY <2>2, <4>1 DEF LastIn
    <3> QED BY <1>1, <2>1, <2>2, <3>1, <3>2 DEF LastIn, NoneIn
  <2>3. ASSUME LastIn(s, kinds, i), NoneIn(t, kinds) PROVE LastIn(u, kinds, i)
    <3>1. ASSUME NEW k \in 1 .. n + m, i < k PROVE u[k].kind \notin kinds
      <4>1. CASE k \in 1 .. n
        BY <1>1, <2>3, <3>1, <4>1 DEF LastIn
      <4>2. CASE \E j \in 1 .. m : k = n + j
        BY <1>1, <2>3, <4>2 DEF NoneIn
      <4> QED BY <1>3, <4>1, <4>2
    <3> QED BY <1>1, <2>1, <2>3, <3>1 DEF LastIn
  <2> QED BY <2>2, <2>3
<1>7. ASSUME NEW page
      PROVE  Tells(u, page) <=> Tells(t, page) \/ (NoneIn(t, PageKinds) /\ Tells(s, page))
  <2>1. Tells(t, page) => Tells(u, page)
    BY <1>1, <1>2, <1>5 DEF Tells
  <2>2. NoneIn(t, PageKinds) /\ Tells(s, page) => Tells(u, page)
    BY <1>1, <1>2, <1>6 DEF Tells
  <2>3. ASSUME Tells(u, page) PROVE Tells(t, page) \/ (NoneIn(t, PageKinds) /\ Tells(s, page))
    <3>1. PICK k \in 1 .. n + m : LastIn(u, PageKinds, k) /\ u[k].kind # "menu" /\ u[k].page = page
      BY <1>1, <2>3 DEF Tells
    <3>2. CASE k \in 1 .. n
      BY <1>1, <1>6, <3>1, <3>2 DEF Tells
    <3>3. CASE \E i \in 1 .. m : k = n + i
      <4>1. PICK i \in 1 .. m : k = n + i
        BY <3>3
      <4>2. LastIn(t, PageKinds, i) /\ u[k] = t[i] /\ i \in DOMAIN t
        BY <1>1, <1>5, <3>1, <4>1
      <4> QED BY <3>1, <4>2 DEF Tells
    <3> QED BY <1>3, <3>2, <3>3
  <2> QED BY <2>1, <2>2, <2>3
<1>8. Opens(u) <=> Opens(t) \/ (NoneIn(t, CountKinds) /\ Opens(s))
  <2>1. Opens(t) => Opens(u)
    BY <1>1, <1>2, <1>5 DEF Opens
  <2>2. NoneIn(t, CountKinds) /\ Opens(s) => Opens(u)
    BY <1>1, <1>2, <1>6 DEF Opens
  <2>3. ASSUME Opens(u) PROVE Opens(t) \/ (NoneIn(t, CountKinds) /\ Opens(s))
    <3>1. PICK k \in 1 .. n + m : LastIn(u, CountKinds, k) /\ u[k].kind = "open"
      BY <1>1, <2>3 DEF Opens
    <3>2. CASE k \in 1 .. n
      BY <1>1, <1>6, <3>1, <3>2 DEF Opens
    <3>3. CASE \E i \in 1 .. m : k = n + i
      <4>1. PICK i \in 1 .. m : k = n + i
        BY <3>3
      <4>2. LastIn(t, CountKinds, i) /\ u[k] = t[i] /\ i \in DOMAIN t
        BY <1>1, <1>5, <3>1, <4>1
      <4> QED BY <3>1, <4>2 DEF Opens
    <3> QED BY <1>3, <3>2, <3>3
  <2> QED BY <2>1, <2>2, <2>3
<1> QED BY <1>4, <1>7, <1>8

LEMMA NothingTells ==
    /\ IsSequence(<<>>) /\ \A kinds : NoneIn(<<>>, kinds)
    /\ \A page : ~ Tells(<<>>, page)
    /\ ~ Opens(<<>>)
<1>1. DOMAIN <<>> = {}
  OBVIOUS
<1> QED BY <1>1, EmptyIsSequence DEF NoneIn, Tells, Opens

LEMMA OneTells ==
    ASSUME NEW x
    PROVE  \E s : /\ s = <<x>> /\ IsSequence(s)
                  /\ \A kinds : NoneIn(s, kinds) <=> x.kind \notin kinds
                  /\ \A page : Tells(s, page) <=> x.kind \in {"page", "done", "open"} /\ x.page = page
                  /\ Opens(s) <=> x.kind = "open"
<1>1. PICK s : s = <<x>>
  OBVIOUS
<1>2. IsSequence(s) /\ DOMAIN s = {1} /\ s[1] = x
  BY <1>1, SingleIsSequence
<1>3. \A kinds : LastIn(s, kinds, 1) <=> x.kind \in kinds
  BY <1>2 DEF LastIn
<1>4. \A kinds : NoneIn(s, kinds) <=> x.kind \notin kinds
  BY <1>2 DEF NoneIn
<1>5. \A page : Tells(s, page) <=> x.kind \in {"page", "done", "open"} /\ x.page = page
  BY <1>2, <1>3 DEF Tells, PageKinds
<1>6. Opens(s) <=> x.kind = "open"
  BY <1>2, <1>3 DEF Opens, CountKinds
<1> QED BY <1>1, <1>2, <1>4, <1>5, <1>6

LEMMA PairTells ==
    ASSUME NEW x, NEW y
    PROVE  \E s : /\ s = <<x, y>> /\ IsSequence(s)
                  /\ \A kinds : NoneIn(s, kinds) <=> x.kind \notin kinds /\ y.kind \notin kinds
                  /\ \A page : y.kind \in {"page", "done", "open"} /\ y.page = page => Tells(s, page)
                  /\ x.kind = "open" /\ y.kind = "done" => Opens(s)
<1>1. PICK a : /\ a = <<x>> /\ IsSequence(a)
               /\ \A kinds : NoneIn(a, kinds) <=> x.kind \notin kinds
               /\ Opens(a) <=> x.kind = "open"
  BY OneTells
<1>2. PICK b : /\ b = <<y>> /\ IsSequence(b)
               /\ \A kinds : NoneIn(b, kinds) <=> y.kind \notin kinds
               /\ \A page : Tells(b, page) <=> y.kind \in {"page", "done", "open"} /\ y.page = page
  BY OneTells
<1>3. PICK s : s = a \o b
  OBVIOUS
<1>4. s = <<x, y>>
  BY <1>1, <1>2, <1>3, PairOfSingles
<1>5. IsSequence(s) /\ Joined(s, a, b)
  BY <1>1, <1>2, <1>3, ConcatIsJoined, ConcatElements
<1>6. /\ \A kinds : NoneIn(s, kinds) <=> NoneIn(a, kinds) /\ NoneIn(b, kinds)
      /\ \A page : Tells(b, page) => Tells(s, page)
      /\ NoneIn(b, CountKinds) /\ Opens(a) => Opens(s)
  BY <1>5, JoinedTells
<1>7. y.kind = "done" => NoneIn(b, CountKinds)
  BY <1>2 DEF CountKinds
<1> QED BY <1>1, <1>2, <1>4, <1>5, <1>6, <1>7

LEMMA CutIsJoined ==
    ASSUME NEW s, IsSequence(s), NEW n \in 0 .. Len(s)
    PROVE  Joined(s, SubSeq(s, 1, n), SubSeq(s, n + 1, Len(s)))
<1>1. PICK len \in Nat : len = Len(s)
  BY Elements
<1>2. PICK a : a = SubSeq(s, 1, n)
  OBVIOUS
<1>3. PICK b : b = SubSeq(s, n + 1, len)
  OBVIOUS
<1>4. n \in 0 .. len
  BY <1>1
<1>5. /\ IsSequence(a) /\ Len(a) = n /\ \A i \in 1 .. n : a[i] = s[i]
      /\ IsSequence(b) /\ Len(b) = len - n /\ \A i \in 1 .. len - n : b[i] = s[n + i]
  BY <1>1, <1>2, <1>3, CutElements
<1>6. PICK m \in Nat : m = len - n /\ n + m = len
  BY <1>4
<1>7. DOMAIN s = 1 .. n + m /\ DOMAIN a = 1 .. n /\ DOMAIN b = 1 .. m
  BY <1>1, <1>5, <1>6, Elements
<1>8. n \in Nat /\ \A i \in 1 .. n : s[i] = a[i]
  BY <1>4, <1>5
<1>9. \A i \in 1 .. m : s[n + i] = b[i]
  BY <1>5, <1>6
<1>10. Joined(s, a, b)
  BY <1>7, <1>8, <1>9 DEF Joined
<1> QED BY <1>1, <1>2, <1>3, <1>10

\* What is pushed is told after what waited.
LEMMA PublishTells ==
    ASSUME EngineKnown, NEW pushed, IsSequence(pushed), Publish(pushed), snapshot' = snapshot
    PROVE  /\ \A page : Tells(pushed, page) \/ (NoneIn(pushed, PageKinds) /\ PageTold(page)) => PageTold(page)'
           /\ Opens(pushed) \/ (NoneIn(pushed, CountKinds) /\ CountTold) => CountTold'
<1>1. PICK u : u = sink \o pushed
  OBVIOUS
<1>2. IsSequence(u) /\ Joined(u, sink, pushed)
  BY <1>1, ConcatElements, ConcatIsJoined DEF EngineKnown
<1>3. PICK len \in Nat : len = Len(u)
  BY <1>2, Elements
<1>4. PICK m \in Nat : m = Len(events) /\ m <= EventCapacity
  BY Elements DEF EngineKnown
<1>5. PICK n : n = Fitting(u)
  OBVIOUS
<1>6. n \in 0 .. len
  BY <1>3, <1>4, <1>5, ConstantsAssumption DEF Fitting
<1>7. PICK a : a = SubSeq(u, 1, n)
  OBVIOUS
<1>8. PICK b : b = SubSeq(u, n + 1, len)
  OBVIOUS
<1>9. Joined(u, a, b) /\ IsSequence(a)
  BY <1>2, <1>3, <1>6, <1>7, <1>8, CutIsJoined, CutElements
<1>10. events' = events \o a /\ sink' = b
  BY <1>1, <1>3, <1>5, <1>7, <1>8 DEF Publish, Push
<1>11. PICK e : e = events'
  OBVIOUS
<1>12. Joined(e, events, a)
  BY <1>9, <1>10, <1>11, ConcatIsJoined DEF EngineKnown
<1>13. /\ \A kinds : NoneIn(u, kinds) <=> NoneIn(sink, kinds) /\ NoneIn(pushed, kinds)
       /\ \A page : Tells(u, page) <=> Tells(pushed, page) \/ (NoneIn(pushed, PageKinds) /\ Tells(sink, page))
       /\ Opens(u) <=> Opens(pushed) \/ (NoneIn(pushed, CountKinds) /\ Opens(sink))
  BY <1>2, JoinedTells
<1>14. /\ \A kinds : NoneIn(u, kinds) <=> NoneIn(a, kinds) /\ NoneIn(b, kinds)
       /\ \A page : Tells(u, page) <=> Tells(b, page) \/ (NoneIn(b, PageKinds) /\ Tells(a, page))
       /\ Opens(u) <=> Opens(b) \/ (NoneIn(b, CountKinds) /\ Opens(a))
  BY <1>9, JoinedTells
<1>15. /\ \A kinds : NoneIn(e, kinds) <=> NoneIn(events, kinds) /\ NoneIn(a, kinds)
       /\ \A page : Tells(e, page) <=> Tells(a, page) \/ (NoneIn(a, PageKinds) /\ Tells(events, page))
       /\ Opens(e) <=> Opens(a) \/ (NoneIn(a, CountKinds) /\ Opens(events))
  BY <1>12, JoinedTells
<1>16. ASSUME NEW page, Tells(pushed, page) \/ (NoneIn(pushed, PageKinds) /\ PageTold(page))
       PROVE  PageTold(page)'
  <2>1. \/ Tells(b, page)
        \/ NoneIn(b, PageKinds) /\ Tells(e, page)
        \/ NoneIn(b, PageKinds) /\ NoneIn(e, PageKinds) /\ snapshot.page = page
    <3>1. \/ Tells(u, page)
          \/ NoneIn(u, PageKinds) /\ (Tells(events, page) \/ (NoneIn(events, PageKinds) /\ snapshot.page = page))
      BY <1>13, <1>16 DEF PageTold
    <3> QED BY <1>14, <1>15, <3>1
  <2> QED BY <1>10, <1>11, <2>1 DEF PageTold, Tells, NoneIn, LastIn
<1>17. ASSUME Opens(pushed) \/ (NoneIn(pushed, CountKinds) /\ CountTold) PROVE CountTold'
  <2>1. \/ Opens(b)
        \/ NoneIn(b, CountKinds) /\ Opens(e)
        \/ NoneIn(b, CountKinds) /\ NoneIn(e, CountKinds) /\ snapshot.count = PageCount
    <3>1. \/ Opens(u)
          \/ NoneIn(u, CountKinds) /\ (Opens(events) \/ (NoneIn(events, CountKinds) /\ snapshot.count = PageCount))
      BY <1>13, <1>17 DEF CountTold
    <3> QED BY <1>14, <1>15, <3>1
  <2> QED BY <1>10, <1>11, <2>1 DEF CountTold, Opens, NoneIn, LastIn
<1> QED BY <1>16, <1>17

\* A step that tells nothing and leaves the page.
LEMMA ToldStays ==
    ASSUME ToldInv, UNCHANGED <<sink, events, snapshot>>, book' => book /\ engine'.page = engine.page
    PROVE  ToldInv'
BY DEF ToldInv, PageTold, CountTold, Tells, Opens, NoneIn, LastIn

\* A step that tells the page it leads to.
LEMMA TurnIsTold ==
    ASSUME EngineKnown, ToldInv, snapshot' = snapshot,
           NEW pushed, IsSequence(pushed), Publish(pushed),
           book' => book, NEW page, book' => engine'.page = page,
           NoneIn(pushed, CountKinds),
           Tells(pushed, page) \/ (NoneIn(pushed, PageKinds) /\ page = engine.page)
    PROVE  ToldInv'
<1>1. CASE ~ book'
  BY <1>1 DEF ToldInv
<1>2. CASE book'
  <2>1. PageTold(engine.page) /\ CountTold /\ engine'.page = page
    BY <1>2 DEF ToldInv
  <2>2. PageTold(page)' /\ CountTold'
    BY <2>1, PublishTells
  <2>3. PageTold(engine.page)'
    BY <2>1, <2>2 DEF PageTold, Tells
  <2> QED BY <2>2, <2>3 DEF ToldInv
<1> QED BY <1>1, <1>2

LEMMA EventKinds ==
    /\ \A seq, ok, page : DoneEvent(seq, ok, page).kind = "done" /\ DoneEvent(seq, ok, page).page = page
    /\ \A page : PageEvent(page).kind = "page" /\ PageEvent(page).page = page
    /\ \A page : OpenEvent(page).kind = "open" /\ OpenEvent(page).page = page
    /\ \A fast : FastEvent(fast).kind = "fast"
    /\ MenuEvent.kind = "menu" /\ CommandEvent.kind = "command"
BY DEF DoneEvent, PageEvent, OpenEvent, FastEvent, MenuEvent, CommandEvent

\* One answer at the page, after an event that is not of the menu, or none.
LEMMA AnswerTells ==
    ASSUME NEW seq, NEW ok, NEW page, NEW other, other.kind \in {"page", "fast"},
           NEW pushed, pushed \in {<<DoneEvent(seq, ok, page)>>, <<other, DoneEvent(seq, ok, page)>>}
    PROVE  IsSequence(pushed) /\ NoneIn(pushed, CountKinds) /\ Tells(pushed, page)
<1>1. PICK d : d = DoneEvent(seq, ok, page) /\ d.kind = "done" /\ d.page = page
  BY EventKinds
<1>2. CASE pushed = <<d>>
  <2>1. PICK s : /\ s = <<d>> /\ IsSequence(s)
                 /\ \A kinds : NoneIn(s, kinds) <=> d.kind \notin kinds
                 /\ \A p : Tells(s, p) <=> d.kind \in {"page", "done", "open"} /\ d.page = p
    BY OneTells
  <2> QED BY <1>1, <1>2, <2>1 DEF CountKinds
<1>3. CASE pushed = <<other, d>>
  <2>1. PICK s : /\ s = <<other, d>> /\ IsSequence(s)
                 /\ \A kinds : NoneIn(s, kinds) <=> other.kind \notin kinds /\ d.kind \notin kinds
                 /\ \A p : d.kind \in {"page", "done", "open"} /\ d.page = p => Tells(s, p)
    BY PairTells
  <2> QED BY <1>1, <1>3, <2>1 DEF CountKinds
<1> QED BY <1>1, <1>2, <1>3

\* The answers, at a page, to the sequences of s.
Dones(s, ok, page) == [i \in DOMAIN s |-> DoneEvent(s[i], ok, page)]

LEMMA DonesTell ==
    ASSUME NEW s, s = <<>> \/ \E x : s = <<x>>, NEW ok, NEW page,
           NEW d, d = Dones(s, ok, page)
    PROVE  /\ IsSequence(d) /\ NoneIn(d, CountKinds)
           /\ Tells(d, page) \/ NoneIn(d, PageKinds)
<1>1. d = [i \in DOMAIN s |-> DoneEvent(s[i], ok, page)]
  BY DEF Dones
<1>2. PICK m \in Nat : DOMAIN s = 1 .. m /\ (m = 0 \/ m = 1)
  <2>1. CASE s = <<>>
    BY <2>1, EmptyIsSequence, Elements
  <2>2. CASE \E x : s = <<x>>
    BY <2>2, SingleIsSequence, Elements
  <2> QED BY <2>1, <2>2
<1>3. DOMAIN d = 1 .. m /\ \A i \in 1 .. m : d[i] = DoneEvent(s[i], ok, page)
  BY <1>1, <1>2
<1>4. \A i \in 1 .. m : d[i].kind = "done" /\ d[i].page = page
  BY <1>3, EventKinds
<1>5. IsSequence(d)
  <2> DEFINE R == {DoneEvent(s[i], ok, page) : i \in 1 .. m}
  <2>1. \A i \in 1 .. m : DoneEvent(s[i], ok, page) \in R
    OBVIOUS
  <2> HIDE DEF R
  <2>2. d \in [1 .. m -> R]
    BY <1>1, <1>2, <2>1
  <2>3. d \in Seq(R)
    BY <2>2
  <2> QED BY <2>3, SequenceOfItsOwn
<1>6. NoneIn(d, CountKinds)
  BY <1>3, <1>4 DEF NoneIn, CountKinds
<1>7. CASE m = 0
  <2>1. NoneIn(d, PageKinds)
    BY <1>3, <1>7 DEF NoneIn
  <2> QED BY <1>5, <1>6, <2>1
<1>8. CASE m = 1
  <2>1. 1 \in DOMAIN d /\ \A j \in DOMAIN d : ~ (1 < j)
    BY <1>3, <1>8
  <2>2. LastIn(d, PageKinds, 1) /\ d[1].kind # "menu" /\ d[1].page = page
    BY <1>3, <1>4, <2>1 DEF LastIn, PageKinds
  <2>3. Tells(d, page)
    BY <2>1, <2>2 DEF Tells
  <2> QED BY <1>5, <1>6, <2>3
<1> QED BY <1>2, <1>7, <1>8

\* A recovery tells the page it drew.
LEMMA RecoveryIsTold ==
    ASSUME EngineKnown, ToldInv, "page" \in DOMAIN engine, UNCHANGED <<snapshot, book>>,
           NEW page, NEW s, Recover(s, page), s = <<>> \/ \E x : s = <<x>>
    PROVE  ToldInv'
<1>1. CASE /\ engine' = [engine EXCEPT !.page = page, !.phase = "ready", !.recovered = TRUE]
           /\ Publish((IF page # engine.page THEN <<PageEvent(page)>> ELSE <<>>) \o Dones(s, TRUE, page))
  <2> PICK d : d = Dones(s, TRUE, page)
    OBVIOUS
  <2>1. /\ IsSequence(d) /\ NoneIn(d, CountKinds)
        /\ Tells(d, page) \/ NoneIn(d, PageKinds)
    BY DonesTell
  <2>2. PICK first : first = IF page # engine.page THEN <<PageEvent(page)>> ELSE <<>>
    OBVIOUS
  <2>3. /\ IsSequence(first) /\ NoneIn(first, CountKinds)
        /\ Tells(first, page) \/ (NoneIn(first, PageKinds) /\ page = engine.page)
    <3>1. CASE page # engine.page
      <4>1. PICK e : e = PageEvent(page) /\ e.kind = "page" /\ e.page = page
        BY EventKinds
      <4>2. PICK o : /\ o = <<e>> /\ IsSequence(o)
                     /\ \A kinds : NoneIn(o, kinds) <=> e.kind \notin kinds
                     /\ \A p : Tells(o, p) <=> e.kind \in {"page", "done", "open"} /\ e.page = p
        BY OneTells
      <4> QED BY <2>2, <3>1, <4>1, <4>2 DEF CountKinds
    <3>2. CASE page = engine.page
      BY <2>2, <3>2, NothingTells
    <3> QED BY <3>1, <3>2
  <2>4. PICK pushed : pushed = first \o d
    OBVIOUS
  <2>5. IsSequence(pushed) /\ Joined(pushed, first, d)
    BY <2>1, <2>3, <2>4, ConcatElements, ConcatIsJoined
  <2>6. /\ NoneIn(pushed, CountKinds)
        /\ Tells(pushed, page) \/ (NoneIn(pushed, PageKinds) /\ page = engine.page)
    BY <2>1, <2>3, <2>5, JoinedTells
  <2>7. Publish(pushed) /\ engine'.page = page
    BY <1>1, <2>2, <2>4
  <2> QED BY <2>5, <2>6, <2>7, TurnIsTold
<1>2. CASE /\ engine' = [engine EXCEPT !.phase = "fault", !.recovered = TRUE]
           /\ Publish(Dones(s, FALSE, engine.page))
  <2>1. PICK p : p = engine.page
    OBVIOUS
  <2> PICK d : d = Dones(s, FALSE, p)
    OBVIOUS
  <2>2. /\ IsSequence(d) /\ NoneIn(d, CountKinds)
        /\ Tells(d, p) \/ NoneIn(d, PageKinds)
    BY DonesTell
  <2>3. Publish(d) /\ engine'.page = p
    BY <1>2, <2>1
  <2> QED BY <2>1, <2>2, <2>3, TurnIsTold
<1>3. \/ /\ engine' = [engine EXCEPT !.page = page, !.phase = "ready", !.recovered = TRUE]
         /\ Publish((IF page # engine.page THEN <<PageEvent(page)>> ELSE <<>>) \o Dones(s, TRUE, page))
      \/ /\ engine' = [engine EXCEPT !.phase = "fault", !.recovered = TRUE]
         /\ Publish(Dones(s, FALSE, engine.page))
  BY DEF Recover, Dones
<1> QED BY <1>1, <1>2, <1>3

\* Nothing new, at the page of before.
LEMMA SilenceIsTold ==
    ASSUME EngineKnown, ToldInv, UNCHANGED <<snapshot, book>>, engine'.page = engine.page, Publish(<<>>)
    PROVE  ToldInv'
<1>1. PICK p : p = engine.page
  OBVIOUS
<1> QED BY <1>1, NothingTells, TurnIsTold

\* An answer at the page of before.
LEMMA AnswerIsTold ==
    ASSUME EngineKnown, ToldInv, UNCHANGED <<snapshot, book>>, NEW seq, NEW ok, NEW page, NEW other,
           engine'.page = page, other.kind \in {"page", "fast"},
           \/ Publish(<<DoneEvent(seq, ok, page)>>)
           \/ Publish(<<other, DoneEvent(seq, ok, page)>>)
    PROVE  ToldInv'
<1>1. PICK pushed : /\ Publish(pushed)
                    /\ pushed \in {<<DoneEvent(seq, ok, page)>>, <<other, DoneEvent(seq, ok, page)>>}
  OBVIOUS
<1>2. IsSequence(pushed) /\ NoneIn(pushed, CountKinds) /\ Tells(pushed, page)
  BY <1>1, AnswerTells
<1> QED BY <1>1, <1>2, TurnIsTold

LEMMA DisplayKeepsTold ==
    ASSUME EngineKnown, ToldInv, "page" \in DOMAIN engine, snapshot' = snapshot, EngineNext
    PROVE  ToldInv'
<1>1. CASE Flush \/ CancelOverlay \/ FinishBase
  BY <1>1, SilenceIsTold DEF Flush, CancelOverlay, FinishBase
<1>2. CASE ServeAtOnce
  <2>1. PICK request : request = Head(queue)
    OBVIOUS
  <2>2. book' = book /\ engine'.page = engine.page
    BY <1>2 DEF ServeAtOnce, Interrupted
  <2>3. \/ \E ok : Publish(<<DoneEvent(request.seq, ok, engine.page)>>)
        \/ Publish(<<FastEvent(request.kind = "fast"), DoneEvent(request.seq, TRUE, engine.page)>>)
    BY <1>2, <2>1 DEF ServeAtOnce
  <2>4. PICK p : p = engine.page
    OBVIOUS
  <2>5. PICK other : other = FastEvent(request.kind = "fast") /\ other.kind = "fast"
    BY EventKinds
  <2> QED BY <2>2, <2>3, <2>4, <2>5, AnswerIsTold
<1>3. CASE Start \/ StartCleanup \/ StartOverlay \/ ActivateOverlay
  <2>1. UNCHANGED <<sink, events, book>> /\ engine'.page = engine.page
    BY <1>3 DEF Start, StartCleanup, StartOverlay, ActivateOverlay, Interrupted
  <2> QED BY <2>1, ToldStays
<1>4. CASE FinishTurn
  <2>1. PICK page : page = TargetOf(job.request)
    OBVIOUS
  <2>2. book' = book
    BY <1>4 DEF FinishTurn
  <2>3. CASE Recover(<<job.request.seq>>, page)
    BY <2>2, <2>3, RecoveryIsTold
  <2>4. CASE engine'.page = page /\ Publish(<<PageEvent(page), DoneEvent(job.request.seq, TRUE, page)>>)
    <3>1. PICK other : other = PageEvent(page) /\ other.kind = "page"
      BY EventKinds
    <3> QED BY <2>2, <2>4, <3>1, AnswerIsTold
  <2> QED BY <1>4, <2>1, <2>3, <2>4 DEF FinishTurn
<1>5. CASE FinishProbe \/ FinishMenu \/ SelectRefused
  <2>1. book' = book /\ engine'.page = engine.page
    BY <1>5 DEF FinishProbe, FinishMenu, SelectRefused
  <2>2. \E ok : Publish(<<DoneEvent(job.request.seq, ok, engine.page)>>)
    BY <1>5 DEF FinishProbe, FinishMenu, SelectRefused, MenuAnswer
  <2>3. PICK p : p = engine.page
    OBVIOUS
  <2>4. PICK other : other.kind = "page"
    BY EventKinds
  <2> QED BY <2>1, <2>2, <2>3, <2>4, AnswerIsTold
<1>6. CASE FinishCleanup
  <2>1. book' = book
    BY <1>6 DEF FinishCleanup
  <2>2. PICK page, seq : page = engine.page /\ seq = job.seq
    OBVIOUS
  <2>3. \/ Recover(<<seq>>, page)
        \/ Publish(<<>>) /\ engine'.page = engine.page
    BY <1>6, <2>2 DEF FinishCleanup
  <2> QED BY <2>1, <2>3, RecoveryIsTold, SilenceIsTold
<1>7. CASE OverlayFails
  <2>1. PICK page : page = engine.page
    OBVIOUS
  <2>2. Recover(<<>>, page) /\ book' = book
    BY <1>7, <2>1 DEF OverlayFails
  <2> QED BY <2>2, RecoveryIsTold
<1>8. CASE FinishBack
  BY <1>8 DEF FinishBack, ToldInv
<1>9. CASE FinishSelect
  <2>1. PICK page : page = progress
    OBVIOUS
  <2>2. PICK x : x = OpenEvent(page) /\ x.kind = "open"
    BY EventKinds
  <2> PICK seq : seq = job.request.seq
    OBVIOUS
  <2> PICK y : y = DoneEvent(seq, TRUE, page)
    OBVIOUS
  <2>3. y.kind = "done" /\ y.page = page
    BY DEF DoneEvent
  <2>4. PICK pushed : pushed = <<x, y>> /\ IsSequence(pushed) /\ Tells(pushed, page) /\ Opens(pushed)
    BY <2>2, <2>3, PairTells
  <2>5. Publish(pushed) /\ engine'.page = page
    BY <1>9, <2>1, <2>2, <2>4, PairOfSingles DEF FinishSelect, NewEngine
  <2>6. PageTold(page)' /\ CountTold'
    BY <2>4, <2>5, PublishTells
  <2>7. PageTold(engine.page)'
    BY <2>5, <2>6 DEF PageTold, Tells
  <2> QED BY <2>6, <2>7 DEF ToldInv
<1>10. CASE PowerRefresh
  <2>1. book' = book /\ engine' = engine
    BY <1>10 DEF PowerRefresh
  <2>2. \/ Publish(<<>>)
        \/ Publish(<<DoneEvent(PowerSequence, FALSE, engine.page)>>)
        \/ UNCHANGED <<sink, events>>
    BY <1>10 DEF PowerRefresh
  <2>3. PICK p : p = engine.page
    OBVIOUS
  <2>4. PICK other : other.kind = "page"
    BY EventKinds
  <2> QED BY <2>1, <2>2, <2>3, <2>4, AnswerIsTold, SilenceIsTold, ToldStays
<1>11. CASE SleepRefused
  BY <1>11, SilenceIsTold DEF SleepRefused
<1> QED
  BY <1>1, <1>2, <1>3, <1>4, <1>5, <1>6, <1>7, <1>8, <1>9, <1>10, <1>11 DEF EngineNext

\* What an event leaves in the snapshot.
LEMMA ShownTells ==
    ASSUME NEW e, {"page", "count"} \subseteq DOMAIN snapshot, NEW after, after = Shown(e)
    PROVE  /\ {"page", "count"} \subseteq DOMAIN after
           /\ e.kind \in {"page", "open"} \/ (e.kind = "done" /\ snapshot.count # 0) => after.page = e.page
           /\ e.kind \notin PageKinds => after.page = snapshot.page
           /\ e.kind = "open" => after.count = PageCount
           /\ e.kind \notin CountKinds => after.count = snapshot.count
<1>1. CASE e.kind = "page"
  BY <1>1 DEF Shown, PageKinds, CountKinds
<1>2. CASE e.kind = "done" /\ snapshot.count # 0
  BY <1>2 DEF Shown, PageKinds, CountKinds
<1>3. CASE e.kind = "open"
  BY <1>3 DEF Shown, PageKinds, CountKinds
<1>4. CASE e.kind = "menu"
  BY <1>4 DEF Shown, PageKinds, CountKinds
<1>5. CASE e.kind = "fast"
  BY <1>5 DEF Shown, PageKinds, CountKinds
<1>6. CASE e.kind \notin {"page", "open", "menu", "fast"} /\ (e.kind = "done" => snapshot.count = 0)
  <2>1. after = snapshot
    BY <1>6 DEF Shown
  <2> QED BY <1>6, <2>1
<1> QED BY <1>1, <1>2, <1>3, <1>4, <1>5, <1>6

\* The first of the events, then the others.
LEMMA FirstIsJoined ==
    ASSUME NEW s, IsSequence(s), s # <<>>, NEW o, o = <<Head(s)>>
    PROVE  Joined(s, o, Tail(s))
<1>1. PICK n \in Nat : n = Len(s)
  BY Elements
<1>2. PICK t : t = Tail(s)
  OBVIOUS
<1>3. PICK e : e = Head(s)
  OBVIOUS
<1>4. /\ IsSequence(t) /\ n >= 1 /\ Len(t) = n - 1 /\ e = s[1]
      /\ \A i \in 1 .. n - 1 : t[i] = s[i + 1]
  BY <1>1, <1>2, <1>3, TailElements
<1>5. PICK m \in Nat : m = n - 1 /\ n = 1 + m
  BY <1>4
<1>6. DOMAIN s = 1 .. 1 + m /\ DOMAIN t = 1 .. m
  BY <1>1, <1>4, <1>5, Elements
<1>7. DOMAIN o = 1 .. 1 /\ o[1] = s[1]
  BY <1>3, <1>4
<1>8. \A i \in 1 .. 1 : s[i] = o[i]
  BY <1>7
<1>9. \A i \in 1 .. m : s[1 + i] = t[i]
  BY <1>4, <1>5
<1>10. Joined(s, o, t)
  BY <1>6, <1>7, <1>8, <1>9 DEF Joined
<1> QED BY <1>2, <1>10

\* The aggregator takes the first of the events: the snapshot has what it told.
LEMMA CommitKeepsTold ==
    ASSUME EngineKnown, ToldInv, Commit
    PROVE  ToldInv'
<1>1. PICK e : e = Head(events)
  OBVIOUS
<1>2. PICK t : t = Tail(events)
  OBVIOUS
<1>3. PICK after : after = Shown(e)
  OBVIOUS
<1>4. /\ events # <<>> /\ events' = t /\ snapshot' = after
      /\ UNCHANGED <<sink, book, engine>>
  BY <1>1, <1>2, <1>3 DEF Commit
<1>5. /\ {"page", "count"} \subseteq DOMAIN after
      /\ e.kind \in {"page", "open"} \/ (e.kind = "done" /\ snapshot.count # 0) => after.page = e.page
      /\ e.kind \notin PageKinds => after.page = snapshot.page
      /\ e.kind = "open" => after.count = PageCount
      /\ e.kind \notin CountKinds => after.count = snapshot.count
  BY <1>3, ShownTells DEF ToldInv
<1>6. PICK o : /\ o = <<e>> /\ IsSequence(o)
               /\ \A kinds : NoneIn(o, kinds) <=> e.kind \notin kinds
               /\ \A p : Tells(o, p) <=> e.kind \in {"page", "done", "open"} /\ e.page = p
               /\ Opens(o) <=> e.kind = "open"
  BY OneTells
<1>7. Joined(events, o, t)
  BY <1>1, <1>2, <1>4, <1>6, FirstIsJoined DEF EngineKnown
<1>8. /\ \A kinds : NoneIn(events, kinds) <=> NoneIn(o, kinds) /\ NoneIn(t, kinds)
      /\ \A p : Tells(events, p) <=> Tells(t, p) \/ (NoneIn(t, PageKinds) /\ Tells(o, p))
      /\ Opens(events) <=> Opens(t) \/ (NoneIn(t, CountKinds) /\ Opens(o))
  BY <1>7, JoinedTells
<1>9. CASE ~ book
  BY <1>4, <1>5, <1>9 DEF ToldInv
<1>10. CASE book
  <2>1. PICK page : page = engine.page
    OBVIOUS
  <2>2. PageTold(page) /\ CountTold
    BY <1>10, <2>1 DEF ToldInv
  <2>3. \A s : /\ NoneIn(s, PageKinds) => NoneIn(s, CountKinds)
               /\ NoneIn(s, CountKinds) => ~ Opens(s)
    BY DEF NoneIn, PageKinds, CountKinds, Opens, LastIn
  <2>4. \/ Opens(sink)
        \/ NoneIn(sink, CountKinds) /\ Opens(t)
        \/ NoneIn(sink, CountKinds) /\ NoneIn(t, CountKinds) /\ after.count = PageCount
    BY <1>5, <1>6, <1>8, <2>2 DEF CountTold, CountKinds
  <2>5. \/ Tells(sink, page)
        \/ NoneIn(sink, PageKinds) /\ Tells(t, page)
        \/ NoneIn(sink, PageKinds) /\ NoneIn(t, PageKinds) /\ after.page = page
    <3>1. CASE Tells(sink, page) \/ (NoneIn(sink, PageKinds) /\ Tells(t, page))
      BY <3>1
    <3>2. CASE NoneIn(sink, PageKinds) /\ NoneIn(t, PageKinds) /\ Tells(o, page)
      <4>1. e.kind \in {"page", "done", "open"} /\ e.page = page
        BY <1>6, <3>2
      <4>2. e.kind = "done" => snapshot.count # 0
        <5>1. ASSUME e.kind = "done" PROVE NoneIn(o, CountKinds)
          BY <1>6, <5>1 DEF CountKinds
        <5>2. e.kind = "done" => snapshot.count = PageCount
          BY <1>8, <2>2, <2>3, <3>2, <5>1 DEF CountTold
        <5> QED BY <5>2, ConstantsAssumption
      <4> QED BY <1>5, <3>2, <4>1, <4>2
    <3>3. CASE NoneIn(sink, PageKinds) /\ NoneIn(events, PageKinds) /\ snapshot.page = page
      <4>1. e.kind \notin PageKinds /\ NoneIn(t, PageKinds)
        BY <1>6, <1>8, <3>3
      <4> QED BY <1>5, <3>3, <4>1
    <3> QED BY <1>8, <2>2, <3>1, <3>2, <3>3 DEF PageTold
  <2>6. PageTold(engine.page)'
    BY <1>4, <2>1, <2>5 DEF PageTold, Tells, NoneIn, LastIn
  <2>7. CountTold'
    BY <1>4, <2>4 DEF CountTold, Opens, NoneIn, LastIn
  <2> QED BY <1>4, <1>5, <2>6, <2>7 DEF ToldInv
<1> QED BY <1>9, <1>10

\* The announcement of a command tells nothing of the page.
LEMMA HandleKeepsTold ==
    ASSUME EngineKnown, ToldInv, Handle
    PROVE  ToldInv'
<1>1. UNCHANGED <<sink, book, engine, snapshot>> /\ events' = Append(events, CommandEvent)
  BY DEF Handle, aggVars
<1>2. PICK c : c = CommandEvent
  OBVIOUS
<1>3. c.kind = "command"
  BY <1>2, EventKinds
<1>4. PICK o : /\ o = <<c>> /\ IsSequence(o)
               /\ \A kinds : NoneIn(o, kinds) <=> c.kind \notin kinds
               /\ \A p : Tells(o, p) <=> c.kind \in {"page", "done", "open"} /\ c.page = p
               /\ Opens(o) <=> c.kind = "open"
  BY OneTells
<1>5. PICK u : u = Append(events, c)
  OBVIOUS
<1>6. Joined(u, events, o)
  <2>1. PICK n \in Nat : n = Len(events)
    BY Elements DEF EngineKnown
  <2>2. IsSequence(u) /\ Len(u) = n + 1 /\ u[n + 1] = c /\ \A i \in 1 .. n : u[i] = events[i]
    BY <1>5, <2>1, AppendElements DEF EngineKnown
  <2>3. DOMAIN events = 1 .. n /\ DOMAIN u = 1 .. n + 1
    BY <2>1, <2>2, Elements DEF EngineKnown
  <2>4. DOMAIN o = 1 .. 1 /\ \A i \in 1 .. 1 : u[n + i] = o[i]
    BY <1>4, <2>2
  <2> QED BY <2>2, <2>3, <2>4 DEF Joined
<1>7. /\ \A kinds : NoneIn(u, kinds) <=> NoneIn(events, kinds) /\ NoneIn(o, kinds)
      /\ \A p : Tells(u, p) <=> Tells(o, p) \/ (NoneIn(o, PageKinds) /\ Tells(events, p))
      /\ Opens(u) <=> Opens(o) \/ (NoneIn(o, CountKinds) /\ Opens(events))
  BY <1>6, JoinedTells
<1>8. NoneIn(o, PageKinds) /\ NoneIn(o, CountKinds) /\ ~ Opens(o) /\ \A p : ~ Tells(o, p)
  BY <1>3, <1>4 DEF PageKinds, CountKinds
<1>9. /\ \A p : Tells(u, p) <=> Tells(events, p)
      /\ Opens(u) <=> Opens(events)
      /\ NoneIn(u, PageKinds) <=> NoneIn(events, PageKinds)
      /\ NoneIn(u, CountKinds) <=> NoneIn(events, CountKinds)
  BY <1>7, <1>8
<1>10. events' = u
  BY <1>1, <1>2, <1>5
<1>11. CASE book
  <2>1. PICK page : page = engine.page
    OBVIOUS
  <2>2. PageTold(page) /\ CountTold
    BY <1>11, <2>1 DEF ToldInv
  <2>3. \/ Tells(sink, page)
        \/ NoneIn(sink, PageKinds) /\ Tells(u, page)
        \/ NoneIn(sink, PageKinds) /\ NoneIn(u, PageKinds) /\ snapshot.page = page
    BY <1>9, <2>2 DEF PageTold
  <2>4. \/ Opens(sink)
        \/ NoneIn(sink, CountKinds) /\ Opens(u)
        \/ NoneIn(sink, CountKinds) /\ NoneIn(u, CountKinds) /\ snapshot.count = PageCount
    BY <1>9, <2>2 DEF CountTold
  <2>5. PageTold(engine.page)'
    BY <1>1, <1>10, <2>1, <2>3 DEF PageTold, Tells, NoneIn, LastIn
  <2>6. CountTold'
    BY <1>1, <1>10, <2>4 DEF CountTold, Opens, NoneIn, LastIn
  <2> QED BY <1>1, <2>5, <2>6 DEF ToldInv
<1> QED BY <1>1, <1>11 DEF ToldInv

LEMMA ToldInvInit == Init => ToldInv
<1> SUFFICES ASSUME Init PROVE ToldInv
  OBVIOUS
<1>1. {"page", "count"} \subseteq DOMAIN snapshot /\ sink = <<>>
  BY DEF Init, EngineInit
<1>2. CASE ~ book
  BY <1>1, <1>2 DEF ToldInv
<1>3. CASE book
  <2>1. PICK page : page = progress
    OBVIOUS
  <2>2. events = <<OpenEvent(page)>> /\ engine.page = page
    BY <1>3, <2>1 DEF Init, EngineInit, NewEngine
  <2> PICK x : x = OpenEvent(page)
    OBVIOUS
  <2>3. x.kind = "open" /\ x.page = page
    BY EventKinds
  <2>4. PICK o : /\ o = <<x>> /\ IsSequence(o)
                 /\ \A kinds : NoneIn(o, kinds) <=> x.kind \notin kinds
                 /\ \A p : Tells(o, p) <=> x.kind \in {"page", "done", "open"} /\ x.page = p
                 /\ Opens(o) <=> x.kind = "open"
    BY OneTells
  <2>5. Tells(events, page) /\ Opens(events)
    BY <2>2, <2>3, <2>4
  <2> QED BY <1>1, <2>2, <2>5, NothingTells DEF ToldInv, PageTold, CountTold
<1> QED BY <1>2, <1>3

LEMMA ToldInvNext == OwedInv /\ PictureInv /\ ToldInv /\ [Next]_vars => ToldInv'
<1> SUFFICES ASSUME OwedInv, PictureInv, ToldInv, [Next]_vars PROVE ToldInv'
  OBVIOUS
<1>1. EngineKnown /\ "page" \in DOMAIN engine
  BY DEF OwedInv, PictureInv
<1>2. CASE Display
  BY <1>1, <1>2, DisplayKeepsTold DEF Display, aggVars
<1>3. CASE DisplayForgets
  BY <1>3 DEF DisplayForgets, SelectLost, ToldInv, aggVars
<1>4. CASE Handle
  BY <1>1, <1>4, HandleKeepsTold
<1>5. CASE Commit
  BY <1>1, <1>5, CommitKeepsTold
<1>6. CASE Gather \/ Decode \/ Enqueued \/ Written \/ PublishErrors
  <2>1. UNCHANGED <<sink, events, snapshot, book, engine>>
    BY <1>6 DEF Gather, Decode, Enqueued, Written, PublishErrors, engineVars, aggVars
  <2> QED BY <2>1, ToldStays
<1>7. CASE CommitSends \/ ServeQuery
  <2>1. UNCHANGED <<sink, events, snapshot, book, engine>>
    BY <1>7 DEF CommitSends, ServeQuery, engineVars
  <2> QED BY <2>1, ToldStays
<1>8. CASE Host
  <2>1. UNCHANGED <<sink, events, snapshot, book, engine>>
    BY <1>8 DEF Host, SendKey, SendCommand, Send, NewInvocation, HostReads, engineVars, aggVars
  <2> QED BY <2>1, ToldStays
<1>9. CASE UNCHANGED vars
  <2>1. UNCHANGED <<sink, events, snapshot, book, engine>>
    BY <1>9 DEF vars, engineVars, aggVars
  <2> QED BY <2>1, ToldStays
<1> QED
  BY <1>2, <1>3, <1>4, <1>5, <1>6, <1>7, <1>8, <1>9 DEF Next, ConsoleTask, Aggregator

LEMMA ToldSuffices == PictureInv /\ ToldInv => ReaderAgrees
<1> SUFFICES ASSUME PictureInv, ToldInv PROVE ReaderAgrees
  OBVIOUS
<1>1. PageShown
  <2>1. \A page : /\ PagePicture(page).kind = "page" /\ PagePicture(page).page = page
                  /\ Gray(page).kind = "gray" /\ Gray(page).page = page
    BY DEF PagePicture, Gray, Picture
  <2> QED BY <2>1 DEF PageShown, PictureInv
<1>2. SnapshotSettles
  <2> SUFFICES ASSUME sink = <<>>, events = <<>>, book
               PROVE  snapshot.page = engine.page /\ snapshot.count = PageCount
    BY DEF SnapshotSettles
  <2>1. \A page : ~ Tells(sink, page) /\ ~ Tells(events, page)
    BY NothingTells
  <2>2. ~ Opens(sink) /\ ~ Opens(events)
    BY NothingTells
  <2> QED BY <2>1, <2>2 DEF ToldInv, PageTold, CountTold
<1> QED BY <1>1, <1>2 DEF ReaderAgrees

\* Panel, engine and console agree when all has settled, for every book, every capacity
\* of the channels and every number of faults: the panel shows the page of the engine
\* alone, after turns, recoveries, overlays and opens, unless something was drawn over
\* it; and the events that wait always end in that page and in the count of an open
\* book, so the snapshot has both once they are taken (engine_flow.rs, display_task.rs,
\* runtime_aggregator.rs).
THEOREM ReaderAlwaysAgrees == Spec => []ReaderAgrees
<1>1. Init => StuckInv /\ OwedInv /\ PictureInv /\ ToldInv
  BY StuckInvInit, OwedInvInit, PictureInvInit, ToldInvInit
<1>2. (StuckInv /\ OwedInv /\ PictureInv /\ ToldInv) /\ [Next]_vars
          => (StuckInv /\ OwedInv /\ PictureInv /\ ToldInv)'
  BY StuckInvNext, OwedInvNext, PictureInvNext, ToldInvNext
<1>3. StuckInv /\ OwedInv /\ PictureInv /\ ToldInv => ReaderAgrees
  BY ToldSuffices
<1> QED
  BY <1>1, <1>2, <1>3, PTL DEF Spec

=============================================================================
