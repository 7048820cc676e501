----------------------------- MODULE BulkUpload -----------------------------
(***************************************************************************)
(* A bulk upload over the serial line: the host, the diagnostic task of    *)
(* the firmware with its slots and credits, and the storage owner.         *)
(*                                                                         *)
(* Source: the host in crates/binbook/src/bulk_upload.rs, bulk_state.rs,   *)
(* bulk_serial.rs and frame_router.rs; the firmware in bulk_upload_*.rs,   *)
(* bulk_transfer_*.rs, bulk_protocol_dispatch.rs, runtime/diagnostic_bulk  *)
(* *.rs and the loop of runtime/diagnostic_console.rs.                     *)
(*                                                                         *)
(* A file is Chunks chunks, and a chunk is the number of the host session  *)
(* that sent it: two sessions upload different files of one size.  The     *)
(* storage owner is a mailbox that an abort overtakes and that answers in  *)
(* order (see StorageOwner, for its other clients).                        *)
(* Both timers last 60 seconds.                                            *)
(***************************************************************************)
EXTENDS Integers, SequencesExt, Bags

CONSTANTS
    Chunks,         \* chunks in a file
    Window,         \* the negotiated window
    Slots,          \* TRANSFER_SLOT_COUNT
    QueueCapacity,  \* FrameRouter::MAX_QUEUED_FRAMES
    MaxSessions,    \* bound: runs of the host program
    MaxFaults,      \* bound: faults
    FaultyKinds     \* which faults there are

\* "late": a timer that expires although something else can still happen.
Kinds == {"loss", "garble", "kill", "change", "open", "write", "commit", "abort", "late"}

ASSUME ConstantsAssumption ==
    /\ Chunks \in Nat \ {0} /\ Slots \in Nat
    /\ Window \in 1 .. Slots
    /\ QueueCapacity \in Nat /\ MaxSessions \in Nat /\ MaxFaults \in Nat
    /\ FaultyKinds \subseteq Kinds

VARIABLES
    host,      \* the host program: BulkUploadState and where it is
    toDevice,  \* frames sent by the host
    toHost,    \* frames sent by the device and not taken by the host
    device,    \* DiagnosticBulkRuntime and the runtime it coordinates
    tx,        \* the one frame of SerialState::tx_buf
    turn,      \* where the loop of the diagnostic task is
    owner,     \* the storage owner: mailbox, answers, upload and its file
    shelf,     \* history: what was published, for which upload
    changed,   \* sessions whose file changed after it was measured
    faults     \* history: the kinds of the faults there were

wires == <<toDevice, toHost, tx, turn>>
vars == <<host, device, owner, shelf, changed, faults, wires>>

Fails(kind) ==
    /\ kind \in FaultyKinds
    /\ BagCardinality(faults) < MaxFaults
    /\ faults' = faults (+) SetToBag({kind})

Works == UNCHANGED faults

(***************************************************************************)
(* The device.                                                             *)
(***************************************************************************)
\* A frame to the host: a credit event, with its credits, or a response; the
\* value of a finish says whether the file was published.
Frame(op, seq, ok, id, durable, value) ==
    [op |-> op, seq |-> seq, ok |-> ok, id |-> id, durable |-> durable, value |-> value]

Reply(op, seq, d) == Frame(op, seq, TRUE, d.id, d.durable, Window)
BadRequest(op, seq) == Frame(op, seq, FALSE, 0, 0, 0)

NoRequest == [op |-> "none", seq |-> 0, id |-> 0]

\* BulkUploadRuntime as begin_open leaves it: held are its pending_open,
\* pending_finish and pending_abort, controls the operations that the
\* coordinator waits for, and replies the requests to answer, by sequence.
Opening(session, seq) ==
    [mode |-> "upload", source |-> session, active |-> FALSE, id |-> 0,
     admitted |-> 0, durable |-> 0, credits |-> 0, owed |-> 0, occupied |-> 0,
     intact |-> TRUE, gen |-> 0, tombstone |-> 0, outstanding |-> <<>>, publishes |-> FALSE,
     held |-> {"open"}, controls |-> {"open"}, replies |-> [open |-> seq, finish |-> 0, abort |-> 0],
     deferred |-> NoRequest, armed |-> FALSE]

Idle(d) == [Opening(0, 0) EXCEPT !.mode = "idle", !.held = {}, !.controls = {},
                              !.deferred = d.deferred, !.armed = d.armed]

\* pending_owner: the operations submitted and not yet answered.
Pending(d) == d.controls # {} \/ d.outstanding # <<>>

\* lease_pool_releasable: what an error left held is never released.
Release(d) ==
    IF ~Pending(d) /\ d.held = {} /\ ~d.active THEN Idle(d) ELSE d

Request(op, for, id, off, source) ==
    [op |-> op, for |-> for, id |-> id, off |-> off, source |-> source]

\* Each handler gives the device after it, the frame it puts in the transmit
\* buffer and the request it submits, if any.
Result(d, frames, requests) == [device |-> d, frames |-> frames, requests |-> requests]

Open(d, f) ==
    IF d.mode = "idle"
    THEN Result([Opening(f.source, f.seq) EXCEPT !.deferred = d.deferred, !.armed = d.armed],
                <<>>, <<Request("begin", "open", 0, 0, f.source)>>)
    ELSE Result(d, <<BadRequest("open", f.seq)>>, <<>>)

Admissible(d, f) ==
    /\ d.mode = "upload" /\ d.active
    /\ f.id = d.id
    /\ f.off = d.admitted
    /\ d.credits > 0
    /\ d.occupied < Slots

Admit(d, f) ==
    IF Admissible(d, f)
    THEN Result([d EXCEPT !.credits = @ - 1, !.admitted = f.off + 1, !.occupied = @ + 1,
                          !.outstanding = Append(@, [off |-> f.off, gen |-> d.gen, source |-> f.source])],
                <<>>, <<Request("write", "write", d.id, f.off, f.source)>>)
    ELSE Result(d, <<BadRequest("data", 0)>>, <<>>)

\* A barrier: full credits once no slot is occupied.
Status(d, seq, id) ==
    IF d.mode = "upload" /\ d.active /\ id = d.id /\ d.occupied = 0
    THEN Result([d EXCEPT !.owed = 0, !.credits = Window], <<Reply("status", seq, d)>>, <<>>)
    ELSE Result(d, <<BadRequest("status", seq)>>, <<>>)

Finishable(d, id) ==
    /\ d.mode = "upload" /\ d.active /\ id = d.id
    /\ "finish" \notin d.held
    /\ d.outstanding = <<>> /\ d.occupied = 0
    /\ d.admitted = Chunks /\ d.durable = Chunks

\* Mutant: the CRC is not compared.
FinishUnchecked(d, seq, id) ==
    IF Finishable(d, id)
    THEN Result([d EXCEPT !.active = FALSE, !.publishes = TRUE,
                          !.held = @ \cup {"finish"}, !.controls = @ \cup {"finish"},
                          !.replies.finish = seq],
                <<>>, <<Request("commit", "finish", d.id, 0, d.source)>>)
    ELSE Result(d, <<BadRequest("finish", seq)>>, <<>>)

\* A file whose CRC does not match is aborted.
Finish(d, seq, id) ==
    IF Finishable(d, id)
    THEN LET same == d.intact /\ d.source \notin changed IN
         Result([d EXCEPT !.active = FALSE, !.publishes = same,
                          !.held = @ \cup {"finish"}, !.controls = @ \cup {"finish"},
                          !.replies.finish = seq],
                <<>>, <<Request(IF same THEN "commit" ELSE "abort", "finish", d.id, 0, d.source)>>)
    ELSE Result(d, <<BadRequest("finish", seq)>>, <<>>)

Abortable(d, id) ==
    /\ d.mode = "upload"
    /\ d.held \cap {"abort", "finish"} = {}
    /\ \/ d.active /\ id = d.id
       \/ ~d.active /\ id = d.tombstone /\ id # 0

\* begin_abort: the slots are reset and the writes in flight become stale.
Abort(d, id) ==
    Result([d EXCEPT !.active = FALSE, !.tombstone = id,
                     !.occupied = 0,
                     !.gen = IF d.active THEN @ + 1 ELSE @,
                     !.held = @ \cup {"abort"}, !.controls = @ \cup {"abort"}],
           <<>>, <<Request("abort", "abort", id, 0, 0)>>)

\* Status and Finish wait until every operation is answered; one may wait.
Defer(d, f) ==
    IF d.deferred = NoRequest
    THEN Result([d EXCEPT !.deferred = [op |-> f.op, seq |-> f.seq, id |-> f.id]], <<>>, <<>>)
    ELSE Result(d, <<BadRequest(f.op, f.seq)>>, <<>>)

Dispatch(d, f) ==
    LET waits == d.mode = "upload" /\ Pending(d) IN
    CASE f.op = "open" -> Open(d, f)
      [] f.op = "data" -> Admit(d, f)
      [] f.op \in {"status", "finish"} /\ waits -> Defer(d, f)
      [] f.op = "status" /\ ~waits -> Status(d, f.seq, f.id)
      [] f.op = "finish" /\ ~waits -> Finish(d, f.seq, f.id)
      [] f.op = "abort" ->
            IF Abortable(d, f.id)
            THEN LET r == Abort(d, f.id) IN
                 [r EXCEPT !.device.replies.abort = f.seq]
            ELSE Result(d, <<BadRequest("abort", f.seq)>>, <<>>)

\* The loop writes the buffer out after at most one frame; a response to the
\* frame replaces what was in the buffer.
HandleFrame ==
    /\ toDevice # <<>>
    /\ LET r == Dispatch(device, Head(toDevice)) IN
       /\ device' = r.device
       /\ owner' = [owner EXCEPT !.mail = @ \o r.requests]
       /\ toHost' = toHost \o (IF r.frames # <<>> THEN r.frames ELSE tx)
    /\ toDevice' = Tail(toDevice)
    /\ tx' = <<>>
    /\ turn' = "wait"
    /\ UNCHANGED <<host, shelf, changed, faults>>

Transmit ==
    /\ turn = "transmit"
    /\ toHost' = toHost \o tx
    /\ tx' = <<>>
    /\ turn' = "wait"
    /\ UNCHANGED <<host, toDevice, device, owner, shelf, changed, faults>>

\* Mutant: the idle timer is not started.
OpenDoneUnarmed(d, a) ==
    IF a.ok
    THEN LET e == [d EXCEPT !.active = TRUE, !.id = a.id, !.credits = Window, !.gen = 1,
                            !.held = @ \ {"open"}] IN
         Result(e, <<Reply("open", d.replies.open, e)>>, <<>>)
    ELSE Result(d, <<BadRequest("open", d.replies.open)>>, <<>>)

OpenDone(d, a) ==
    IF a.ok
    THEN LET e == [d EXCEPT !.active = TRUE, !.id = a.id, !.credits = Window, !.gen = 1,
                            !.armed = TRUE, !.held = @ \ {"open"}] IN
         Result(e, <<Reply("open", d.replies.open, e)>>, <<>>)
    ELSE Result(d, <<BadRequest("open", d.replies.open)>>, <<>>)

Answered(d) == [d EXCEPT !.outstanding = Tail(@)]

Stored(d, w) ==
    [Answered(d) EXCEPT !.durable = @ + 1, !.occupied = @ - 1, !.owed = @ + 1,
                        !.intact = @ /\ w.source = d.source]

\* Mutant: the last chunks give no credit event.
CreditWindows(d) ==
    IF d.owed = Window
    THEN Result([d EXCEPT !.credits = Min({Window, @ + d.owed}), !.owed = 0],
                <<Frame("credit", 0, TRUE, d.id, d.durable, d.owed)>>, <<>>)
    ELSE Result(d, <<>>, <<>>)

\* A whole window of stored chunks, or the last one, gives a credit event.
Credit(d) ==
    IF d.owed = Window \/ d.durable = Chunks
    THEN Result([d EXCEPT !.credits = Min({Window, @ + d.owed}), !.owed = 0],
                <<Frame("credit", 0, TRUE, d.id, d.durable, d.owed)>>, <<>>)
    ELSE Result(d, <<>>, <<>>)

\* Mutant: a failed write is credited.
WriteDoneAnyway(d, a) ==
    LET w == Head(d.outstanding) IN
    IF w.gen # d.gen THEN Result(Release(Answered(d)), <<>>, <<>>)
    ELSE IF w.off = d.durable THEN Credit(Stored(d, w))
    ELSE Result(Answered(d), <<>>, <<>>)

\* Mutant: the last stale write does not release the slots.
WriteDoneKeeping(d, a) ==
    LET w == Head(d.outstanding) IN
    IF w.gen = d.gen /\ a.ok /\ w.off = d.durable
    THEN Credit(Stored(d, w))
    ELSE Result(Answered(d), <<>>, <<>>)

\* complete_write and complete_storage: an error leaves the slot occupied.
WriteDone(d, a) ==
    LET w == Head(d.outstanding) IN
    IF w.gen # d.gen THEN Result(Release(Answered(d)), <<>>, <<>>)
    ELSE IF a.ok /\ w.off = d.durable THEN Credit(Stored(d, w))
    ELSE Result(Answered(d), <<>>, <<>>)

FinishDone(d, a) ==
    IF a.ok
    THEN Result(Release([d EXCEPT !.held = @ \ {"finish"}, !.armed = FALSE]),
                <<Frame("finish", d.replies.finish, TRUE, d.id, d.durable,
                        IF d.publishes THEN 1 ELSE 0)>>, <<>>)
    ELSE Result(d, <<BadRequest("finish", d.replies.finish)>>, <<>>)

\* Nobody is answered when the abort was the idle timer's.
AbortDone(d, a) ==
    LET seq == d.replies.abort
        e == [d EXCEPT !.replies.abort = 0] IN
    IF a.ok
    THEN Result(Release([e EXCEPT !.held = @ \ {"abort"}, !.armed = FALSE]),
                IF seq # 0 THEN <<Reply("abort", seq, d)>> ELSE <<>>, <<>>)
    ELSE Result(e, IF seq # 0 THEN <<BadRequest("abort", seq)>> ELSE <<>>, <<>>)

Complete(a) ==
    LET d == [device EXCEPT !.controls = @ \ {a.for}] IN
    CASE a.for = "open"   -> OpenDone(d, a)
      [] a.for = "write"  -> WriteDone(d, a)
      [] a.for = "finish" -> FinishDone(d, a)
      [] a.for = "abort"  -> AbortDone(d, a)

\* service_deferred
Deferred(d) ==
    LET e == [d EXCEPT !.deferred = NoRequest]
        op == IF Pending(d) THEN "none" ELSE d.deferred.op IN
    CASE op = "none"   -> Result(d, <<>>, <<>>)
      [] op = "status" -> Status(e, d.deferred.seq, d.deferred.id)
      [] op = "finish" -> Finish(e, d.deferred.seq, d.deferred.id)

HandleOwner ==
    /\ turn = "wait" /\ tx = <<>>
    /\ Pending(device)
    /\ owner.answers # <<>>
    /\ LET r == Complete(Head(owner.answers))
           s == Deferred(r.device) IN
       /\ device' = s.device
       /\ owner' = [owner EXCEPT !.answers = Tail(@), !.mail = @ \o s.requests]
       /\ tx' = IF s.frames # <<>> THEN s.frames ELSE r.frames
    /\ turn' = "transmit"
    /\ UNCHANGED <<host, toDevice, toHost, shelf, changed, faults>>

(***************************************************************************)
(* The storage owner.                                                      *)
(***************************************************************************)
NoFile == [k \in 0 .. Chunks - 1 |-> 0]

\* An abort has the priority of a control request.
NextRequest ==
    LET control == SelectInSeq(owner.mail, LAMBDA r : r.op = "abort") IN
    IF control # 0 THEN control ELSE 1

Answer(r, ok, id) ==
    [owner EXCEPT !.mail = RemoveAt(@, NextRequest),
                  !.answers = Append(@, [for |-> r.for, ok |-> ok, id |-> id])]

OwnerBegin(r) ==
    /\ r.op = "begin"
    /\ \/ /\ owner.upload = 0 /\ Works
          /\ owner' = [Answer(r, TRUE, owner.nextId) EXCEPT
                          !.upload = owner.nextId, !.nextId = @ + 1, !.file = NoFile]
       \/ owner.upload # 0 /\ Works /\ owner' = Answer(r, FALSE, 0)
       \/ owner.upload = 0 /\ Fails("open") /\ owner' = Answer(r, FALSE, 0)
    /\ UNCHANGED shelf

OwnerWrite(r) ==
    /\ r.op = "write"
    /\ \/ owner.upload = r.id /\ Works
          /\ owner' = [Answer(r, TRUE, 0) EXCEPT !.file[r.off] = r.source]
       \/ owner.upload # r.id /\ Works /\ owner' = Answer(r, FALSE, 0)
       \/ owner.upload = r.id /\ Fails("write")
          /\ owner' \in {Answer(r, FALSE, 0),
                         [Answer(r, FALSE, 0) EXCEPT !.file[r.off] = r.source]}
    /\ UNCHANGED shelf

\* The size is compared; a commit that fails may have published, and leaves
\* the upload to its client.
OwnerCommit(r) ==
    /\ r.op = "commit"
    /\ LET whole == owner.file[Chunks - 1] # 0
           published == shelf \cup {[id |-> r.id, file |-> owner.file]} IN
       \/ /\ owner.upload = r.id /\ whole /\ Works
          /\ owner' = [Answer(r, TRUE, 0) EXCEPT !.upload = 0]
          /\ shelf' = published
       \/ /\ owner.upload # r.id \/ ~whole
          /\ Works /\ owner' = Answer(r, FALSE, 0) /\ UNCHANGED shelf
       \/ /\ owner.upload = r.id /\ whole /\ Fails("commit")
          /\ owner' = Answer(r, FALSE, 0)
          /\ shelf' \in {shelf, published}

OwnerAbort(r) ==
    /\ r.op = "abort"
    /\ \/ owner.upload = r.id /\ Works
          /\ owner' = [Answer(r, TRUE, 0) EXCEPT !.upload = 0, !.file = NoFile]
       \/ owner.upload # r.id /\ Works /\ owner' = Answer(r, FALSE, 0)
       \/ owner.upload = r.id /\ Fails("abort") /\ owner' = Answer(r, FALSE, 0)
    /\ UNCHANGED shelf

OwnerStep ==
    /\ owner.mail # <<>>
    /\ LET r == owner.mail[NextRequest] IN
       OwnerBegin(r) \/ OwnerWrite(r) \/ OwnerCommit(r) \/ OwnerAbort(r)
    /\ UNCHANGED <<host, wires, device, changed>>

(***************************************************************************)
(* The host.                                                               *)
(***************************************************************************)
Waiting == {"opening", "polling", "status", "finishing", "aborting"}

Idling == [pc |-> "idle", session |-> 0, stream |-> 0, seq |-> 0, sent |-> 0, durable |-> 0,
           credits |-> 0, confirmed |-> FALSE]

\* What the host waits for is the operation it sent, or a credit.
Awaited == CASE host.pc = "opening"   -> "open"
             [] host.pc = "polling"   -> "credit"
             [] host.pc = "status"    -> "status"
             [] host.pc = "finishing" -> "finish"
             [] host.pc = "aborting"  -> "abort"

\* The next state of the host and the frames it sends: requests are numbered
\* in each session, data is not.
Step(h, frames) ==
    /\ host' = h
    /\ toDevice' = toDevice \o frames

Ask(h, pc, op) ==
    Step([h EXCEPT !.pc = pc, !.seq = @ + 1],
         <<[op |-> op, seq |-> h.seq + 1, id |-> h.stream, off |-> 0, source |-> h.session]>>)

GiveUp == Ask(host, "aborting", "abort")
End(confirmed) == Step([host EXCEPT !.pc = "failed", !.confirmed = confirmed], <<>>)

\* The loop of bulk_upload_stream: all that the credits allow, or the finish.
Proceed(h) ==
    IF h.durable < Chunks
    THEN LET n == Min({h.credits, Chunks - h.sent}) IN
         Step([h EXCEPT !.pc = "polling", !.sent = @ + n, !.credits = @ - n],
              [k \in 1 .. n |-> [op |-> "data", seq |-> 0, id |-> h.stream,
                                  off |-> h.sent + k - 1, source |-> h.session]])
    ELSE Ask(h, "finishing", "finish")

\* The negotiation before it leaves both directions empty.
Start ==
    /\ host.pc \notin Waiting
    /\ host.session < MaxSessions
    /\ toDevice = <<>> /\ tx = <<>>
    /\ Ask([Idling EXCEPT !.session = host.session + 1], "opening", "open")
    /\ toHost' = <<>>
    /\ \/ Works /\ UNCHANGED changed
       \/ Fails("change") /\ changed' = changed \cup {host.session + 1}
    /\ UNCHANGED <<device, tx, turn, owner, shelf>>

\* take_bulk_event takes the first credit, take_response the one response with
\* the number of the request.
Position == SelectInSeq(toHost, LAMBDA f :
                IF host.pc = "polling" THEN f.op = "credit" ELSE f.seq = host.seq)

GotOpen(f) ==
    IF f.ok
    THEN Proceed([host EXCEPT !.stream = f.id, !.credits = Window])
    ELSE End(FALSE)

ValidDurable(f) == f.durable >= host.durable /\ f.durable <= host.sent

GotCredit(f) ==
    IF f.id = host.stream /\ ValidDurable(f) /\ host.credits + f.value <= Window
    THEN Proceed([host EXCEPT !.durable = f.durable, !.credits = @ + f.value])
    ELSE GiveUp

\* What was sent and is not durable is sent again.
GotStatus(f) ==
    IF f.ok /\ f.id = host.stream /\ ValidDurable(f)
    THEN Proceed([host EXCEPT !.durable = f.durable, !.sent = f.durable, !.credits = f.value])
    ELSE GiveUp

GotFinish(f) ==
    IF f.ok /\ f.value = 1 /\ f.id = host.stream
    THEN Step([host EXCEPT !.pc = "done"], <<>>)
    ELSE GiveUp

Receive ==
    /\ host.pc \in Waiting
    /\ Position # 0 /\ Position <= QueueCapacity
    /\ toHost[Position].op = Awaited
    /\ LET f == toHost[Position] IN
       CASE f.op = "open"   -> GotOpen(f)
         [] f.op = "credit" -> GotCredit(f)
         [] f.op = "status" -> GotStatus(f)
         [] f.op = "finish" -> GotFinish(f)
         [] f.op = "abort"  -> End(f.ok /\ f.id = host.stream)
    /\ toHost' = RemoveAt(toHost, Position)
    /\ UNCHANGED <<device, tx, turn, owner, shelf, changed, faults>>

\* No answer, or no readable one: nothing is sent twice.
Stop == IF host.pc \in {"opening", "aborting"} THEN End(FALSE) ELSE GiveUp

\* Something can still happen without a timer.
Busy ==
    \/ toDevice # <<>> \/ tx # <<>> \/ owner.mail # <<>>
    \/ owner.answers # <<>> /\ Pending(device)
    \/ host.pc \in Waiting /\ Position # 0

Expires == IF Busy THEN Fails("late") ELSE Works

Timeout ==
    /\ host.pc \in Waiting
    /\ Expires
    /\ IF host.pc = "polling"
       THEN Ask(host, "status", "status")
       ELSE Stop
    /\ UNCHANGED <<toHost, device, tx, turn, owner, shelf, changed>>

\* FrameRouter: the frames nobody takes fill its queue, and the next one is
\* lost; or there are two responses with one number, or one of another kind.
Unroutable ==
    /\ host.pc \in Waiting
    /\ \/ /\ Len(toHost) > QueueCapacity
          /\ Position = 0 \/ Position > QueueCapacity
          /\ toHost' = RemoveAt(toHost, QueueCapacity + 1)
       \/ /\ host.pc # "polling"
          /\ \E j, k \in 1 .. Len(toHost) :
                /\ toHost[j].seq = host.seq /\ toHost[k].seq = host.seq
                /\ j # k \/ toHost[k].op # Awaited
          /\ UNCHANGED toHost
    /\ Stop
    /\ UNCHANGED <<device, tx, turn, owner, shelf, changed, faults>>

\* A frame that does not decode is an error for the host, nothing for the device.
Garble ==
    /\ host.pc \in Waiting
    /\ Fails("garble")
    /\ \E k \in 1 .. Len(toHost) : toHost' = RemoveAt(toHost, k)
    /\ Stop
    /\ UNCHANGED <<device, tx, turn, owner, shelf, changed>>

Lose ==
    /\ toDevice # <<>>
    /\ Fails("loss")
    /\ toDevice' = Tail(toDevice)
    /\ UNCHANGED <<host, toHost, tx, turn, device, owner, shelf, changed>>

Kill ==
    /\ host.pc \in Waiting
    /\ Fails("kill")
    /\ host' = [host EXCEPT !.pc = "gone"]
    /\ UNCHANGED <<device, owner, shelf, changed, wires>>

\* begin_timeout_cleanup; if it is refused the timer starts again.
ExpireIdle ==
    /\ device.armed
    /\ Expires
    /\ LET id == IF device.active THEN device.id ELSE device.tombstone IN
       /\ Abortable(device, id)
       /\ LET r == Abort(device, id) IN
          /\ device' = [r.device EXCEPT !.armed = FALSE]
          /\ owner' = [owner EXCEPT !.mail = @ \o r.requests]
    /\ UNCHANGED <<host, wires, shelf, changed>>

Init ==
    /\ host = Idling
    /\ toDevice = <<>> /\ toHost = <<>> /\ tx = <<>> /\ turn = "wait"
    /\ device = Idle([deferred |-> NoRequest, armed |-> FALSE])
    /\ owner = [mail |-> <<>>, answers |-> <<>>, upload |-> 0, nextId |-> 1, file |-> NoFile]
    /\ shelf = {} /\ changed = {}
    /\ faults = EmptyBag

DeviceStep == HandleFrame \/ Transmit \/ HandleOwner

Next ==
    \/ Start \/ Receive \/ Timeout \/ Unroutable \/ Garble \/ Kill
    \/ Lose
    \/ DeviceStep \/ ExpireIdle
    \/ OwnerStep

Spec == Init /\ [][Next]_vars

\* The tasks run, the timers expire, though never late by right, and the host
\* reads what comes.
Fairness ==
    /\ WF_vars(DeviceStep) /\ WF_vars(HandleOwner) /\ WF_vars(Transmit)
    /\ WF_vars(ExpireIdle /\ ~Busy)
    /\ WF_vars(OwnerStep)
    /\ WF_vars(Receive) /\ WF_vars(Unroutable) /\ WF_vars(Timeout /\ ~Busy)

FairSpec == Spec /\ Fairness

(***************************************************************************)
(* Properties.                                                             *)
(***************************************************************************)
Sessions == 0 .. MaxSessions
Ids == 0 .. MaxSessions + 1
Count == 0 .. Chunks
Ops == {"open", "data", "status", "finish", "abort"}

TypeOK ==
    /\ host \in [pc : Waiting \cup {"idle", "done", "failed", "gone"}, session : Sessions,
                  stream : Ids, seq : Nat, sent : Count, durable : Count, credits : 0 .. Window,
                  confirmed : BOOLEAN]
    /\ toDevice \in Seq([op : Ops, seq : Nat, id : Ids, off : Count, source : Sessions])
    /\ toHost \in Seq([op : Ops \cup {"credit"}, seq : Nat, ok : BOOLEAN, id : Ids, durable : Count,
                       value : 0 .. Window])
    /\ Len(tx) <= 1 /\ turn \in {"wait", "transmit"}
    /\ device \in [mode : {"idle", "upload"}, source : Sessions, active : BOOLEAN, id : Ids,
                    admitted : Count, durable : Count, credits : 0 .. Window,
                    owed : 0 .. Window, occupied : 0 .. Slots, gen : 0 .. 2, tombstone : Ids,
                    outstanding : Seq([off : Count, gen : 0 .. 2, source : Sessions]),
                    intact : BOOLEAN, publishes : BOOLEAN,
                    held : SUBSET {"open", "finish", "abort"},
                    controls : SUBSET {"open", "finish", "abort"},
                    replies : [open : Nat, finish : Nat, abort : Nat],
                    deferred : [op : {"none", "status", "finish"}, seq : Nat, id : Ids],
                    armed : BOOLEAN]
    /\ owner.upload \in Ids /\ owner.nextId \in Ids
    /\ owner.file \in [0 .. Chunks - 1 -> Sessions]
    /\ Len(owner.mail) <= Slots + 1 /\ Len(owner.answers) <= Slots + 1
    /\ IsABag(faults) /\ DOMAIN faults \subseteq Kinds /\ BagCardinality(faults) <= MaxFaults

(* Whatever was lost, sent again, left behind by an aborted stream or      *)
(* failed on the card: a published file is all of one session's file, and  *)
(* the one that the host measured.                                         *)
PublishedWhole ==
    \A b \in shelf : \E s \in 1 .. MaxSessions :
        s \notin changed /\ b.file = [k \in 0 .. Chunks - 1 |-> s]

(* The host reports success only for a published file, and a confirmed     *)
(* cleanup only for one that is neither published nor still open.          *)
HostTruth ==
    /\ host.pc = "done" => \E b \in shelf : b.id = host.stream
    /\ host.pc = "failed" /\ host.confirmed =>
          owner.upload # host.stream /\ \A b \in shelf : b.id # host.stream

(* "Host progress never advances beyond device-confirmed durable bytes":   *)
(* what the host counts as durable is in the owner's file.                 *)
HostProgressIsDurable ==
    owner.upload = host.stream /\ host.pc \in Waiting \ {"opening"} =>
        \A k \in 0 .. host.durable - 1 : owner.file[k] = host.session

(* No credit of the device is lost or made: it is the sender's, held back, *)
(* or taken by a slot.                                                     *)
CreditsConserved ==
    device.active => device.credits + device.owed + device.occupied = Window

(* The owner never keeps an upload that the coordinator has let go of.     *)
NoOrphan == owner.upload # 0 => device.mode = "upload"

(* The last answer of a stream that is over releases the slots, whichever  *)
(* it is, unless the owner refused an operation.                           *)
SlotsReleased ==
    device.mode = "upload" => device.active \/ Pending(device) \/ device.held # {}

(* The host program always ends.                                           *)
HostEnds == host.pc \in Waiting ~> host.pc \notin Waiting

\* A refused open, finish or abort leaves its pending operation behind; so does
\* the second of two aborts, which a timer that is late for an answer can send.
Wedged == DOMAIN faults \cap {"open", "commit", "abort", "late"} # {}

(* An upload always ends on the device, with or without its host, unless   *)
(* the card refused to open or to end it.                                  *)
UploadEnds == device.mode = "upload" ~> device.mode = "idle" \/ Wedged

(* An upload ends, whatever the card refuses.                              *)
UploadEndsAnyway == device.mode = "upload" ~> device.mode = "idle"

(* As long as nothing is lost, killed, changed or failed and no answer is  *)
(* as late as the timers, an upload that was started succeeds.             *)
UploadSucceeds == host.pc = "opening" ~> host.pc = "done" \/ faults # EmptyBag

(* "Status is the recovery boundary after a lost event or timeout": but    *)
(* the idle timer of the device, as long as the timer of the host, may     *)
(* have aborted the stream that the status asks about.                     *)
LossRecovered ==
    host.pc = "status" =>
        \A k \in 1 .. Len(toHost) : toHost[k].op = "status" => toHost[k].ok

(* What the host reports and counts is true of the card.                   *)
HostInformed == HostTruth /\ HostProgressIsDurable

(* Credits, uploads and slots: none is lost, made, or kept after its       *)
(* stream, whatever overtook the last answer.                              *)
NothingLost == CreditsConserved /\ NoOrphan /\ SlotsReleased

(* Neither side of a transfer hangs.                                       *)
BothEnd == HostEnds /\ UploadEnds
=============================================================================
