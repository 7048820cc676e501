---------------------------- MODULE BulkReadback ----------------------------
(***************************************************************************)
(* A bulk readback over the serial line, and the older single commands     *)
(* that share its channel to the storage owner.                            *)
(*                                                                         *)
(* Source: the host in crates/binbook/src/bulk_readback*.rs,               *)
(* bulk_serial_readback.rs and atomic_output.rs; the firmware in           *)
(* bulk_readback_*.rs, bulk_lease_pool.rs, bulk_slots.rs,                  *)
(* bulk_transfer_*.rs and runtime/diagnostic_{bulk*,owner_storage}.rs.     *)
(*                                                                         *)
(* The file on the card is Chunks chunks; the one at offset k is k + 1.    *)
(* A CRC is the sequence it was computed over.  A runtime is made for each *)
(* readback, so that every stream has the number 1: it is left out.        *)
(* The device reads into leases, one for each slot, which travel with the  *)
(* requests and come back with the answers.                                *)
(***************************************************************************)
EXTENDS Naturals, SequencesExt, FiniteSetsExt

CONSTANTS
    Chunks,         \* chunks in the file
    Window,         \* the negotiated window
    Slots,          \* TRANSFER_SLOT_COUNT
    QueueCapacity,  \* FrameRouter::MAX_QUEUED_FRAMES
    Programs,       \* what the host runs: "readback", or the older "read"
    MaxSessions,    \* bound: runs of the host program
    MaxStatus,      \* bound: requests of a session after which no status follows
    MaxFaults,      \* bound: faults
    FaultyKinds     \* which faults there are

Kinds == {"loss", "garble", "kill", "output", "size", "read", "late"}

ASSUME ConstantsAssumption ==
    /\ Chunks \in Nat \ {0}
    /\ Slots \in Nat /\ Window \in 1 .. Slots
    /\ QueueCapacity \in Nat /\ MaxSessions \in Nat /\ MaxStatus \in Nat /\ MaxFaults \in Nat
    /\ Programs \subseteq {"readback", "read"}
    /\ FaultyKinds \subseteq Kinds

VARIABLES
    host,      \* the host program: BulkReadbackState and where it is
    toDevice,  \* frames sent by the host
    toHost,    \* frames sent by the device and not taken by the host
    device,    \* DiagnosticBulkRuntime and the readback runtime
    single,    \* DiagnosticOwnerRuntime: the older commands
    bytes,     \* what each lease holds, wherever it is
    tx,        \* the one frame of SerialState::tx_buf
    turn,      \* where the loop of the diagnostic task is
    mail,      \* requests to the storage owner
    answers,   \* STORAGE_DIAGNOSTIC_RESPONSE_CHANNEL
    faults

wires == <<toDevice, toHost, tx>>
ownerVars == <<bytes, mail, answers>>
vars == <<host, wires, device, single, turn, ownerVars, faults>>

Fails(kind) ==
    /\ kind \in FaultyKinds
    /\ faults < MaxFaults
    /\ faults' = faults + 1

Works == UNCHANGED faults

File == [k \in 1 .. Chunks |-> k]
SlotIds == 1 .. Slots

\* In the place of a lease: none, or the buffer of the older commands.
None == 0
Transfer == Slots + 1

(***************************************************************************)
(* The readback runtime of the device.                                     *)
(***************************************************************************)
Frame(op, seq, ok, off, data, crc) ==
    [op |-> op, seq |-> seq, ok |-> ok, off |-> off, data |-> data, crc |-> crc]

BadRequest(op, seq) == Frame(op, seq, FALSE, 0, 0, <<>>)

\* A request to the owner and its answer; by says which of the two clients of
\* the channel it belongs to.
Request(by, seq, off, lease) == [by |-> by, seq |-> seq, off |-> off, lease |-> lease]

\* pending is what the coordinator waits for, outstanding what the runtime
\* waits for; home are the leases in the pool.
Opening(seq) ==
    [mode |-> "readback", opening |-> seq, named |-> FALSE, active |-> FALSE, tombstone |-> FALSE,
     gen |-> 0, slots |-> [s \in SlotIds |-> "free"], queue |-> <<>>, produced |-> 0, durable |-> 0,
     summed |-> <<>>, sent |-> <<>>, outstanding |-> <<>>, pending |-> {1}, next |-> 2,
     home |-> SlotIds, armed |-> FALSE]

IdleDevice(armed) ==
    [Opening(0) EXCEPT !.mode = "idle", !.pending = {}, !.armed = armed]

\* Each handler gives the device after it, the frame it puts in the transmit
\* buffer and the requests it submits.
Result(d, frames, requests) == [device |-> d, frames |-> frames, requests |-> requests]

\* Mutant: the pool is released with leases on their way.
ReleaseEarly(d) ==
    IF d.mode = "readback" /\ d.opening = 0 /\ ~d.named /\ ~d.active
    THEN IdleDevice(d.armed)
    ELSE d

\* lease_pool_releasable and release_if_quiescent
Release(d) ==
    IF /\ d.mode = "readback" /\ d.pending = {}
       /\ d.opening = 0 /\ ~d.named /\ ~d.active
       /\ d.outstanding = <<>> /\ d.sent = <<>> /\ d.home = SlotIds
    THEN IdleDevice(d.armed)
    ELSE d

Open(d, f) ==
    IF d.mode = "idle"
    THEN Result([Opening(f.seq) EXCEPT !.armed = d.armed], <<>>, <<Request("bulk", 1, 0, None)>>)
    ELSE Result(d, <<BadRequest("open", f.seq)>>, <<>>)

\* The free slots in their order: up to the k-th there are k.
FreeSlots(d) ==
    LET free == {s \in SlotIds : d.slots[s] = "free"}
    IN [k \in 1 .. Cardinality(free) |-> CHOOSE s \in free : Cardinality({t \in free : t <= s}) = k]

\* How many times begin_read succeeds: not while a read of an aborted
\* generation is out.
Readable(d) ==
    IF ~d.active \/ ~d.named \/ \E k \in DOMAIN d.outstanding : d.outstanding[k].gen # d.gen
    THEN 0
    ELSE Min({Slots - Cardinality(d.pending), Window - Len(d.queue),
              Chunks - d.produced, Len(FreeSlots(d))})

\* fill_read_window: the requests and the device after them.
Fill(d, frames) ==
    LET n == Readable(d)
        free == FreeSlots(d)
        reads == [k \in 1 .. n |-> [seq |-> d.next + k - 1, slot |-> free[k],
                                     off |-> d.produced + k - 1, gen |-> d.gen]]
        taken == {free[k] : k \in 1 .. n}
    IN Result([d EXCEPT !.slots = [s \in SlotIds |-> IF s \in taken THEN "owned" ELSE @[s]],
                        !.queue = @ \o reads, !.outstanding = @ \o reads,
                        !.produced = @ + n, !.next = @ + n,
                        !.pending = @ \cup {reads[k].seq : k \in 1 .. n},
                        !.home = @ \ taken],
              frames,
              [k \in 1 .. n |-> Request("bulk", reads[k].seq, reads[k].off, reads[k].slot)])

\* An accepted frame restarts the idle timer; it is stopped if all is over.
Accepted(d, frames) ==
    Result([d EXCEPT !.armed = @ /\ d.mode # "idle"], frames, <<>>)

Creditable(d, f) ==
    /\ d.mode = "readback" /\ d.active
    /\ f.credits \in 1 .. Min({Len(d.sent), Len(d.queue), Window})
    /\ \A k \in 1 .. f.credits :
          d.sent[k].slot \in d.home /\ d.slots[d.queue[k].slot] = "awaiting"
    /\ f.off = d.queue[f.credits].off + 1

\* Mutant: nothing is read ahead after a credit.
CreditOnly(d, f) ==
    IF Creditable(d, f)
    THEN LET acked == {d.queue[k].slot : k \in 1 .. f.credits}
             read == [k \in 1 .. f.credits |-> bytes[d.sent[k].slot]]
         IN Result([d EXCEPT !.slots = [s \in SlotIds |-> IF s \in acked THEN "free" ELSE @[s]],
                             !.summed = @ \o read, !.durable = f.off,
                             !.queue = SubSeq(@, f.credits + 1, Len(@)),
                             !.sent = SubSeq(@, f.credits + 1, Len(@))], <<>>, <<>>)
    ELSE Result(d, <<BadRequest("credit", 0)>>, <<>>)

\* apply_credit: the CRC is taken over the leases that the host acknowledges.
Credit(d, f) ==
    IF Creditable(d, f)
    THEN LET acked == {d.queue[k].slot : k \in 1 .. f.credits}
             read == [k \in 1 .. f.credits |-> bytes[d.sent[k].slot]]
         IN Fill([d EXCEPT !.slots = [s \in SlotIds |-> IF s \in acked THEN "free" ELSE @[s]],
                           !.summed = @ \o read, !.durable = f.off,
                           !.queue = SubSeq(@, f.credits + 1, Len(@)),
                           !.sent = SubSeq(@, f.credits + 1, Len(@))], <<>>)
    ELSE Result(d, <<BadRequest("credit", 0)>>, <<>>)

\* invalidate, and the slots that it frees
Invalidated(d) ==
    [d EXCEPT !.gen = @ + 1, !.slots = [s \in SlotIds |-> "free"],
              !.queue = <<>>, !.sent = <<>>]

\* A barrier: what is not acknowledged is taken back, and nothing is read.
Status(d, f) ==
    IF d.mode = "readback" /\ d.active
    THEN LET e == [Invalidated(d) EXCEPT !.produced = d.durable] IN
         Accepted(e, <<Frame("status", f.seq, TRUE, e.durable, Window, e.summed)>>)
    ELSE Result(d, <<BadRequest("status", f.seq)>>, <<>>)

Finish(d, f) ==
    IF d.mode = "readback" /\ d.active /\ d.queue = <<>> /\ d.durable = Chunks
    THEN Accepted(Release([d EXCEPT !.active = FALSE, !.named = FALSE]),
                  <<Frame("finish", f.seq, TRUE, d.durable, 0, d.summed)>>)
    ELSE Result(d, <<BadRequest("finish", f.seq)>>, <<>>)

Aborted(d) ==
    Release([Invalidated(d) EXCEPT !.active = FALSE, !.named = FALSE, !.tombstone = TRUE])

\* abort: the second time, the tombstone answers.
Abort(d, f) ==
    IF d.mode = "readback" /\ (d.active \/ d.tombstone)
    THEN Accepted(IF d.active
                  THEN Aborted(d)
                  ELSE Release([d EXCEPT !.named = FALSE, !.sent = <<>>]),
                  <<Frame("abort", f.seq, TRUE, 0, 0, <<>>)>>)
    ELSE Result(d, <<BadRequest("abort", f.seq)>>, <<>>)

Dispatch(d, f) ==
    CASE f.op = "open"   -> Open(d, f)
      [] f.op = "credit" -> Credit(d, f)
      [] f.op = "status" -> Status(d, f)
      [] f.op = "finish" -> Finish(d, f)
      [] f.op = "abort"  -> Abort(d, f)

\* The loop writes the buffer out after at most one frame; a response to the
\* frame replaces what was in the buffer.
HandleFrame ==
    /\ turn \in {"wait", "transmit"}
    /\ toDevice # <<>> /\ Head(toDevice).op # "read"
    /\ LET r == Dispatch(device, Head(toDevice)) IN
       /\ device' = r.device
       /\ mail' = mail \o r.requests
       /\ toHost' = toHost \o (IF r.frames # <<>> THEN r.frames ELSE tx)
    /\ toDevice' = Tail(toDevice)
    /\ tx' = <<>>
    /\ turn' = "wait"
    /\ UNCHANGED <<host, single, bytes, answers, faults>>

Transmit ==
    /\ turn = "transmit"
    /\ toHost' = toHost \o tx
    /\ tx' = <<>>
    /\ turn' = "wait"
    /\ UNCHANGED <<host, toDevice, device, single, ownerVars, faults>>

\* complete_open: what an error leaves pending is never taken back.
OpenDone(d, a) ==
    IF a.ok
    THEN LET e == [d EXCEPT !.opening = 0, !.named = TRUE, !.active = TRUE, !.gen = 1,
                            !.armed = TRUE] IN
         Fill(e, <<Frame("open", d.opening, TRUE, 0, Window, <<>>)>>)
    ELSE Result(d, <<BadRequest("open", d.opening)>>, <<>>)

Nothing(d) == Result(d, <<>>, <<>>)

\* Mutant: what a failed read left in the lease is sent.
ReadDoneAnyway(d, a) ==
    LET p == SelectInSeq(d.outstanding, LAMBDA r : r.seq = a.seq)
        r == d.outstanding[p]
        e == [d EXCEPT !.home = @ \cup {a.lease}, !.outstanding = RemoveAt(@, p)]
    IN CASE r.gen # d.gen   -> Nothing(Release(e))
         [] r.gen = d.gen /\ p # 1 -> Nothing(e)
         [] OTHER -> Result([e EXCEPT !.slots[r.slot] = "awaiting", !.sent = Append(@, r)],
                            <<Frame("data", 0, TRUE, r.off, bytes[r.slot], <<>>)>>, <<>>)

\* complete_read: the lease goes home whatever becomes of what it holds.
ReadDone(d, a) ==
    LET p == SelectInSeq(d.outstanding, LAMBDA r : r.seq = a.seq)
        r == d.outstanding[p]
        e == [d EXCEPT !.home = @ \cup {a.lease}, !.outstanding = RemoveAt(@, p)]
    IN CASE r.gen # d.gen   -> Nothing(Release(e))
         [] r.gen = d.gen /\ (p # 1 \/ ~a.ok) -> Nothing(e)
         [] OTHER -> Result([e EXCEPT !.slots[r.slot] = "awaiting", !.sent = Append(@, r)],
                            <<Frame("data", 0, TRUE, r.off, bytes[r.slot], <<>>)>>, <<>>)

\* An answer that the coordinator does not wait for is dropped, with its lease.
Complete(d, a) ==
    LET e == [d EXCEPT !.pending = @ \ {a.seq}] IN
    IF a.by # "bulk" \/ a.seq \notin d.pending THEN Nothing(d)
    ELSE IF a.seq = 1 THEN OpenDone(e, a)
    ELSE ReadDone(e, a)

HandleOwner ==
    /\ turn = "wait" /\ tx = <<>>
    /\ device.pending # {}
    /\ answers # <<>>
    /\ LET r == Complete(device, Head(answers)) IN
       /\ device' = r.device
       /\ mail' = mail \o r.requests
       /\ tx' = r.frames
    /\ answers' = Tail(answers)
    /\ turn' = "transmit"
    /\ UNCHANGED <<host, toDevice, toHost, single, bytes, faults>>

(***************************************************************************)
(* The older commands: one exchange with the owner at a time, and the task *)
(* does nothing else meanwhile.                                            *)
(***************************************************************************)
\* exchange: the sequence it waits for is the last one it gave.
Submit(lease, size) ==
    /\ mail' = Append(mail, Request("single", single.seq + 1, 0, lease))
    /\ single' = [single EXCEPT !.seq = @ + 1, !.step = IF size THEN "size" ELSE "read"]
    /\ turn' = "exchange"

\* StoreRead asks for the size, unless it remembers it.
BeginRead ==
    /\ turn \in {"wait", "transmit"}
    /\ toDevice # <<>> /\ Head(toDevice).op = "read"
    /\ IF single.cached THEN Submit(Transfer, FALSE) ELSE Submit(None, TRUE)
    /\ toDevice' = Tail(toDevice)
    /\ tx' = <<Frame("read", Head(toDevice).seq, FALSE, 0, 0, <<>>)>>
    /\ UNCHANGED <<host, toHost, device, bytes, answers, faults>>

Mine(a) == a.by = "single" /\ a.seq = single.seq /\ a.ok

\* Any answer ends the exchange; a lease that is not asked for is dropped.
SizeDone ==
    /\ turn = "exchange" /\ single.step = "size"
    /\ answers # <<>>
    /\ LET a == Head(answers) IN
       IF Mine(a)
       THEN /\ mail' = Append(mail, Request("single", single.seq + 1, 0, Transfer))
            /\ single' = [single EXCEPT !.seq = @ + 1, !.step = "read", !.cached = TRUE]
            /\ UNCHANGED <<tx, turn>>
       ELSE /\ single' = [single EXCEPT !.step = "none", !.cached = FALSE]
            /\ turn' = "transmit"
            /\ UNCHANGED <<tx, mail>>
    /\ answers' = Tail(answers)
    /\ UNCHANGED <<host, toDevice, toHost, device, bytes, faults>>

\* take_transfer: another answer than its own has no buffer, or one of another
\* length, and the firmware panics.
ReadAnswered ==
    /\ turn = "exchange" /\ single.step = "read"
    /\ answers # <<>>
    /\ LET a == Head(answers) IN
       /\ turn' = IF a.lease = Transfer THEN "transmit" ELSE "panicked"
       /\ tx' = [tx EXCEPT ![1].ok = Mine(a)]
    /\ single' = [single EXCEPT !.step = "none"]
    /\ answers' = Tail(answers)
    /\ UNCHANGED <<host, toDevice, toHost, device, bytes, mail, faults>>

\* The storage owner answers in order.  A failed read may have filled a part
\* of the lease.
OwnerStep ==
    /\ turn # "panicked"
    /\ mail # <<>>
    /\ LET r == Head(mail)
       IN \E ok \in BOOLEAN :
          /\ IF ok THEN Works ELSE Fails(IF r.lease = None THEN "size" ELSE "read")
          /\ answers' = Append(answers, [by |-> r.by, seq |-> r.seq, ok |-> ok, lease |-> r.lease])
          /\ bytes' = IF r.lease \in SlotIds
                      THEN [bytes EXCEPT ![r.lease] = IF ok THEN r.off + 1 ELSE 0]
                      ELSE bytes
    /\ mail' = Tail(mail)
    /\ UNCHANGED <<host, wires, device, single, turn>>

(***************************************************************************)
(* The host.                                                               *)
(***************************************************************************)
Waiting == {"opening", "polling", "status", "finishing", "aborting", "reading"}

\* out is the temporary file, all of it written; saved is what was renamed to
\* the destination.
Idling == [pc |-> "idle", session |-> 0, seq |-> 0, out |-> <<>>, owed |-> 0, saved |-> <<>>]

\* What the host waits for is the operation it sent, or data.
Awaited == CASE host.pc = "opening"   -> "open"
             [] host.pc = "polling"   -> "data"
             [] host.pc = "status"    -> "status"
             [] host.pc = "finishing" -> "finish"
             [] host.pc = "aborting"  -> "abort"
             [] host.pc = "reading"   -> "read"

Message(op, seq, off, credits) == [op |-> op, seq |-> seq, off |-> off, credits |-> credits]

\* The next state of the host and the frames it sends.
Step(h, frames) ==
    /\ host' = h
    /\ toDevice' = toDevice \o frames

Ask(h, pc, op) == Step([h EXCEPT !.pc = pc, !.seq = @ + 1], <<Message(op, h.seq + 1, 0, 0)>>)

End(pc) == Step([host EXCEPT !.pc = pc], <<>>)
GiveUp == Ask(host, "aborting", "abort")

\* The negotiation before it leaves both directions empty.
Start ==
    /\ host.pc \notin Waiting
    /\ host.session < MaxSessions
    /\ toDevice = <<>> /\ tx = <<>> /\ turn = "wait"
    /\ \E p \in Programs :
          LET h == [Idling EXCEPT !.session = host.session + 1] IN
          IF p = "read" THEN Ask(h, "reading", "read") ELSE Ask(h, "opening", "open")
    /\ toHost' = <<>>
    /\ UNCHANGED <<device, single, tx, turn, ownerVars, faults>>

\* take_bulk_event takes the first data, take_response the one response with
\* the number of the request.
Position == SelectInSeq(toHost, LAMBDA f :
                IF host.pc = "polling" THEN f.op = "data" ELSE f.seq = host.seq)

\* The loop of bulk_readback_stream: the whole file, then the finish.
Proceed(h, frames) ==
    IF Len(h.out) < Chunks
    THEN Step([h EXCEPT !.pc = "polling"], frames)
    ELSE Step([h EXCEPT !.pc = "finishing", !.seq = @ + 1],
              Append(frames, Message("finish", h.seq + 1, 0, 0)))

\* credit_batch
Batch == Max({1, Window \div 2})

\* mark_durable: the credits are given back by half windows, and at the end.
Got(f) ==
    LET h == [host EXCEPT !.out = Append(@, f.data), !.owed = @ + 1] IN
    IF h.owed < Batch /\ Len(h.out) # Chunks
    THEN Proceed(h, <<>>)
    ELSE Proceed([h EXCEPT !.owed = 0], <<Message("credit", 0, Len(h.out), h.owed)>>)

GotData(f) ==
    \/ f.off = Len(host.out) /\ Works /\ Got(f)
    \/ f.off # Len(host.out) /\ Works /\ GiveUp
    \/ f.off = Len(host.out) /\ Fails("output") /\ GiveUp

\* The barrier is where both sides are, or the readback is over.
GotStatus(f) ==
    IF f.ok /\ f.crc = host.out /\ f.off = Len(host.out) /\ f.data = Window
    THEN Proceed([host EXCEPT !.owed = 0], <<>>)
    ELSE GiveUp

\* write_atomic: only a file that was verified gets its name.
GotFinish(f) ==
    IF f.ok /\ f.off = Chunks /\ f.crc = host.out
    THEN Step([host EXCEPT !.pc = "done", !.saved = host.out], <<>>)
    ELSE GiveUp

Receive ==
    /\ host.pc \in Waiting
    /\ Position # 0 /\ Position <= QueueCapacity
    /\ toHost[Position].op = Awaited
    /\ LET f == toHost[Position] IN
       \/ f.op = "data" /\ GotData(f)
       \/ f.op = "open" /\ Works /\ (IF f.ok THEN Proceed(host, <<>>) ELSE End("failed"))
       \/ f.op = "status" /\ Works /\ GotStatus(f)
       \/ f.op = "finish" /\ Works /\ GotFinish(f)
       \/ f.op = "abort" /\ Works /\ End("failed")
       \/ f.op = "read" /\ Works /\ End(IF f.ok THEN "done" ELSE "failed")
    /\ toHost' = RemoveAt(toHost, Position)
    /\ UNCHANGED <<device, single, tx, turn, ownerVars>>

\* No answer, or no readable one: nothing is sent twice.
Stop == IF host.pc \in {"opening", "aborting", "reading"} THEN End("failed") ELSE GiveUp

\* Something can still happen without a timer, and it is a fault if it is
\* later than 60 seconds.
Busy ==
    \/ toDevice # <<>> \/ tx # <<>> \/ mail # <<>>
    \/ answers # <<>> /\ (device.pending # {} \/ turn = "exchange")
    \/ host.pc \in Waiting /\ Position # 0

Expires == IF Busy THEN Fails("late") ELSE Works

Timeout ==
    /\ host.pc \in Waiting
    /\ Expires
    /\ host.pc = "polling" => host.seq < MaxStatus
    /\ IF host.pc = "polling" THEN Ask(host, "status", "status") ELSE Stop
    /\ UNCHANGED <<toHost, device, single, tx, turn, ownerVars>>

\* FrameRouter: the frames nobody takes fill its queue.
Unroutable ==
    /\ host.pc \in Waiting
    /\ Len(toHost) > QueueCapacity
    /\ Position = 0 \/ Position > QueueCapacity
    /\ toHost' = RemoveAt(toHost, QueueCapacity + 1)
    /\ Stop
    /\ UNCHANGED <<device, single, tx, turn, ownerVars, faults>>

\* A frame that does not decode is an error for the host, nothing for the device.
Garble ==
    /\ host.pc \in Waiting
    /\ Fails("garble")
    /\ \E k \in 1 .. Len(toHost) : toHost' = RemoveAt(toHost, k)
    /\ Stop
    /\ UNCHANGED <<device, single, tx, turn, ownerVars>>

Lose ==
    /\ toDevice # <<>>
    /\ Fails("loss")
    /\ toDevice' = Tail(toDevice)
    /\ UNCHANGED <<host, toHost, device, single, tx, turn, ownerVars>>

Kill ==
    /\ host.pc \in Waiting
    /\ Fails("kill")
    /\ host' = [host EXCEPT !.pc = "gone"]
    /\ UNCHANGED <<wires, device, single, turn, ownerVars>>

\* begin_timeout_cleanup; if there is no stream the timer starts again.
ExpireIdle ==
    /\ turn = "wait"
    /\ device.armed
    /\ Expires
    /\ device.active \/ device.tombstone
    /\ device' = [IF device.active
                  THEN Aborted(device)
                  ELSE Release([device EXCEPT !.named = FALSE, !.sent = <<>>]) EXCEPT !.armed = FALSE]
    /\ UNCHANGED <<host, wires, single, turn, ownerVars>>

Init ==
    /\ host = Idling
    /\ toDevice = <<>> /\ toHost = <<>> /\ tx = <<>> /\ turn = "wait"
    /\ device = IdleDevice(FALSE)
    /\ single = [step |-> "none", seq |-> 0, cached |-> FALSE]
    /\ bytes = [s \in SlotIds |-> 0]
    /\ mail = <<>> /\ answers = <<>>
    /\ faults = 0

DeviceStep == HandleFrame \/ Transmit \/ HandleOwner \/ BeginRead \/ SizeDone \/ ReadAnswered

Next ==
    \/ Start \/ Receive \/ Timeout \/ Unroutable \/ Garble \/ Kill
    \/ Lose
    \/ DeviceStep \/ ExpireIdle
    \/ OwnerStep

Spec == Init /\ [][Next]_vars

\* The tasks run, the timers expire, and the host reads what comes.
Fairness ==
    /\ WF_vars(DeviceStep) /\ WF_vars(HandleOwner) /\ WF_vars(Transmit)
    /\ WF_vars(OwnerStep)
    /\ WF_vars(Receive) /\ WF_vars(Unroutable)
    /\ WF_vars(~Busy /\ Timeout) /\ WF_vars(~Busy /\ ExpireIdle)

FairSpec == Spec /\ Fairness

(***************************************************************************)
(* Properties.                                                             *)
(***************************************************************************)
(* Whatever was lost, late, failed or left by another stream, a file gets  *)
(* its name only when it is the file of the card.                          *)
SavedWhole == host.saved \in {<<>>, File}

(* The device never counts as durable what the host of the stream has not  *)
(* written, and its CRC is over the same bytes.                            *)
DeviceBehindHost ==
    /\ Len(device.summed) = device.durable
    /\ device.active /\ host.pc \in Waiting \ {"opening", "reading"} =>
          IsPrefix(device.summed, host.out)

(* No lease is in two places, and the one of a slot that the host has yet  *)
(* to acknowledge is at home and holds what was sent.                      *)
LeasesHeld ==
    LET away == [k \in 1 .. Len(mail) + Len(answers) |-> (mail \o answers)[k].lease] IN
    /\ \A j, k \in DOMAIN away : away[j] \in SlotIds /\ j # k => away[j] # away[k]
    /\ \A k \in DOMAIN away : away[k] \notin device.home
    /\ \A k \in DOMAIN device.sent :
          LET r == device.sent[k] IN r.slot \in device.home /\ bytes[r.slot] = r.off + 1

(* As long as nothing fails, a readback that was started ends with the file.*)
ReadbackSucceeds == host.pc = "opening" ~> host.pc = "done" \/ faults > 0

(* "diagnostic owner must return its caller-owned buffer": but the buffer  *)
(* may be one of the readback that its host left.                          *)
BufferReturned == turn # "panicked"

(* "On readback, pause production": but nothing resumes it.                *)
ProductionResumes ==
    host.pc = "polling" /\ device.active /\ ~Busy => device.queue # <<>>

(* The pipeline of the device is behind its host and owns its buffers.     *)
PipelineSound == DeviceBehindHost /\ LeasesHeld
=============================================================================
