------------------------------ MODULE Console ------------------------------
(***************************************************************************)
(* The diagnostic console in front of the page engine: the host's CLI and  *)
(* its burst of keys, the serial buffers, the loop of the console task,    *)
(* and the aggregator, which alone knows which command waits for which     *)
(* completion of the display task and what the reader shows.               *)
(*                                                                         *)
(* Source: runtime/{diagnostic_console,diagnostic_aggregator}.rs,          *)
(* runtime_aggregator.rs, diag/{runtime,serial,command,state}.rs of the    *)
(* firmware, serial_transport.rs and nav_burst_runtime.rs of the host.     *)
(*                                                                         *)
(* A request is named by the invocation that sent it and its sequence; the *)
(* code sees the sequence only.  A frame is a request, or junk: the rest   *)
(* of the frame of a host that was stopped, run together with the next.    *)
(***************************************************************************)
EXTENDS PageEngine, FiniteSetsExt

CONSTANTS
    QueueCapacity,  \* PAGE_TURN_QUEUE_CAPACITY, of the requests and of the reservations
    DoneCapacity,   \* DISPLAY_COMPLETION_CAPACITY
    Keys,           \* the keys of a burst
    Commands,       \* the other commands the host sends
    MaxBurst,       \* bound: keys that wait for their answer
    MaxRequests,    \* bound: requests of the host
    MaxStops        \* bound: invocations stopped before their answers came

ASSUME ConstantsAssumption ==
    /\ PageCount \in Nat \ {0} /\ EventCapacity \in Nat \ {0}
    /\ QueueCapacity \in Nat \ {0} /\ DoneCapacity \in Nat \ {0}
    /\ Keys \subseteq {"Next", "Select", "Back", "Power"}
    /\ Commands \subseteq {"status", "goto", "pageNext", "fast", "balanced", "white", "full"}
    /\ {MaxBurst, MaxRequests, MaxStops, MaxFaults, MaxPowers} \subseteq Nat

\* Both are 16; nothing in the build ties them to one another.
ASSUME CapacityAssumption == QueueCapacity <= DoneCapacity

VARIABLES
    host,       \* the invocation, its next sequence, the requests it waits for
    torn,       \* the bytes of a stopped host that have no delimiter
    wire, rx,   \* frames on the way, frames in the receive buffer
    tx,         \* answers in the transmit buffer
    con,        \* where the console task is, and the command it serves
    errors,     \* protocol errors not yet published
    query, reply,           \* AGGREGATOR_QUERY_CHANNEL, AGGREGATOR_RESPONSE_CHANNEL
    pending, snapshot,      \* RuntimeAggregator
    committing,             \* the completion the aggregator waits to send
    done,                   \* AGGREGATOR_COMPLETION_CHANNEL
    lost,       \* history: requests whose book could not be shown
    requests, stops

hostVars == <<host, torn, requests, stops>>
conVars == <<rx, tx, con, errors>>
aggVars == <<pending, snapshot, committing>>
vars == <<engineVars, hostVars, wire, conVars, query, reply, aggVars, done, lost>>

NoCommand == [kind |-> "none", seq |-> 0, of |-> 0]
Waiting == [at |-> "wait", command |-> NoCommand, page |-> 0, count |-> 0]
Answer(command, ok) == [kind |-> command.kind, seq |-> command.seq, of |-> command.of, ok |-> ok]
Same(a, b) == a.of = b.of /\ a.seq = b.seq

\* The opcode of a command: the answers of the CLI must carry it.
OpcodeOf(kind) ==
    CASE kind \in Keys -> "key"
      [] kind \in {"goto", "pageNext"} -> "page"
      [] kind \in {"fast", "balanced"} -> "refreshMode"
      [] kind \in {"white", "full"} -> "probe"
      [] OTHER -> kind

(***************************************************************************)
(* The host.                                                               *)
(***************************************************************************)
Send(kind, invocation, seq) ==
    LET request == [kind |-> kind, seq |-> seq, of |-> invocation] IN
    /\ requests < MaxRequests
    /\ requests' = requests + 1
    /\ wire' = Append(wire, IF torn THEN NoCommand ELSE request)
    /\ torn' = FALSE
    /\ host' = [of |-> invocation, next |-> seq + 1,
                owed |-> (IF invocation = host.of THEN host.owed ELSE {}) \cup
                         (IF torn THEN {} ELSE {request})]
    /\ UNCHANGED <<engineVars, conVars, query, reply, aggVars, done, lost, stops>>

\* send_batch_observed_io: keys, without waiting for their answers.
SendKey ==
    /\ Cardinality(host.owed) < MaxBurst
    /\ \A request \in host.owed : request.kind \in Keys
    /\ \E key \in Keys : Send(key, host.of, host.next)

\* send_and_receive_io: one command, then its answer.
SendCommand ==
    /\ host.owed = {}
    /\ \E kind \in Commands : Send(kind, host.of, host.next)

\* An invocation ends, or is stopped, perhaps in the middle of a frame; the
\* next one counts its sequences from one again.
NewInvocation ==
    /\ host.next > 1
    /\ requests < MaxRequests
    /\ host' = [of |-> host.of + 1, next |-> 1, owed |-> {}]
    /\ IF host.owed = {} THEN UNCHANGED <<torn, stops>>
       ELSE /\ stops < MaxStops /\ stops' = stops + 1
            /\ torn' \in BOOLEAN
    /\ UNCHANGED <<engineVars, wire, conVars, query, reply, aggVars, done, lost, requests>>

\* The host takes an answer by its sequence and its opcode, whatever it answers; it ends
\* with an error when the status is one, and a burst when the opcode is another.
Takes(answer) ==
    LET named == {request \in host.owed : request.seq = answer.seq}
        own == {request \in named : OpcodeOf(request.kind) = OpcodeOf(answer.kind)}
        fails == IF own # {} THEN ~answer.ok ELSE \E request \in named : request.kind \in Keys
    IN [host EXCEPT !.owed = IF fails THEN {} ELSE @ \ own]

HostReads ==
    /\ con.at = "write"
    /\ tx # <<>>
    /\ host' = Takes(Head(tx))
    /\ tx' = Tail(tx)
    /\ UNCHANGED <<engineVars, torn, requests, stops, wire, rx, con, errors, query, reply, aggVars,
                   done, lost>>

(***************************************************************************)
(* The console task: one iteration of its loop.                            *)
(***************************************************************************)
\* Mutant: the answer of a completion replaces the one before it.
DrainedLast == IF done = <<>> THEN <<>> ELSE <<Answer(Last(done).command, Last(done).ok)>>

Drained == [i \in DOMAIN done |-> Answer(done[i].command, done[i].ok)]
AfterFrame == IF tx' # <<>> THEN "write" ELSE IF errors' THEN "errors" ELSE "wait"

\* Waits for bytes or a completion when there is nothing to do, reads both dry, and
\* asks for the snapshot when a frame is complete.
Gather ==
    /\ con.at = "wait"
    /\ wire # <<>> \/ rx # <<>> \/ done # <<>>
    /\ rx' = rx \o wire
    /\ wire' = <<>>
    /\ tx' = tx \o Drained
    /\ done' = <<>>
    /\ UNCHANGED errors
    /\ IF rx' # <<>>
         THEN /\ con' = [Waiting EXCEPT !.at = "status"]
              /\ query' = [kind |-> "status"]
         ELSE con' = [Waiting EXCEPT !.at = AfterFrame] /\ UNCHANGED query
    /\ UNCHANGED <<engineVars, hostVars, reply, aggVars, lost>>

\* resolve_page_action and dispatch_command, on the snapshot.
PageOf(kind) ==
    IF kind = "goto" THEN PageCount - 1
    ELSE IF con.page < con.count - 1 THEN con.page + 1 ELSE Max({con.count - 1, 0})

\* A frame that cannot be decoded is counted; every other one is announced to the log.
Decode ==
    /\ con.at = "status" /\ reply.kind = "status"
    /\ reply' = [kind |-> "none"]
    /\ rx' = Tail(rx)
    /\ UNCHANGED tx
    /\ IF Head(rx) = NoCommand
         THEN /\ errors' = TRUE
              /\ con' = [Waiting EXCEPT !.at = AfterFrame]
         ELSE /\ con' = [at |-> "announce", command |-> Head(rx),
                         page |-> reply.snapshot.page, count |-> reply.snapshot.count]
              /\ UNCHANGED errors
    /\ UNCHANGED <<engineVars, hostVars, wire, query, aggVars, done, lost>>

\* What a command is at once, before the display task: an answer, or a request.
IsImmediate(command) ==
    \/ command.kind = "status"
    \/ command.kind = "goto" /\ PageOf("goto") >= con.count
    \/ command.kind \in {"goto", "pageNext"} /\ PageOf(command.kind) = con.page

\* complete_pending_command appends; replace_tx_response throws away what is not yet sent.
Queued(answer) == Append(tx, answer)
Replaced(answer) == <<answer>>

RequestOf(command) ==
    LET of(kind, page) == [kind |-> kind, page |-> page, seq |-> command.seq] IN
    CASE command.kind \in {"goto", "pageNext"} -> of("goto", PageOf(command.kind))
      [] command.kind = "Next" -> of(IF mode = "menu" THEN "menuNext" ELSE "next", 0)
      [] command.kind = "Select" -> of(IF mode = "menu" THEN "select" ELSE "back", 0)
      [] command.kind = "Back" -> of("back", 0)
      [] OTHER -> of(command.kind, 0)

\* button_to_request has no request for the power key, nor for Back in the menu.
Ignored(command) == command.kind = "Power" \/ (command.kind = "Back" /\ mode = "menu")

\* The announcement is sent when the channel has room, then the command is handled.
Handle ==
    /\ con.at = "announce"
    /\ Len(events) < EventCapacity
    /\ events' = Append(events, CommandEvent)
    /\ UNCHANGED errors
    /\ IF IsImmediate(con.command)
         THEN /\ tx' = Replaced(Answer(con.command, con.command.kind # "goto" \/ con.count # 0))
              /\ con' = [Waiting EXCEPT !.at = AfterFrame]
              /\ UNCHANGED query
         ELSE IF Ignored(con.command)
         THEN /\ tx' = Queued(Answer(con.command, TRUE))
              /\ con' = [Waiting EXCEPT !.at = AfterFrame]
              /\ UNCHANGED query
         ELSE /\ query' = [kind |-> "enqueue", command |-> con.command,
                           request |-> RequestOf(con.command)]
              /\ con' = [con EXCEPT !.at = "enqueue"]
              /\ UNCHANGED tx
    /\ UNCHANGED <<queue, epoch, mode, book, engine, job, progress, sink, glass, stray, powers, faults,
                   hostVars, wire, rx, reply, aggVars, done, lost>>

\* handle_display_command: a refused request is answered with an error.
Enqueued ==
    /\ con.at = "enqueue" /\ reply.kind = "reserve"
    /\ reply' = [kind |-> "none"]
    /\ tx' = IF reply.ok THEN tx ELSE Queued(Answer(con.command, FALSE))
    /\ UNCHANGED errors
    /\ con' = [Waiting EXCEPT !.at = AfterFrame]
    /\ UNCHANGED <<engineVars, hostVars, wire, rx, query, aggVars, done, lost>>

\* write_all has ended: the count of the protocol errors is published.
Written ==
    /\ con.at = "write" /\ tx = <<>>
    /\ con' = [Waiting EXCEPT !.at = IF errors THEN "errors" ELSE "wait"]
    /\ UNCHANGED <<engineVars, hostVars, wire, rx, tx, errors, query, reply, aggVars, done, lost>>

PublishErrors ==
    /\ con.at = "errors"
    /\ IF reply.kind = "ack"
         THEN /\ reply' = [kind |-> "none"]
              /\ errors' = FALSE
              /\ con' = Waiting
              /\ UNCHANGED query
         ELSE /\ query.kind = "none"
              /\ query' = [kind |-> "errors"]
              /\ UNCHANGED <<reply, errors, con>>
    /\ UNCHANGED <<engineVars, hostVars, wire, rx, tx, aggVars, done, lost>>

(***************************************************************************)
(* The aggregator.                                                         *)
(***************************************************************************)
\* commit: the snapshot follows the events.
Shown(event) ==
    CASE event.kind = "page" -> [snapshot EXCEPT !.page = event.page]
      [] event.kind = "done" /\ snapshot.count # 0 -> [snapshot EXCEPT !.page = event.page]
      [] event.kind = "open" -> [snapshot EXCEPT !.page = event.page, !.count = PageCount]
      [] event.kind = "menu" -> [snapshot EXCEPT !.page = 0, !.count = 0]
      [] event.kind = "fast" -> [snapshot EXCEPT !.fast = event.fast]
      [] OTHER -> snapshot

Reserved(seq) == {command \in pending : command.seq = seq}

\* Mutant: a channel for completions that is one too small.
RoomForOneLess == Len(done) < DoneCapacity - 1

RoomForDone == Len(done) < DoneCapacity

\* A completion takes its reservation back and waits for room in the channel.
Commit ==
    /\ committing = <<>>
    /\ events # <<>>
    /\ events' = Tail(events)
    /\ LET event == Head(events)
           own == IF event.kind = "done" THEN Reserved(event.seq) ELSE {} IN
        /\ snapshot' = Shown(event)
        /\ pending' = pending \ own
        /\ IF own = {} THEN UNCHANGED <<done, committing>>
           ELSE LET completion == [command |-> CHOOSE c \in own : TRUE, ok |-> event.ok] IN
                IF RoomForDone THEN done' = Append(done, completion) /\ UNCHANGED committing
                ELSE committing' = <<completion>> /\ UNCHANGED done
    /\ UNCHANGED <<queue, epoch, mode, book, engine, job, progress, sink, glass, stray, powers, faults,
                   hostVars, wire, conVars, query, reply, lost>>

CommitSends ==
    /\ committing # <<>>
    /\ RoomForDone
    /\ done' = done \o committing
    /\ committing' = <<>>
    /\ UNCHANGED <<engineVars, hostVars, wire, conVars, query, reply, pending, snapshot, lost>>

\* An event goes before a query.  reserve_and_enqueue: the reservation is cancelled when
\* the queue is full.
ServeQuery ==
    /\ committing = <<>> /\ events = <<>>
    /\ query.kind # "none"
    /\ query' = [kind |-> "none"]
    /\ UNCHANGED snapshot
    /\ \/ /\ query.kind = "status"
          /\ reply' = [kind |-> "status", snapshot |-> snapshot]
          /\ UNCHANGED <<pending, queue, epoch>>
       \/ /\ query.kind = "errors"
          /\ reply' = [kind |-> "ack"]
          /\ UNCHANGED <<pending, queue, epoch>>
       \/ /\ query.kind = "enqueue"
          /\ LET free == Reserved(query.command.seq) = {} /\ Cardinality(pending) < QueueCapacity
                 sent == free /\ Len(queue) < QueueCapacity IN
             /\ reply' = [kind |-> "reserve", ok |-> sent]
             /\ pending' = IF sent THEN pending \cup {query.command} ELSE pending
             /\ queue' = IF sent THEN Append(queue, query.request) ELSE queue
             /\ epoch' = IF sent THEN epoch + 1 ELSE epoch
    /\ UNCHANGED <<mode, book, engine, job, progress, sink, events, glass, stray, powers, faults,
                   hostVars, wire, conVars, committing, done, lost>>

(***************************************************************************)
(* The display task.                                                       *)
(***************************************************************************)
Display ==
    /\ EngineNext
    /\ UNCHANGED <<hostVars, wire, conVars, query, reply, aggVars, done, lost>>

\* The first page of a book could not be shown, and nobody is told.
DisplayForgets ==
    /\ SelectLost
    /\ lost' = lost \cup Reserved(job.request.seq)
    /\ UNCHANGED <<hostVars, wire, conVars, query, reply, aggVars, done>>

Init ==
    /\ EngineInit
    /\ host = [of |-> 1, next |-> 1, owed |-> {}] /\ torn = FALSE
    /\ wire = <<>> /\ rx = <<>> /\ tx = <<>> /\ con = Waiting /\ errors = FALSE
    /\ query = [kind |-> "none"] /\ reply = [kind |-> "none"]
    /\ pending = {} /\ snapshot = [page |-> 0, count |-> 0, fast |-> FALSE]
    /\ committing = <<>> /\ done = <<>> /\ lost = {}
    /\ requests = 0 /\ stops = 0

ConsoleTask == Gather \/ Decode \/ Handle \/ Enqueued \/ Written \/ PublishErrors
Aggregator == Commit \/ CommitSends \/ ServeQuery
Host == SendKey \/ SendCommand \/ NewInvocation \/ HostReads

Next == Display \/ DisplayForgets \/ ConsoleTask \/ Aggregator \/ Host

Spec == Init /\ [][Next]_vars

(***************************************************************************)
(* Properties.                                                             *)
(***************************************************************************)
In(request, sequence) == \E i \in DOMAIN sequence : Same(sequence[i], request)

\* The display task still has the request of a reservation, or its completion is on its way.
Underway(command) ==
    \/ \E i \in DOMAIN queue : queue[i].seq = command.seq
    \/ job.at = "request" /\ job.request.seq = command.seq
    \/ \E event \in {sink[i] : i \in DOMAIN sink} \cup {events[i] : i \in DOMAIN events} :
           event.kind = "done" /\ event.seq = command.seq

\* Every request a host still waits for is somewhere on its way: on the wire, in the
\* console's hands, reserved with its request in the display task, completed, or
\* answered and not yet read.  None is dropped between the buffers, the reservation,
\* the queue and the completion, whatever older invocations left behind; the one
\* exception is a book whose first page could not be shown.
AnswerOwed ==
    \A request \in host.owed :
        \/ In(request, wire) \/ In(request, rx) \/ In(request, tx)
        \/ con.at \in {"announce", "enqueue"} /\ Same(con.command, request)
        \/ request \in pending /\ Underway(request)
        \/ \E completion \in {done[i] : i \in DOMAIN done} \cup {committing[i] : i \in DOMAIN committing} :
               Same(completion.command, request)
        \/ request \in lost

\* The console drains the completions between its questions to the aggregator, and the
\* aggregator answers none while it waits for room for a completion: the two must not
\* wait for each other.
ConsoleNotStuck ==
    ~ /\ committing # <<>> /\ ~RoomForDone
      /\ con.at \in {"status", "enqueue", "errors"} /\ reply.kind = "none"

\* Once the events have been taken, the page and the page count the console reports are
\* those of the book on the panel, after turns, failures, recoveries, and opens.
SnapshotSettles ==
    job = Idle /\ sink = <<>> /\ events = <<>> /\ book /\ mode = "reading" =>
        snapshot.page = engine.page /\ snapshot.count = PageCount

\* Between two requests the panel shows the page the engine is on, alone: a differential
\* refresh always started from the picture that was there.  What breaks it is a pattern,
\* the notice of a refused sleep, a fault, or a menu request served over a page, and
\* then only until the next refresh of every dot.
PageShown ==
    job = Idle /\ mode = "reading" /\ engine.phase # "fault" /\ ~stray =>
        glass.kind \in {"page", "gray"} /\ glass.page = engine.page

\* The gray overlay, which holds the panel for a second, is never activated while a
\* request waits: a page turn cancels it up to its last strip.
OverlayYields == [][job.at = "overlay" /\ job'.at = "base" => queue = <<>>]_vars

\* Panel, engine and console agree on the page when all has settled.
ReaderAgrees == PageShown /\ SnapshotSettles
=============================================================================
