---------------------------- MODULE StorageOwner ----------------------------
(***************************************************************************)
(* The storage owner: the one task that touches the SD card, its mailbox,  *)
(* the upload affinity, and the tasks that send it requests.               *)
(*                                                                         *)
(* Source: firmware/crates/binbook-fw/src/storage_owner.rs (the mailbox,   *)
(* the pump, the protocol), runtime/storage_owner_task.rs (the loop) and   *)
(* the tasks that runtime.rs spawns.  They share one cooperative executor: *)
(* whatever lies between two awaits is one step here.  A request is a      *)
(* record that names the client it is answered to, and also the task that  *)
(* sent it, which the program does not know.                               *)
(*                                                                         *)
(* The library's scan and scratch-file requests are "scan": requests of    *)
(* the lowest priority that leave the upload alone.                        *)
(***************************************************************************)
EXTENDS Integers, Sequences, SequencesExt

CONSTANTS
    QueueCapacity,  \* STORAGE_QUEUE_CAPACITY: of every channel and the mailbox
    Limit,          \* for each task, how many requests it keeps in flight
    Buffers,        \* for each task, the buffers it lends with its requests
    ReadsAs,        \* for each task, the clients it reads or scans as
    Chunks,         \* writes in an upload
    MaxUploads,     \* bound: no begin is sent once that many uploads began
    MaxFaults,      \* bound: requests that fail on the card
    FaultyKinds     \* kinds of requests that may fail on the card

\* StorageClient, and the tasks that act for the clients.
Client == {"Reader", "State", "Diagnostic", "Library"}
Task == {"display", "refresh", "diagnostic"}

\* Whom each task's uploads are made for.
UploadsAs == [t \in Task |-> CASE t = "display"    -> "State"
                               [] t = "refresh"    -> "Library"
                               [] t = "diagnostic" -> "Diagnostic"]

NoClient == "none"
NoUpload == 0
NoLease == "none"
Kind == {"read", "scan", "begin", "write", "commit", "abort"}
Outcome == {"ok", "Busy", "Stale", "Backend"}

ASSUME ConstantsAssumption ==
    /\ QueueCapacity \in Nat \ {0}
    /\ Limit \in [Task -> Nat]
    /\ Buffers \in [Task -> SUBSET STRING]
    /\ \A t \in Task : NoLease \notin Buffers[t]
    /\ ReadsAs \in [Task -> SUBSET Client]
    /\ Chunks \in Nat \ {0}
    /\ MaxUploads \in Nat
    /\ MaxFaults \in Nat
    /\ FaultyKinds \subseteq Kind

Lease == UNION {Buffers[t] : t \in Task}

\* All that the tasks keep in flight fits into one queue; with the constants of
\* the firmware, exactly: 1 + 1 + 6 = 8.
InFlightFits == Limit["display"] + Limit["refresh"] + Limit["diagnostic"] <= QueueCapacity

\* The clients whose response channels a task receives from, and that no channel has
\* two receivers.
ClientsOf(t) == ReadsAs[t] \cup {UploadsAs[t]}
NoSharedChannel == \A t, u \in Task : t # u => ClientsOf(t) \cap ClientsOf(u) = {}

NoAnswer == [task |-> "display", client |-> "Reader", kind |-> "read",
             lease |-> NoLease, outcome |-> "ok", id |-> NoUpload]

VARIABLES
    requests,     \* STORAGE_REQUEST_CHANNEL
    mailbox,      \* OwnedMailbox::pending
    pc,           \* where the owner task is
    answer,       \* the response it is about to send
    responses,    \* one response channel for each client
    upload,       \* StorageOwnerProtocol::upload
    nextUpload,   \* StorageOwnerProtocol::next_upload
    uploadClient, \* StorageOwner::upload_client
    session,      \* the backend's active_upload is Some
    applied,      \* the chunks that session has written, in their order
    flight,       \* for each task, its requests not yet answered
    holds,        \* for each task, the buffers it has at hand
    awaits,       \* the client whose channel the task receives from
    stage,        \* the task's own upload, as the task sees it
    failed,       \* one of its requests was answered with an error
    sent,         \* chunks the task has sent
    known,        \* the upload id the task was given
    faults,
    published     \* history: the chunks of every committed upload

queues == <<requests, mailbox, pc, answer, responses>>
owner  == <<upload, nextUpload, uploadClient, session, applied>>
tasks  == <<flight, holds, awaits, stage, failed, sent, known>>
vars == <<queues, owner, tasks, faults, published>>

(***************************************************************************)
(* Request::priority: Background, Foreground, PowerSave, Control.          *)
(***************************************************************************)
Priority(r) ==
    CASE r.kind = "scan"  -> 0
      [] r.kind = "abort" -> 3
      [] r.kind \in {"begin", "write", "commit"} /\ r.client = "State" -> 2
      [] OTHER -> 1

\* Mutants of the mailbox: no affinity; the last of equals instead of the first.
EligibleOfAll == DOMAIN mailbox

\* pop, or pop_client while an upload is active.
Eligible ==
    {i \in DOMAIN mailbox :
        uploadClient # NoClient => mailbox[i].client = uploadClient}

NextIndexLatest ==
    CHOOSE i \in Eligible : \A j \in Eligible :
        \/ Priority(mailbox[i]) > Priority(mailbox[j])
        \/ Priority(mailbox[i]) = Priority(mailbox[j]) /\ i >= j

NextIndex ==
    CHOOSE i \in Eligible : \A j \in Eligible :
        \/ Priority(mailbox[i]) > Priority(mailbox[j])
        \/ Priority(mailbox[i]) = Priority(mailbox[j]) /\ i <= j

(***************************************************************************)
(* StorageOwner::execute_owned: one request against the protocol and the   *)
(* backend.  The lease always goes back with the response.                 *)
(***************************************************************************)
AnswerWith(r, outcome, id) ==
    answer' = [task |-> r.task, client |-> r.client, kind |-> r.kind,
               lease |-> r.lease, outcome |-> outcome, id |-> id]

\* The card refuses a request whose kind may fail.
Fails(r) ==
    /\ r.kind \in FaultyKinds
    /\ faults < MaxFaults
    /\ faults' = faults + 1

Works == UNCHANGED faults

Access(r) ==
    /\ r.kind \in {"read", "scan"}
    /\ \/ Works /\ AnswerWith(r, "ok", r.id)
       \/ Fails(r) /\ AnswerWith(r, "Backend", r.id)
    /\ UNCHANGED <<owner, published>>

BeginUpload(r) ==
    /\ r.kind = "begin"
    /\ IF upload # NoUpload
       THEN Works /\ AnswerWith(r, "Busy", r.id) /\ UNCHANGED owner
       ELSE \/ /\ Works
               /\ AnswerWith(r, "ok", nextUpload)
               /\ upload' = nextUpload
               /\ nextUpload' = nextUpload + 1
               /\ uploadClient' = r.client
               /\ session' = TRUE
               /\ applied' = << >>
            \/ Fails(r) /\ AnswerWith(r, "Backend", r.id) /\ UNCHANGED owner
    /\ UNCHANGED published

WriteUpload(r) ==
    /\ r.kind = "write"
    /\ CASE r.id # upload -> Works /\ AnswerWith(r, "Stale", r.id) /\ UNCHANGED owner
         [] r.id = upload /\ ~session ->
                Works /\ AnswerWith(r, "Backend", r.id) /\ UNCHANGED owner
         [] OTHER ->
            \/ /\ Works
               /\ AnswerWith(r, "ok", r.id)
               /\ applied' = Append(applied, r.chunk)
               /\ UNCHANGED <<upload, nextUpload, uploadClient, session>>
            \/ Fails(r) /\ AnswerWith(r, "Backend", r.id) /\ UNCHANGED owner
    /\ UNCHANGED published

\* Size of the file: the end of the farthest chunk.
HasFullSize == \E i \in DOMAIN applied : applied[i] = Chunks

\* The backend takes its session out before anything can fail, and only a
\* success ends the upload for the protocol and for the affinity.
CommitUpload(r) ==
    /\ r.kind = "commit"
    /\ IF r.id # upload
       THEN Works /\ AnswerWith(r, "Stale", r.id) /\ UNCHANGED <<owner, published>>
       ELSE /\ session' = FALSE
            /\ applied' = << >>
            /\ UNCHANGED nextUpload
            /\ \/ /\ session /\ HasFullSize
                  /\ Works
                  /\ AnswerWith(r, "ok", r.id)
                  /\ upload' = NoUpload
                  /\ uploadClient' = NoClient
                  /\ published' = published \cup {applied}
               \/ /\ IF session /\ HasFullSize THEN Fails(r) ELSE Works
                  /\ AnswerWith(r, "Backend", r.id)
                  /\ UNCHANGED <<upload, uploadClient, published>>

AbortUpload(r) ==
    /\ r.kind = "abort"
    /\ IF r.id # upload
       THEN Works /\ AnswerWith(r, "Stale", r.id) /\ UNCHANGED owner
       ELSE /\ session' = FALSE
            /\ applied' = << >>
            /\ UNCHANGED nextUpload
            /\ \/ /\ session
                  /\ Works
                  /\ AnswerWith(r, "ok", r.id)
                  /\ upload' = NoUpload
                  /\ uploadClient' = NoClient
               \/ /\ IF session THEN Fails(r) ELSE Works
                  /\ AnswerWith(r, "Backend", r.id)
                  /\ UNCHANGED <<upload, uploadClient>>
    /\ UNCHANGED published

Perform(r) ==
    \/ Access(r)
    \/ BeginUpload(r)
    \/ WriteUpload(r)
    \/ CommitUpload(r)
    \/ AbortUpload(r)

(***************************************************************************)
(* The loop of mounted_storage_owner_task.                                 *)
(***************************************************************************)
Room == QueueCapacity - Len(mailbox)

\* One receive, then try_receive until the channel is empty.  What does not fit
\* is executed at once; a first request that does not fit is unreachable!().
Collect ==
    /\ pc = "receive"
    /\ requests # << >>
    /\ CASE Room = 0 ->
                pc' = "panic" /\ UNCHANGED <<requests, mailbox>>
         [] Len(requests) <= Room /\ Room > 0 ->
                /\ mailbox' = mailbox \o requests
                /\ requests' = << >>
                /\ pc' = "run"
         [] OTHER ->
                /\ mailbox' = mailbox \o SubSeq(requests, 1, Room)
                /\ requests' = SubSeq(requests, Room + 1, Len(requests))
                /\ pc' = "overflow"
    /\ UNCHANGED <<answer, responses, owner, tasks, faults, published>>

\* execute_immediate: no priority and no affinity.
ExecuteImmediate ==
    /\ pc = "overflow"
    /\ requests # << >>
    /\ Perform(Head(requests))
    /\ requests' = Tail(requests)
    /\ pc' = "routeOverflow"
    /\ UNCHANGED <<mailbox, responses, tasks>>

ExecuteNext ==
    /\ pc = "run"
    /\ IF Eligible = {}
       THEN pc' = "receive" /\ UNCHANGED <<mailbox, answer, owner, faults, published>>
       ELSE /\ Perform(mailbox[NextIndex])
            /\ mailbox' = RemoveAt(mailbox, NextIndex)
            /\ pc' = "route"
    /\ UNCHANGED <<requests, responses, tasks>>

\* Send the response, waiting for room; then try_receive until the channel is
\* empty, where a request that does not fit is unreachable!().
Route ==
    /\ pc \in {"route", "routeOverflow"}
    /\ Len(responses[answer.client]) < QueueCapacity
    /\ responses' = [responses EXCEPT ![answer.client] = Append(@, answer)]
    /\ IF pc = "routeOverflow"
       THEN /\ pc' = IF requests = << >> THEN "run" ELSE "overflow"
            /\ UNCHANGED <<requests, mailbox>>
       ELSE IF Len(requests) <= Room
       THEN /\ mailbox' = mailbox \o requests
            /\ requests' = << >>
            /\ pc' = "run"
       ELSE pc' = "panic" /\ UNCHANGED <<requests, mailbox>>
    /\ answer' = NoAnswer
    /\ UNCHANGED <<owner, tasks, faults, published>>

OwnerStep == Collect \/ ExecuteImmediate \/ ExecuteNext \/ Route

(***************************************************************************)
(* The tasks.                                                              *)
(***************************************************************************)
\* Mutant: the number in flight is not bounded.
SendUnbounded(t, client, kind, lends, chunk) ==
    /\ Len(requests) < QueueCapacity
    /\ lends => holds[t] # {}
    /\ LET lease == IF lends THEN CHOOSE b \in holds[t] : TRUE ELSE NoLease IN
       /\ requests' = Append(requests,
             [task |-> t, client |-> client, kind |-> kind, lease |-> lease,
              id |-> IF kind \in {"write", "commit", "abort"} THEN known[t] ELSE NoUpload,
              chunk |-> chunk])
       /\ holds' = [holds EXCEPT ![t] = @ \ {lease}]
    /\ flight' = [flight EXCEPT ![t] = @ + 1]
    /\ awaits' = [awaits EXCEPT ![t] = client]
    /\ UNCHANGED <<mailbox, pc, answer, responses, owner, faults, published>>

\* STORAGE_REQUEST_CHANNEL.send.  A request for data, or with data, carries one
\* of the task's buffers.
Send(t, client, kind, lends, chunk) ==
    /\ flight[t] < Limit[t]
    /\ Len(requests) < QueueCapacity
    /\ lends => holds[t] # {}
    /\ LET lease == IF lends THEN CHOOSE b \in holds[t] : TRUE ELSE NoLease IN
       /\ requests' = Append(requests,
             [task |-> t, client |-> client, kind |-> kind, lease |-> lease,
              id |-> IF kind \in {"write", "commit", "abort"} THEN known[t] ELSE NoUpload,
              chunk |-> chunk])
       /\ holds' = [holds EXCEPT ![t] = @ \ {lease}]
    /\ flight' = [flight EXCEPT ![t] = @ + 1]
    /\ awaits' = [awaits EXCEPT ![t] = client]
    /\ UNCHANGED <<mailbox, pc, answer, responses, owner, faults, published>>

\* A book page, a metadata file, the index.
Read(t, client) ==
    /\ stage[t] = "none"
    /\ client \in ReadsAs[t]
    /\ Send(t, client, "read", TRUE, 0)
    /\ UNCHANGED <<stage, failed, sent, known>>

\* The refresh's scan steps and scratch file; some carry no buffer.
Scan(lends) ==
    /\ stage["refresh"] = "none"
    /\ Send("refresh", "Library", "scan", lends, 0)
    /\ UNCHANGED <<stage, failed, sent, known>>

\* begin_save, LibraryPublicationClient::begin, begin_open.
Begin(t) ==
    /\ stage[t] = "none" /\ flight[t] = 0
    /\ nextUpload <= MaxUploads
    /\ Send(t, UploadsAs[t], "begin", FALSE, 0)
    /\ stage' = [stage EXCEPT ![t] = "opening"]
    /\ UNCHANGED <<failed, sent, known>>

Write(t) ==
    /\ stage[t] = "open" /\ ~failed[t]
    /\ sent[t] < Chunks
    /\ Send(t, UploadsAs[t], "write", TRUE, sent[t] + 1)
    /\ sent' = [sent EXCEPT ![t] = @ + 1]
    /\ UNCHANGED <<stage, failed, known>>

\* Only once every write is answered, and none with an error.
Commit(t) ==
    /\ stage[t] = "open" /\ ~failed[t]
    /\ sent[t] = Chunks /\ flight[t] = 0
    /\ Send(t, UploadsAs[t], "commit", FALSE, 0)
    /\ stage' = [stage EXCEPT ![t] = "closing"]
    /\ UNCHANGED <<failed, sent, known>>

\* After a failed write or commit; the host of a transfer may abort at any time.
Abort(t) ==
    /\ stage[t] = "open"
    /\ failed[t] \/ t = "diagnostic"
    /\ Send(t, UploadsAs[t], "abort", FALSE, 0)
    /\ stage' = [stage EXCEPT ![t] = "aborting"]
    /\ UNCHANGED <<failed, sent, known>>

\* What the task makes of a response.  One to a request of another task fails
\* the correlation check, which ends the job at hand without a clean-up.
StageAfter(t, r) ==
    CASE r.task # t -> "none"
      [] r.kind = "begin" -> IF r.outcome = "ok" THEN "open" ELSE "none"
      [] r.kind = "commit" -> IF r.outcome = "ok" THEN "none" ELSE "open"
      [] r.kind = "abort" -> "none"
      [] OTHER -> stage[t]

\* Mutant: the buffer is not taken back from a response with an error.
ReceiveOnSuccess(t) ==
    /\ flight[t] > 0
    /\ responses[awaits[t]] # << >>
    /\ LET r == Head(responses[awaits[t]]) IN
       /\ responses' = [responses EXCEPT ![awaits[t]] = Tail(@)]
       /\ holds' = [holds EXCEPT ![t] =
             IF r.outcome = "ok" THEN @ \cup ({r.lease} \ {NoLease}) ELSE @]
       /\ stage' = [stage EXCEPT ![t] = StageAfter(t, r)]
       /\ failed' = [failed EXCEPT ![t] =
             stage'[t] = "open" /\ (@ \/ r.outcome # "ok")]
       /\ sent' = [sent EXCEPT ![t] = IF stage'[t] = "none" THEN 0 ELSE @]
       /\ known' = [known EXCEPT ![t] =
             CASE stage'[t] = "none" -> NoUpload
               [] stage[t] = "opening" /\ stage'[t] = "open" -> r.id
               [] OTHER -> @]
    /\ flight' = [flight EXCEPT ![t] = @ - 1]
    /\ awaits' = [awaits EXCEPT ![t] = IF flight'[t] = 0 THEN UploadsAs[t] ELSE @]
    /\ UNCHANGED <<requests, mailbox, pc, answer, owner, faults, published>>

\* receive() on the channel of the awaited client; the buffer, if any, replaces
\* or joins those at hand before the response is looked at.
Receive(t) ==
    /\ flight[t] > 0
    /\ responses[awaits[t]] # << >>
    /\ LET r == Head(responses[awaits[t]]) IN
       /\ responses' = [responses EXCEPT ![awaits[t]] = Tail(@)]
       /\ holds' = [holds EXCEPT ![t] = @ \cup ({r.lease} \ {NoLease})]
       /\ stage' = [stage EXCEPT ![t] = StageAfter(t, r)]
       /\ failed' = [failed EXCEPT ![t] =
             stage'[t] = "open" /\ (@ \/ r.outcome # "ok")]
       /\ sent' = [sent EXCEPT ![t] = IF stage'[t] = "none" THEN 0 ELSE @]
       /\ known' = [known EXCEPT ![t] =
             CASE stage'[t] = "none" -> NoUpload
               [] stage[t] = "opening" /\ stage'[t] = "open" -> r.id
               [] OTHER -> @]
    /\ flight' = [flight EXCEPT ![t] = @ - 1]
    /\ awaits' = [awaits EXCEPT ![t] = IF flight'[t] = 0 THEN UploadsAs[t] ELSE @]
    /\ UNCHANGED <<requests, mailbox, pc, answer, owner, faults, published>>

Init ==
    /\ requests = << >> /\ mailbox = << >> /\ pc = "receive"
    /\ answer = NoAnswer
    /\ responses = [c \in Client |-> << >>]
    /\ upload = NoUpload /\ nextUpload = 1
    /\ uploadClient = NoClient
    /\ session = FALSE
    /\ applied = << >>
    /\ flight = [t \in Task |-> 0]
    /\ holds = Buffers
    /\ awaits = UploadsAs
    /\ stage = [t \in Task |-> "none"]
    /\ failed = [t \in Task |-> FALSE]
    /\ sent = [t \in Task |-> 0]
    /\ known = [t \in Task |-> NoUpload]
    /\ faults = 0
    /\ published = {}

Next ==
    \/ Collect
    \/ ExecuteImmediate
    \/ ExecuteNext
    \/ Route
    \/ \E t \in Task, c \in Client : Read(t, c)
    \/ \E lends \in BOOLEAN : Scan(lends)
    \/ \E t \in Task : Begin(t)
    \/ \E t \in Task : Write(t)
    \/ \E t \in Task : Commit(t)
    \/ \E t \in Task : Abort(t)
    \/ \E t \in Task : Receive(t)

Spec == Init /\ [][Next]_vars

\* A task that has an upload open carries on with it: the save and the
\* publication are loops, and a transfer that stays idle for a minute is aborted.
CarryOn(t) == Write(t) \/ Commit(t) \/ (failed[t] /\ Abort(t))

\* Every task of the executor that can run does run.
Fairness ==
    /\ WF_vars(OwnerStep)
    /\ \A t \in Task : WF_vars(Receive(t)) /\ WF_vars(CarryOn(t))

FairSpec == Spec /\ Fairness

(***************************************************************************)
(* Properties.                                                             *)
(***************************************************************************)
Request == [task : Task, client : Client, kind : Kind, lease : Lease \cup {NoLease},
            id : Nat, chunk : Nat]
Answer == [task : Task, client : Client, kind : Kind, lease : Lease \cup {NoLease},
           outcome : Outcome, id : Nat]

TypeOK ==
    /\ requests \in Seq(Request) /\ Len(requests) <= QueueCapacity
    /\ mailbox \in Seq(Request) /\ Len(mailbox) <= QueueCapacity
    /\ pc \in {"receive", "overflow", "routeOverflow", "run", "route", "panic"}
    /\ answer \in Answer
    /\ responses \in [Client -> Seq(Answer)]
    /\ upload \in Nat
    /\ nextUpload \in Nat \ {0}
    /\ uploadClient \in Client \cup {NoClient}
    /\ session \in BOOLEAN
    /\ applied \in Seq(Nat)
    /\ flight \in [Task -> Nat]
    /\ holds \in [Task -> SUBSET Lease]
    /\ awaits \in [Task -> Client]
    /\ stage \in [Task -> {"none", "opening", "open", "closing", "aborting"}]
    /\ failed \in [Task -> BOOLEAN]
    /\ sent \in [Task -> Nat]
    /\ known \in [Task -> Nat]
    /\ faults \in Nat
    /\ published \in SUBSET Seq(Nat)

(* The two unreachable!() of the owner loop, and its path around priority  *)
(* and affinity, are never taken: the requests that all tasks together     *)
(* keep in flight always fit into the mailbox.                             *)
MailboxNeverOverflows == pc \notin {"panic", "overflow", "routeOverflow"}

\* What makes it so, for the proof: the requests in flight are those in the queues.
Answers == Len(responses["Reader"]) + Len(responses["State"])
           + Len(responses["Diagnostic"]) + Len(responses["Library"])
Routing == IF pc \in {"route", "routeOverflow"} THEN 1 ELSE 0
Pending == Len(requests) + Len(mailbox) + Routing + Answers
InFlight == flight["display"] + flight["refresh"] + flight["diagnostic"]
CountInv ==
    /\ Pending = InFlight
    /\ \A t \in Task : flight[t] <= Limit[t]
    /\ MailboxNeverOverflows

Sending == IF pc \in {"route", "routeOverflow"} THEN <<answer>> ELSE << >>

OfTask(t, s) == Cardinality({i \in DOMAIN s : s[i].task = t})

(* Every request that a task waits for is in exactly one place, and every  *)
(* response answers one: the owner neither loses nor repeats a request,    *)
(* whatever overtakes, fails or overflows.                                 *)
AnsweredOnce ==
    \A t \in Task :
        flight[t] = OfTask(t, requests) + OfTask(t, mailbox) + OfTask(t, Sending)
                    + OfTask(t, responses["Reader"]) + OfTask(t, responses["State"])
                    + OfTask(t, responses["Diagnostic"]) + OfTask(t, responses["Library"])

(* A task with nothing in flight has its own buffers, and no other's: the  *)
(* .expect("... buffer must be returned") of the clients hold.             *)
BuffersReturned ==
    \A t \in Task : flight[t] = 0 => holds[t] = Buffers[t]

(* While one client uploads, the begin of another waits in the mailbox; it *)
(* is never executed between the chunks and rejected as Busy.              *)
NeverBusy == pc = "route" => answer.outcome # "Busy"

(* The owner serves one client only while some task of that client has an  *)
(* upload under way that can still end.                                    *)
AffinityHasHolder ==
    uploadClient # NoClient =>
        \E t \in Task : UploadsAs[t] = uploadClient /\ stage[t] # "none"

(* The chunks of an upload reach the card in the order they were sent,     *)
(* though a pipeline of requests and two priorities are queued.            *)
WritesInOrder ==
    \A i, j \in DOMAIN applied : i < j => applied[i] < applied[j]

(* What a commit publishes has every chunk: the size alone would not show  *)
(* a hole, but no commit is sent after a chunk has failed.                 *)
PublishedWhole ==
    \A p \in published : \A k \in 1 .. Chunks : \E i \in DOMAIN p : p[i] = k

(* Whatever the others upload, the display task gets its answer: reading   *)
(* a page and saving the reading state never hang.                         *)
DisplayServed == flight["display"] > 0 ~> flight["display"] = 0

(* The traffic settles: no request and no buffer is lost or given twice    *)
(* (storage_owner.rs, and the receivers of its answers).                   *)
RequestsSettle == AnsweredOnce /\ BuffersReturned

(* Four clients upload through one owner and never mix: begins wait, the   *)
(* chunks keep their order, what is published is whole, and the affinity   *)
(* ends with the upload that has it.                                       *)
UploadsApart == NeverBusy /\ WritesInOrder /\ PublishedWhole /\ AffinityHasHolder
============================================================================
