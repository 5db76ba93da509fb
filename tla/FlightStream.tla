----------------------------- MODULE FlightStream -----------------------------
(***************************************************************************)
(* One `do_get` call, from `Client::do_get` through the Flight server's    *)
(* sync-to-async bridge and back:                                          *)
(*                                                                         *)
(*   blocking thread --channel(4)--> encoder --gRPC--> collecting client   *)
(*                                                                         *)
(* The blocking thread pulls batches from the plan's iterator and          *)
(* `blocking_send`s them; the encoder turns a batch into Flight messages   *)
(* (the schema before the first batch, then its data messages); the client *)
(* collects decoded batches until the stream ends.                         *)
(*                                                                         *)
(* Data are numbers.  The k-th batch of the plan is k.  Data messages are  *)
(* numbered from 1 over the whole result and the schema message is 0, so   *)
(* what goes over the wire is 0, 1, 2, ... when nothing is lost, repeated  *)
(* or reordered.  A batch may need several data messages (large ones are   *)
(* split) or none (a batch without rows).                                  *)
(***************************************************************************)
EXTENDS Integers, Sequences

CONSTANTS BatchCount, \* batches the plan yields when it does not panic
          Ends,       \* Ends[k]: data messages that the first k batches need
          Capacity,   \* of the mpsc channel, 4 in the code
          Window      \* messages gRPC buffers between server and client

ASSUME StreamAssumption ==
    /\ BatchCount \in Nat
    /\ Capacity \in Nat \ {0}
    /\ Window \in Nat \ {0}
    /\ Ends \in [0..BatchCount -> Nat]
    /\ Ends[0] = 0
    /\ \A i, k \in 0..BatchCount : i <= k => Ends[i] <= Ends[k]

VARIABLES request,    \* the decoded Action: which payloads it carries
          producer,   \* the blocking thread
          pulled,     \* batches it has taken from the plan's iterator
          channel,    \* batches in the mpsc channel
          rxOpen,     \* the response stream, owner of the receiver, is alive
          schemaSent, \* the encoder has emitted the schema message
          encoded,    \* messages queued inside the encoder
          wire,       \* messages in flight to the client
          status,     \* gRPC status of the response: open, ok or error
          client,     \* the caller of Client::do_get
          schemaSeen, \* the client's decoder has the schema
          received    \* the data messages the client has decoded

serverVars == <<producer, pulled, channel, rxOpen, schemaSent, encoded>>
clientVars == <<client, schemaSeen, received>>
vars == <<request, producer, pulled, channel, rxOpen, schemaSent, encoded,
          wire, status, client, schemaSeen, received>>

Schema == 0
PayloadState == {"absent", "valid", "malformed"}
Request == [decodable : BOOLEAN, task : PayloadState, query : PayloadState]

\* `task` takes precedence over `query`; "absent" when neither is set.
Payload(r) == IF r.task # "absent" THEN r.task ELSE r.query

\* Mutant: a panicking thread does not drop its sender.
Terminated_PanicLeaks == {"finished", "halted"}

Terminated == {"finished", "halted", "panicked"}

Init ==
    /\ request \in Request
    /\ producer = "unspawned"
    /\ pulled = 0
    /\ channel = <<>>
    /\ rxOpen = FALSE
    /\ schemaSent = FALSE
    /\ encoded = <<>>
    /\ wire = <<>>
    /\ status = "open"
    /\ client = "reading"
    /\ schemaSeen = FALSE
    /\ received = <<>>

-------------------------------------------------------------------------------
(* The handler. *)

\* The ticket does not decode, carries no payload (invalid_argument), or its
\* payload makes deserialize_task / deserialize_logical_plan panic.
Refuse ==
    /\ producer = "unspawned"
    /\ status = "open"
    /\ ~request.decodable \/ Payload(request) # "valid"
    /\ status' = "error"
    /\ UNCHANGED <<request, serverVars, wire, clientVars>>

\* Channel created, blocking thread spawned, response stream returned.
Spawn ==
    /\ producer = "unspawned"
    /\ status = "open"
    /\ request.decodable /\ Payload(request) = "valid"
    /\ producer' = "running"
    /\ rxOpen' = TRUE
    /\ UNCHANGED <<request, pulled, channel, schemaSent, encoded, wire, status,
                   clientVars>>

-------------------------------------------------------------------------------
(* The blocking thread. *)

\* Mutant: the iterator is polled after it has returned None.
Pull_PastEnd ==
    /\ producer = "running"
    /\ pulled' = pulled + 1
    /\ producer' = "sending"
    /\ UNCHANGED <<request, channel, rxOpen, schemaSent, encoded, wire, status,
                   clientVars>>

Pull ==
    /\ producer = "running"
    /\ pulled < BatchCount
    /\ pulled' = pulled + 1
    /\ producer' = "sending"
    /\ UNCHANGED <<request, channel, rxOpen, schemaSent, encoded, wire, status,
                   clientVars>>

PlanEnds ==
    /\ producer = "running"
    /\ pulled = BatchCount
    /\ producer' = "finished"
    /\ UNCHANGED <<request, pulled, channel, rxOpen, schemaSent, encoded, wire,
                   status, clientVars>>

\* A panic inside plan.execute or its iterator unwinds the closure and drops
\* the sender; the JoinHandle was never awaited, so nobody sees the panic.
PlanPanics ==
    /\ producer = "running"
    /\ producer' = "panicked"
    /\ UNCHANGED <<request, pulled, channel, rxOpen, schemaSent, encoded, wire,
                   status, clientVars>>

\* Mutant: an unbounded channel.
Send_Unbounded ==
    /\ producer = "sending"
    /\ rxOpen
    /\ channel' = Append(channel, pulled)
    /\ producer' = "running"
    /\ UNCHANGED <<request, pulled, rxOpen, schemaSent, encoded, wire, status,
                   clientVars>>

\* Mutant: a stack in place of a queue.
Send_OnTop ==
    /\ producer = "sending"
    /\ rxOpen
    /\ Len(channel) < Capacity
    /\ channel' = <<pulled>> \o channel
    /\ producer' = "running"
    /\ UNCHANGED <<request, pulled, rxOpen, schemaSent, encoded, wire, status,
                   clientVars>>

\* blocking_send waits while the channel is full.
Send ==
    /\ producer = "sending"
    /\ rxOpen
    /\ Len(channel) < Capacity
    /\ channel' = Append(channel, pulled)
    /\ producer' = "running"
    /\ UNCHANGED <<request, pulled, rxOpen, schemaSent, encoded, wire, status,
                   clientVars>>

\* Mutant: a failed send is tried again.
SendFails_Retries ==
    /\ producer = "sending"
    /\ ~rxOpen
    /\ UNCHANGED vars

\* The receiver is gone: blocking_send fails, also one that was waiting.
SendFails ==
    /\ producer = "sending"
    /\ ~rxOpen
    /\ producer' = "halted"
    /\ UNCHANGED <<request, pulled, channel, rxOpen, schemaSent, encoded, wire,
                   status, clientVars>>

-------------------------------------------------------------------------------
(* The response stream: receiver, encoder, and what tonic does with it. *)

DataMessages(k) == [i \in 1..(Ends[k] - Ends[k - 1]) |-> Ends[k - 1] + i]

\* Mutant: the schema is left out.
Messages_NoSchema(k, sent) == DataMessages(k)

\* The schema goes before the first batch.
Messages(k, sent) == IF sent THEN DataMessages(k) ELSE <<Schema>> \o DataMessages(k)

\* The encoder asks for a batch only when its own queue is empty.
Encode ==
    /\ rxOpen
    /\ encoded = <<>>
    /\ channel # <<>>
    /\ encoded' = Messages(Head(channel), schemaSent)
    /\ schemaSent' = TRUE
    /\ channel' = Tail(channel)
    /\ UNCHANGED <<request, producer, pulled, rxOpen, wire, status, clientVars>>

Transmit ==
    /\ rxOpen
    /\ status = "open"
    /\ encoded # <<>>
    /\ Len(wire) < Window
    /\ wire' = Append(wire, Head(encoded))
    /\ encoded' = Tail(encoded)
    /\ UNCHANGED <<request, producer, pulled, channel, rxOpen, schemaSent,
                   status, clientVars>>

\* Mutant: the end of the thread ends the stream, whatever the channel holds.
EndOfStream_Undrained ==
    /\ rxOpen
    /\ status = "open"
    /\ encoded = <<>>
    /\ producer \in Terminated
    /\ status' = "ok"
    /\ rxOpen' = FALSE
    /\ UNCHANGED <<request, producer, pulled, channel, schemaSent, encoded, wire,
                   clientVars>>

\* Mutant: a panic of the thread ends the stream, whatever the channel holds.
EndOfStream_PanicCuts ==
    /\ rxOpen
    /\ status = "open"
    /\ encoded = <<>>
    /\ channel = <<>> \/ producer = "panicked"
    /\ producer \in Terminated
    /\ status' = "ok"
    /\ rxOpen' = FALSE
    /\ UNCHANGED <<request, producer, pulled, channel, schemaSent, encoded, wire,
                   clientVars>>

\* Sender dropped and channel drained: the stream yields None, which gRPC
\* reports as success however the blocking thread ended.
EndOfStream ==
    /\ rxOpen
    /\ status = "open"
    /\ encoded = <<>> /\ channel = <<>>
    /\ producer \in Terminated
    /\ status' = "ok"
    /\ rxOpen' = FALSE
    /\ UNCHANGED <<request, producer, pulled, channel, schemaSent, encoded, wire,
                   clientVars>>

\* tonic notices that nobody reads the response any more and drops the stream.
DropStream ==
    /\ rxOpen
    /\ status = "error" \/ client = "gone"
    /\ rxOpen' = FALSE
    /\ channel' = <<>>
    /\ encoded' = <<>>
    /\ UNCHANGED <<request, producer, pulled, schemaSent, wire, status, clientVars>>

ConnectionLost ==
    /\ status = "open"
    /\ status' = "error"
    /\ UNCHANGED <<request, serverVars, wire, clientVars>>

-------------------------------------------------------------------------------
(* The client: batches.push(batch_result?) until the stream ends. *)

Receive ==
    /\ client = "reading"
    /\ wire # <<>>
    /\ wire' = Tail(wire)
    /\ schemaSeen' = (schemaSeen \/ Head(wire) = Schema)
    /\ received' = IF Head(wire) = Schema THEN received
                   ELSE Append(received, Head(wire))
    \* the decoder refuses data that no schema precedes
    /\ client' = IF schemaSeen' THEN client ELSE "err"
    /\ UNCHANGED <<request, serverVars, status>>

\* Mutant: the end of the call is taken for the end of the stream.
ReturnOk_Undrained ==
    /\ client = "reading"
    /\ status = "ok"
    /\ client' = "ok"
    /\ UNCHANGED <<request, serverVars, wire, status, schemaSeen, received>>

ReturnOk ==
    /\ client = "reading"
    /\ status = "ok"
    /\ wire = <<>>
    /\ client' = "ok"
    /\ UNCHANGED <<request, serverVars, wire, status, schemaSeen, received>>

\* The error may be seen before the messages already in flight.
ReturnErr ==
    /\ client = "reading"
    /\ status = "error"
    /\ client' = "err"
    /\ UNCHANGED <<request, serverVars, wire, status, schemaSeen, received>>

\* The calling process dies in the middle of the call.
Abandon ==
    /\ client = "reading"
    /\ client' = "gone"
    /\ UNCHANGED <<request, serverVars, wire, status, schemaSeen, received>>

-------------------------------------------------------------------------------

Handler == Refuse \/ Spawn
BlockingThread == Pull \/ PlanEnds \/ Send \/ SendFails
ResponseStream == Encode \/ Transmit \/ EndOfStream \/ DropStream
Collector == Receive \/ ReturnOk \/ ReturnErr

Next ==
    \/ Handler
    \/ BlockingThread
    \/ PlanPanics
    \/ ResponseStream
    \/ ConnectionLost
    \/ Collector
    \/ Abandon

\* Every party keeps running; panics, lost connections and departing clients
\* may or may not happen.  A plan's iterator is finite.
Fairness ==
    /\ WF_vars(Handler)
    /\ WF_vars(BlockingThread)
    /\ WF_vars(ResponseStream)
    /\ WF_vars(Collector)

Spec == Init /\ [][Next]_vars
FairSpec == Spec /\ Fairness

-------------------------------------------------------------------------------
(* Properties. *)

TypeOK ==
    /\ request \in Request
    /\ producer \in {"unspawned", "running", "sending"} \cup Terminated
    /\ pulled \in 0..BatchCount
    /\ channel \in Seq(1..BatchCount)
    /\ rxOpen \in BOOLEAN
    /\ schemaSent \in BOOLEAN
    /\ encoded \in Seq(Nat)
    /\ wire \in Seq(Nat)
    /\ status \in {"open", "ok", "error"}
    /\ client \in {"reading", "ok", "err", "gone"}
    /\ schemaSeen \in BOOLEAN
    /\ received \in Seq(Nat)

\* What the client has collected is the beginning of the result: no data
\* message is lost, repeated or overtaken on its way through the channel, the
\* encoder and gRPC (do_get, Client::do_get).
InOrder == \A i \in 1..Len(received) : received[i] = i

\* When Client::do_get returns Ok and the plan did not panic, the vector it
\* returns is the whole result.
OkMeansComplete ==
    client = "ok" /\ producer # "panicked" => Len(received) = Ends[BatchCount]

\* The only errors Client::do_get reports are statuses of the RPC: the client's
\* decoder never sees data before the schema.
ErrOnlyFromStatus == client = "err" => status = "error"

\* Highest data message handed to the transport so far.
Handed ==
    IF wire # <<>> /\ wire[Len(wire)] # Schema THEN wire[Len(wire)] ELSE Len(received)

\* Backpressure: while the response stream is alive the plan is never more than
\* Capacity + 2 batches ahead of what the transport has accepted (a full channel,
\* the batch blocked in blocking_send, the batch inside the encoder), however
\* slowly the client reads.
Backpressure ==
    rxOpen /\ pulled >= Capacity + 2 => Ends[pulled - Capacity - 2] <= Handed

\* When Client::do_get returns Ok after a panic of the plan, what it returns is
\* every batch the thread had handed over, the ones still on their way at the
\* moment of the panic included: a partial answer stops where the plan stopped.
PartialOkStopsAtPanic ==
    client = "ok" /\ producer = "panicked" => Len(received) = Ends[pulled]

\* Every call of Client::do_get returns (or its caller dies).
CallReturns == <>(client # "reading")

\* The blocking thread always ends: a slow, failed or vanished client cannot
\* leave it waiting in blocking_send ("clean shutdown").
ThreadReleased == (producer # "unspawned") ~> (producer \in Terminated)

\* The call keeps the promise of ResultStream.
Promise == INSTANCE ResultStream WITH
    Total <- Ends[BatchCount],
    outcome <- IF client = "reading" THEN "open" ELSE client,
    faulted <- (producer = "panicked")

KeepsPromise == Promise!Spec
===============================================================================
