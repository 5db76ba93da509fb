-------------------------- MODULE FlightStreamProofs --------------------------
(***************************************************************************)
(* TLAPS proofs about FlightStream, for every plan, channel capacity and   *)
(* transport window.                                                       *)
(*                                                                         *)
(* The argument: everything between the plan and the client is one         *)
(* contiguous run of numbers.  The client has the messages below Got, the  *)
(* wire holds the next ones, the encoder the ones after those, up to the   *)
(* end of the last batch it has taken; the channel holds the batches after *)
(* that one.                                                               *)
(***************************************************************************)
EXTENDS FlightStream, TLAPS, SequenceTheorems

Flag(b) == IF b THEN 1 ELSE 0

\* Messages the client has taken off the wire, the schema included.
Got == Len(received) + Flag(schemaSeen)

\* Batches the encoder has taken off the channel, while the stream is alive.
Taken == pulled - Len(channel) - Flag(producer = "sending")

ClientInv ==
    /\ \A i \in 1..Len(received) : received[i] = i
    /\ ~schemaSeen => received = <<>>

WireInv == \A i \in 1..Len(wire) : wire[i] = Got + i - 1

EncoderInv == rxOpen => \A i \in 1..Len(encoded) : encoded[i] = Got + Len(wire) + i - 1

ChannelInv ==
    rxOpen => /\ Taken \in 0..BatchCount
              /\ Len(channel) <= Capacity
              /\ \A i \in 1..Len(channel) : channel[i] = Taken + i

CountInv ==
    rxOpen => /\ Got + Len(wire) + Len(encoded) = IF schemaSent THEN Ends[Taken] + 1 ELSE 0
              /\ ~schemaSent => Taken = 0
              /\ Taken >= 1 => Got + Len(wire) >= Ends[Taken - 1] + Flag(Taken > 1)

BoundInv == Got + Len(wire) <= Ends[BatchCount] + 1

ProducerInv ==
    /\ producer = "unspawned" =>
         /\ ~rxOpen /\ ~schemaSent /\ ~schemaSeen /\ pulled = 0 /\ status # "ok"
         /\ channel = <<>> /\ encoded = <<>> /\ wire = <<>> /\ received = <<>>
    /\ producer = "finished" => pulled = BatchCount
    /\ rxOpen => producer \notin {"halted", "unspawned"}

EndInv ==
    /\ status = "ok" =>
         /\ ~rxOpen
         /\ producer \in {"finished", "panicked"}
         /\ channel = <<>> /\ encoded = <<>>
         /\ IF schemaSent THEN Got + Len(wire) = Ends[pulled] + 1
                          ELSE Got + Len(wire) = 0 /\ Ends[pulled] = 0
    /\ client = "ok" => status = "ok" /\ wire = <<>>
    /\ client = "err" => status = "error"

Inv ==
    /\ TypeOK
    /\ ClientInv /\ WireInv /\ EncoderInv /\ ChannelInv /\ CountInv /\ BoundInv
    /\ ProducerInv /\ EndInv

-------------------------------------------------------------------------------
\* Facts about the two derived counters that hold in every well-typed state.
LEMMA CounterTypes == TypeOK => Got \in Nat /\ Taken \in Int
  BY StreamAssumption DEF TypeOK, Got, Taken, Flag

\* The empty sequence, over the sets this module needs.
LEMMA Empty == <<>> \in Seq(Nat) /\ <<>> \in Seq(1..BatchCount) /\ Len(<<>>) = 0
  BY EmptySeq

\* Subtracting one of two equal sums: message numbers and positions.
LEMMA Shift ==
  ASSUME NEW base \in Int, NEW got \in Int, NEW i \in Int, NEW m, got = base + 1, m = base + i
  PROVE  m = got + i - 1
  OBVIOUS

\* What the encoder emits for batch k once the schema is out (Encode).
LEMMA DataEmitted ==
  ASSUME NEW k \in 1..BatchCount
  PROVE  /\ DataMessages(k) \in Seq(Nat)
         /\ Len(DataMessages(k)) = Ends[k] - Ends[k - 1]
         /\ \A i \in 1..Len(DataMessages(k)) : DataMessages(k)[i] = Ends[k - 1] + i
<1>1. Ends[k] - Ends[k - 1] \in Nat /\ Ends[k - 1] \in Nat /\ Ends[k] \in Nat
  BY StreamAssumption
<1> QED
  BY <1>1 DEF DataMessages

\* What it emits for the first batch: the schema goes in front (Encode).
LEMMA SchemaEmitted ==
  ASSUME NEW k \in 1..BatchCount
  PROVE  /\ <<Schema>> \o DataMessages(k) \in Seq(Nat)
         /\ Len(<<Schema>> \o DataMessages(k)) = 1 + Ends[k] - Ends[k - 1]
         /\ \A i \in 1..Len(<<Schema>> \o DataMessages(k)) :
              (<<Schema>> \o DataMessages(k))[i] = IF i = 1 THEN 0 ELSE Ends[k - 1] + i - 1
<1> DEFINE n == Ends[k] - Ends[k - 1]
           out == <<Schema>> \o DataMessages(k)
<1>1. n \in Nat /\ Ends[k - 1] \in Nat /\ Ends[k] \in Nat
  BY StreamAssumption
<1>2. /\ DataMessages(k) \in Seq(Nat) /\ Len(DataMessages(k)) = n
      /\ \A i \in 1..n : DataMessages(k)[i] = Ends[k - 1] + i
  BY DataEmitted
<1>3. <<Schema>> \in Seq(Nat) /\ Len(<<Schema>>) = 1 /\ <<Schema>>[1] = 0
  BY DEF Schema
<1>4. /\ out \in Seq(Nat)
      /\ Len(out) = 1 + n
      /\ \A i \in 1..(1 + n) :
           out[i] = IF i <= 1 THEN <<Schema>>[i] ELSE DataMessages(k)[i - 1]
  BY <1>2, <1>3, ConcatProperties
<1> HIDE DEF out
<1>5. \A i \in 1..(1 + n) : out[i] = IF i = 1 THEN 0 ELSE Ends[k - 1] + i - 1
  <2> TAKE i \in 1..(1 + n)
  <2>1. CASE i = 1
    BY <2>1, <1>3, <1>4
  <2>2. CASE i # 1
    <3>1. i - 1 \in 1..n
      BY <2>2, <1>1
    <3>2. out[i] = DataMessages(k)[i - 1]
      BY <2>2, <1>4, <1>1
    <3> QED
      BY <2>2, <3>1, <3>2, <1>1, <1>2
  <2> QED
    BY <2>1, <2>2
<1>6. Len(out) = 1 + Ends[k] - Ends[k - 1]
  BY <1>1, <1>4
<1> QED
  BY <1>1, <1>4, <1>5, <1>6 DEF out

-------------------------------------------------------------------------------
\* The initial state satisfies the invariant: nothing has been sent yet.
LEMMA InitInv == Init => Inv
<1> SUFFICES ASSUME Init PROVE Inv
  OBVIOUS
<1> USE StreamAssumption, Empty DEF Init
<1>1. TypeOK
  <2>1. channel \in Seq(1..BatchCount) /\ encoded \in Seq(Nat)
    OBVIOUS
  <2>2. wire \in Seq(Nat) /\ received \in Seq(Nat)
    OBVIOUS
  <2>3. /\ request \in Request
        /\ producer \in {"unspawned", "running", "sending"} \cup Terminated
        /\ status \in {"open", "ok", "error"}
        /\ client \in {"reading", "ok", "err", "gone"}
    OBVIOUS
  <2>4. pulled \in 0..BatchCount
    OBVIOUS
  <2>5. rxOpen \in BOOLEAN /\ schemaSent \in BOOLEAN /\ schemaSeen \in BOOLEAN
    OBVIOUS
  <2> QED
    BY <2>1, <2>2, <2>3, <2>4, <2>5 DEF TypeOK
<1>2. ClientInv /\ WireInv /\ EncoderInv /\ ChannelInv /\ CountInv /\ ProducerInv /\ EndInv
  BY DEF ClientInv, WireInv, EncoderInv, ChannelInv, CountInv, ProducerInv, EndInv
<1>3. BoundInv
  BY DEF BoundInv, Got, Flag
<1> QED
  BY <1>1, <1>2, <1>3 DEF Inv

-------------------------------------------------------------------------------
(* One lemma per group of operations. *)

\* The handler's answer to a request (Refuse, Spawn).
LEMMA HandlerStep == Inv /\ Handler => Inv'
<1> SUFFICES ASSUME Inv, Handler PROVE Inv'
  OBVIOUS
<1> USE StreamAssumption, CounterTypes, Empty DEF Inv
<1>1. Got' = Got /\ Taken' = Taken /\ UNCHANGED <<wire, encoded, channel, schemaSent, clientVars>>
  BY DEF Handler, Refuse, Spawn, serverVars, clientVars, Got, Taken, Flag
<1>2. TypeOK'
  BY DEF TypeOK, Handler, Refuse, Spawn, serverVars, clientVars, Terminated
<1>3. ClientInv' /\ WireInv' /\ BoundInv'
  BY <1>1 DEF ClientInv, WireInv, BoundInv, clientVars
<1>4. EncoderInv' /\ ChannelInv' /\ CountInv'
  BY <1>1 DEF EncoderInv, ChannelInv, CountInv, ProducerInv, Handler, Refuse, Spawn, serverVars,
              Got, Taken, Flag
<1>5. ProducerInv' /\ EndInv'
  BY <1>1 DEF ProducerInv, EndInv, Handler, Refuse, Spawn, serverVars, clientVars
<1> QED
  BY <1>2, <1>3, <1>4, <1>5

\* The blocking thread pulls batches, sends them and ends.
LEMMA ThreadStep == Inv /\ (BlockingThread \/ PlanPanics) => Inv'
<1> SUFFICES ASSUME Inv, BlockingThread \/ PlanPanics PROVE Inv'
  OBVIOUS
<1> USE StreamAssumption, CounterTypes, Empty DEF Inv
<1>1. Got' = Got /\ UNCHANGED <<wire, encoded, rxOpen, schemaSent, status, clientVars>>
  BY DEF BlockingThread, Pull, PlanEnds, PlanPanics, Send, SendFails, clientVars, Got
<1>2. rxOpen => Taken' = Taken /\ TypeOK' /\ ChannelInv'
  <2>1. CASE Pull
    BY <2>1 DEF Pull, Taken, Flag, TypeOK, ChannelInv, clientVars, Terminated
  <2>2. CASE PlanEnds \/ PlanPanics \/ SendFails
    BY <2>2 DEF PlanEnds, PlanPanics, SendFails, Taken, Flag, TypeOK, ChannelInv, clientVars,
                Terminated
  <2>3. CASE Send
    <3>1. pulled \in 1..BatchCount
      BY <2>3 DEF Send, TypeOK, ChannelInv, Taken, Flag
    <3>2. /\ channel' \in Seq(1..BatchCount)
          /\ Len(channel') = Len(channel) + 1
          /\ \A i \in 1..Len(channel) : channel'[i] = channel[i]
          /\ channel'[Len(channel) + 1] = pulled
      BY <2>3, <3>1 DEF Send, TypeOK
    <3>3. rxOpen => Taken' = Taken
      BY <2>3, <3>2 DEF Send, Taken, Flag, TypeOK
    <3>4. TypeOK'
      BY <2>3, <3>2 DEF Send, TypeOK, clientVars, Terminated
    <3>5. Taken + Len(channel) + 1 = pulled
      BY <2>3 DEF Send, Taken, Flag, TypeOK
    <3>6. /\ rxOpen /\ Taken \in 0..BatchCount /\ Len(channel) \in Nat
          /\ \A i \in 1..Len(channel) : channel[i] = Taken + i
      BY <2>3 DEF Send, ChannelInv, TypeOK
    <3>7. \A i \in 1..Len(channel') : channel'[i] = Taken' + i
      <4> TAKE i \in 1..Len(channel')
      <4>1. CASE i \in 1..Len(channel)
        BY <4>1, <3>2, <3>3, <3>6
      <4>2. CASE i = Len(channel) + 1
        BY <4>2, <3>1, <3>2, <3>3, <3>5, <3>6
      <4> QED
        BY <4>1, <4>2, <3>2, <3>6
    <3>8. ChannelInv'
      BY <2>3, <3>2, <3>3, <3>6, <3>7, SMTT(20) DEF Send, ChannelInv
    <3> QED
      BY <3>3, <3>4, <3>8
  <2> QED
    BY <2>1, <2>2, <2>3 DEF BlockingThread
<1>3. TypeOK' /\ ChannelInv'
  BY <1>1, <1>2, SMTT(20) DEF TypeOK, ChannelInv, BlockingThread, Pull, PlanEnds, PlanPanics, Send, SendFails,
              clientVars, Terminated
<1>4. ClientInv' /\ WireInv' /\ BoundInv' /\ EncoderInv'
  BY <1>1 DEF ClientInv, WireInv, BoundInv, EncoderInv, clientVars
<1>6. CountInv'
  BY <1>1, <1>2 DEF CountInv
<1>7. ProducerInv' /\ EndInv'
  BY <1>1 DEF ProducerInv, EndInv, BlockingThread, Pull, PlanEnds, PlanPanics, Send, SendFails,
              clientVars, Terminated
<1> QED
  BY <1>3, <1>4, <1>6, <1>7

\* The encoder turns the next batch of the channel into messages.
LEMMA EncodeStep == Inv /\ Encode => Inv'
<1> SUFFICES ASSUME Inv, Encode PROVE Inv'
  OBVIOUS
<1> USE StreamAssumption, CounterTypes, Empty DEF Inv
<1> DEFINE k == Head(channel)
<1>1. /\ rxOpen /\ encoded = <<>> /\ channel # <<>>
      /\ schemaSent' = TRUE
      /\ UNCHANGED <<request, producer, pulled, rxOpen, wire, status, clientVars>>
  BY DEF Encode
<1>2. /\ channel' \in Seq(1..BatchCount)
      /\ Len(channel) >= 1 /\ Len(channel') = Len(channel) - 1
      /\ \A i \in 1..Len(channel') : channel'[i] = channel[i + 1]
      /\ k = channel[1] /\ k \in 1..BatchCount
  BY <1>1, HeadTailProperties DEF Encode, TypeOK
<1>3. Got' = Got /\ Taken' = Taken + 1 /\ k = Taken + 1
  BY <1>1, <1>2 DEF Got, Taken, Flag, clientVars, ChannelInv, TypeOK
<1> HIDE DEF k
<1>4. encoded' = Messages(k, schemaSent) /\ k \in 1..BatchCount
  BY <1>2 DEF Encode, k
<1>5. Taken \in 0..BatchCount /\ Len(wire) \in Nat /\ Got \in Nat
  BY <1>1 DEF ChannelInv, TypeOK
<1>6. /\ k - 1 = Taken /\ k - 1 \in 0..BatchCount /\ k \in 0..BatchCount
      /\ Ends[k] \in Nat /\ Ends[k - 1] \in Nat /\ Ends[k - 1] <= Ends[k]
      /\ Ends[k] <= Ends[BatchCount]
  BY <1>2, <1>3, <1>5
<1>7. encoded' \in Seq(Nat) /\ EncoderInv' /\ CountInv'
  <2>1. CASE schemaSent
    <3>1. /\ encoded' \in Seq(Nat)
          /\ Len(encoded') = Ends[k] - Ends[k - 1]
          /\ \A i \in 1..Len(encoded') : encoded'[i] = Ends[k - 1] + i
      BY <1>4, <2>1, DataEmitted DEF Messages
    <3>2. Got + Len(wire) = Ends[k - 1] + 1
      BY <1>1, <1>5, <1>6, <2>1 DEF CountInv
    <3>3. \A i \in 1..Len(encoded') : encoded'[i] = Got + Len(wire) + i - 1
      <4> DEFINE base == Ends[k - 1]
                 got == Got + Len(wire)
      <4>1. base \in Int /\ got \in Int /\ got = base + 1
        BY <1>5, <1>6, <3>2
      <4>2. \A i \in 1..Len(encoded') : i \in Int /\ encoded'[i] = base + i
        BY <1>6, <3>1
      <4> HIDE DEF base, got
      <4>3. \A i \in 1..Len(encoded') : encoded'[i] = got + i - 1
        BY <4>1, <4>2, Shift
      <4> QED
        BY <4>3 DEF got
    <3>4. EncoderInv'
      BY <1>1, <1>3, <3>3 DEF EncoderInv
    <3>5. CountInv'
      <4>1. Got + Len(wire) + Len(encoded') = Ends[k] + 1
        BY <1>5, <1>6, <3>1, <3>2
      <4>2. Got + Len(wire) >= Ends[k - 1] + Flag(k > 1)
        BY <1>6, <3>2 DEF Flag
      <4> QED
        BY <1>1, <1>3, <1>6, <4>1, <4>2 DEF CountInv
    <3> QED
      BY <3>1, <3>4, <3>5
  <2>2. CASE ~schemaSent
    <3>1. /\ encoded' \in Seq(Nat)
          /\ Len(encoded') = 1 + Ends[k] - Ends[k - 1]
          /\ \A i \in 1..Len(encoded') : encoded'[i] = IF i = 1 THEN 0 ELSE Ends[k - 1] + i - 1
      BY <1>4, <2>2, SchemaEmitted DEF Messages
    <3>2. Got + Len(wire) = 0 /\ k = 1 /\ Ends[k - 1] = 0
      BY <1>1, <1>3, <1>5, <1>6, <2>2 DEF CountInv
    <3>3. \A i \in 1..Len(encoded') : encoded'[i] = Got + Len(wire) + i - 1
      BY <1>5, <1>6, <3>1, <3>2
    <3> QED
      BY <1>1, <1>3, <1>5, <1>6, <3>1, <3>2, <3>3 DEF EncoderInv, CountInv, Flag
  <2> QED
    BY <2>1, <2>2
<1>9. TypeOK'
  BY <1>1, <1>2, <1>7 DEF TypeOK, clientVars
<1>10. ClientInv' /\ WireInv' /\ BoundInv' /\ ProducerInv'
  BY <1>1, <1>3 DEF ClientInv, WireInv, BoundInv, ProducerInv, clientVars
<1>11. ChannelInv'
  <2>1. \A i \in 1..Len(channel') : channel'[i] = Taken' + i
    BY <1>1, <1>2, <1>3, <1>5 DEF ChannelInv
  <2>2. Taken' \in 0..BatchCount /\ Len(channel') <= Capacity
    BY <1>1, <1>2, <1>3, <1>5 DEF ChannelInv
  <2> QED
    BY <2>1, <2>2 DEF ChannelInv
<1>13. EndInv'
  BY <1>1, <1>3 DEF EndInv, clientVars
<1> QED
  BY <1>7, <1>9, <1>10, <1>11, <1>13

\* A message moves from the encoder to the transport.
LEMMA TransmitStep == Inv /\ Transmit => Inv'
<1> SUFFICES ASSUME Inv, Transmit PROVE Inv'
  OBVIOUS
<1> USE StreamAssumption, CounterTypes, Empty DEF Inv
<1>1. /\ rxOpen /\ status = "open" /\ encoded # <<>>
      /\ wire' = Append(wire, Head(encoded)) /\ encoded' = Tail(encoded)
      /\ UNCHANGED <<request, producer, pulled, channel, rxOpen, schemaSent, status, clientVars>>
  BY DEF Transmit
<1>2. /\ encoded' \in Seq(Nat) /\ Len(encoded) >= 1 /\ Len(encoded') = Len(encoded) - 1
      /\ \A i \in 1..Len(encoded') : encoded'[i] = encoded[i + 1]
      /\ Head(encoded) = encoded[1] /\ Head(encoded) \in Nat
  BY <1>1, HeadTailProperties DEF TypeOK
<1>3. /\ wire' \in Seq(Nat) /\ Len(wire') = Len(wire) + 1
      /\ \A i \in 1..Len(wire) : wire'[i] = wire[i]
      /\ wire'[Len(wire) + 1] = encoded[1]
  BY <1>1, <1>2 DEF TypeOK
<1>4. Got' = Got /\ Taken' = Taken /\ Len(wire) \in Nat /\ Got \in Nat
  BY <1>1 DEF Got, Taken, clientVars, TypeOK
<1>5. \A i \in 1..Len(encoded) : encoded[i] = Got + Len(wire) + i - 1
  BY <1>1 DEF EncoderInv
<1>6. TypeOK'
  BY <1>1, <1>2, <1>3 DEF TypeOK, clientVars
<1>7. ClientInv' /\ ChannelInv' /\ ProducerInv'
  BY <1>1, <1>4 DEF ClientInv, ChannelInv, ProducerInv, clientVars
<1>8. WireInv'
  <2> SUFFICES ASSUME NEW i \in 1..Len(wire') PROVE wire'[i] = Got + i - 1
    BY <1>4 DEF WireInv
  <2>1. CASE i \in 1..Len(wire)
    BY <2>1, <1>3 DEF WireInv
  <2>2. CASE i = Len(wire) + 1
    BY <2>2, <1>2, <1>3, <1>4, <1>5
  <2> QED
    BY <2>1, <2>2, <1>3, <1>4
<1>9. EncoderInv'
  BY <1>2, <1>3, <1>4, <1>5 DEF EncoderInv
<1>10. CountInv'
  <2>1. Len(wire') + Len(encoded') = Len(wire) + Len(encoded) /\ Len(encoded) \in Nat
    BY <1>2, <1>3, <1>4 DEF TypeOK
  <2>2. Taken \in 0..BatchCount
    BY <1>1 DEF ChannelInv
  <2>3. Taken >= 1 => Got + Len(wire') >= Ends[Taken - 1] + Flag(Taken > 1)
    <3>1. Taken >= 1 => Got + Len(wire) >= Ends[Taken - 1] + Flag(Taken > 1)
      BY <1>1 DEF CountInv
    <3>2. Taken >= 1 => Ends[Taken - 1] + Flag(Taken > 1) \in Nat
      BY <2>2 DEF Flag
    <3> QED
      BY ONLY <1>3, <1>4, <3>1, <3>2
  <2> QED
    BY <1>1, <1>2, <1>3, <1>4, <2>1, <2>2, <2>3 DEF CountInv
<1>11. BoundInv'
  <2>1. Taken \in 0..BatchCount /\ Ends[Taken] <= Ends[BatchCount] /\ Ends[Taken] \in Nat
    BY <1>1 DEF ChannelInv
  <2>2. Got + Len(wire) + Len(encoded) <= Ends[BatchCount] + 1 /\ Len(encoded) \in Nat
    <3>1. Len(encoded) \in Nat
      BY DEF TypeOK
    <3>2. Got + Len(wire) + Len(encoded) = IF schemaSent THEN Ends[Taken] + 1 ELSE 0
      BY <1>1 DEF CountInv
    <3> QED
      BY <1>4, <2>1, <3>1, <3>2
  <2> QED
    BY <1>2, <1>3, <1>4, <2>2 DEF BoundInv
<1>12. EndInv'
  BY <1>1, <1>4 DEF EndInv, clientVars, TypeOK
<1> QED
  BY <1>6, <1>7, <1>8, <1>9, <1>10, <1>11, <1>12

\* The stream ends, is dropped, or loses its connection.
LEMMA StreamEndStep == Inv /\ (EndOfStream \/ DropStream \/ ConnectionLost) => Inv'
<1> SUFFICES ASSUME Inv, EndOfStream \/ DropStream \/ ConnectionLost PROVE Inv'
  OBVIOUS
<1> USE StreamAssumption, CounterTypes, Empty DEF Inv
<1>1. UNCHANGED <<request, producer, pulled, schemaSent, wire, clientVars>> /\ Got' = Got
  BY DEF EndOfStream, DropStream, ConnectionLost, serverVars, clientVars, Got
<1>2. ClientInv' /\ WireInv' /\ BoundInv'
  BY <1>1 DEF ClientInv, WireInv, BoundInv, clientVars
<1>3. CASE EndOfStream
  <2>1. /\ rxOpen' = FALSE /\ status' = "ok" /\ rxOpen /\ encoded = <<>> /\ channel = <<>>
        /\ UNCHANGED <<channel, encoded>> /\ producer \in {"finished", "panicked"}
    BY <1>3 DEF EndOfStream, ProducerInv, Terminated
  <2>2. TypeOK' /\ EncoderInv' /\ ChannelInv' /\ CountInv' /\ ProducerInv'
    BY <1>1, <2>1 DEF TypeOK, EncoderInv, ChannelInv, CountInv, ProducerInv, clientVars
  <2>3. Taken = pulled
    BY <2>1 DEF Taken, Flag, TypeOK
  <2>4. Got + Len(wire) = IF schemaSent THEN Ends[Taken] + 1 ELSE 0
    BY <2>1 DEF CountInv, TypeOK
  <2>5. IF schemaSent THEN Got + Len(wire) = Ends[pulled] + 1
                      ELSE Got + Len(wire) = 0 /\ Ends[pulled] = 0
    BY <2>1, <2>3, <2>4 DEF CountInv
  <2>6. client \notin {"ok", "err"}
    BY <1>3 DEF EndInv, EndOfStream
  <2>7. EndInv'
    BY <1>1, <2>1, <2>5, <2>6 DEF EndInv, clientVars
  <2> QED
    BY <1>2, <2>2, <2>7
<1>4. CASE DropStream
  <2>1. rxOpen' = FALSE /\ channel' = <<>> /\ encoded' = <<>> /\ status' = status /\ rxOpen
    BY <1>4 DEF DropStream
  <2>2. TypeOK'
    BY <1>1, <2>1 DEF TypeOK, clientVars
  <2>3. EncoderInv' /\ ChannelInv' /\ CountInv' /\ ProducerInv' /\ EndInv'
    BY <1>1, <2>1 DEF EncoderInv, ChannelInv, CountInv, ProducerInv, EndInv, clientVars
  <2> QED
    BY <1>2, <2>2, <2>3
<1>5. CASE ConnectionLost
  <2>1. UNCHANGED <<rxOpen, channel, encoded>> /\ status = "open" /\ status' = "error" /\ Taken' = Taken
    BY <1>5 DEF ConnectionLost, serverVars, Taken
  <2>2. TypeOK' /\ ProducerInv' /\ EndInv'
    BY <1>1, <2>1 DEF TypeOK, ProducerInv, EndInv, clientVars
  <2>3. EncoderInv' /\ ChannelInv' /\ CountInv'
    BY <1>1, <2>1 DEF EncoderInv, ChannelInv, CountInv
  <2> QED
    BY <1>2, <2>2, <2>3
<1> QED
  BY <1>3, <1>4, <1>5

\* The client takes a message: it is the next one in order, and the schema
\* comes first.
LEMMA ReceiveStep == Inv /\ Receive =>
    /\ Inv'
    /\ client' = client
    /\ received' = received \/ (Len(received) < Ends[BatchCount]
                                 /\ received' = Append(received, Len(received) + 1))
<1> SUFFICES ASSUME Inv, Receive
             PROVE  /\ Inv'
                    /\ client' = client
                    /\ received' = received \/ (Len(received) < Ends[BatchCount]
                                                 /\ received' = Append(received, Len(received) + 1))
  OBVIOUS
<1> USE StreamAssumption, CounterTypes, Empty DEF Inv
<1>1. /\ client = "reading" /\ wire # <<>> /\ wire' = Tail(wire)
      /\ UNCHANGED <<request, producer, pulled, channel, rxOpen, schemaSent, encoded, status>>
  BY DEF Receive, serverVars
<1>2. /\ wire' \in Seq(Nat) /\ Len(wire) >= 1 /\ Len(wire') = Len(wire) - 1
      /\ \A i \in 1..Len(wire') : wire'[i] = wire[i + 1]
      /\ Head(wire) = wire[1] /\ Len(wire) \in Nat /\ Len(received) \in Nat
  BY <1>1, HeadTailProperties DEF TypeOK
<1>3. Head(wire) = Got
  BY <1>2 DEF WireInv
<1>4. /\ schemaSeen' = TRUE /\ client' = client /\ Got' = Got + 1
      /\ received' \in Seq(Nat) /\ (\A i \in 1..Len(received') : received'[i] = i)
      /\ received' = received \/ (Len(received) < Ends[BatchCount]
                                   /\ received' = Append(received, Len(received) + 1))
  <2>1. CASE schemaSeen
    <3>1. Got = Len(received) + 1 /\ Head(wire) # Schema
      BY <1>2, <1>3, <2>1 DEF Got, Flag, Schema
    <3>2. received' = Append(received, Len(received) + 1) /\ schemaSeen' = TRUE /\ client' = client
      BY <1>3, <2>1, <3>1 DEF Receive
    <3>3. received' \in Seq(Nat) /\ Len(received') = Len(received) + 1
      BY <1>2, <3>2 DEF TypeOK
    <3>4. \A i \in 1..Len(received') : received'[i] = i
      BY <1>2, <3>2, <3>3, SMTT(20) DEF ClientInv, TypeOK
    <3>5. Got' = Got + 1
      BY <1>2, <3>1, <3>2, <3>3 DEF Got, Flag
    <3>6. Len(received) < Ends[BatchCount]
      BY <1>2, <3>1 DEF BoundInv
    <3> QED
      BY <3>2, <3>3, <3>4, <3>5, <3>6
  <2>2. CASE ~schemaSeen
    <3>1. received = <<>> /\ Got = 0 /\ Head(wire) = Schema
      BY <1>3, <2>2 DEF Got, Flag, ClientInv, Schema
    <3>2. received' = received /\ schemaSeen' = TRUE /\ client' = client
      BY <3>1 DEF Receive
    <3> QED
      BY <3>1, <3>2 DEF Got, Flag, ClientInv, TypeOK
  <2> QED
    BY <2>1, <2>2
<1>5. Got \in Nat /\ Got' + Len(wire') = Got + Len(wire) /\ Taken' = Taken
  BY <1>1, <1>2, <1>4 DEF Taken
<1>6. TypeOK'
  BY <1>1, <1>2, <1>4 DEF TypeOK
<1>7. ClientInv' /\ ChannelInv' /\ BoundInv'
  BY <1>1, <1>4, <1>5 DEF ClientInv, ChannelInv, BoundInv
<1>8. WireInv'
  <2> SUFFICES ASSUME NEW i \in 1..Len(wire') PROVE wire'[i] = Got' + i - 1
    BY DEF WireInv
  <2>1. wire'[i] = wire[i + 1]
    BY <1>2
  <2>2. i + 1 \in 1..Len(wire)
    BY <1>2
  <2>3. wire[i + 1] = Got + (i + 1) - 1
    BY <2>2 DEF WireInv
  <2> QED
    BY <2>1, <2>3, <1>4, <1>5
<1>9. EncoderInv' /\ CountInv'
  BY <1>1, <1>5 DEF EncoderInv, CountInv
<1>10. ProducerInv'
  BY <1>1 DEF ProducerInv
<1>11. EndInv'
  BY <1>1, <1>4, <1>5 DEF EndInv
<1> QED
  BY <1>4, <1>6, <1>7, <1>8, <1>9, <1>10, <1>11

\* The call returns or its caller dies.
LEMMA ReturnStep == Inv /\ (ReturnOk \/ ReturnErr \/ Abandon) => Inv'
<1> SUFFICES ASSUME Inv, ReturnOk \/ ReturnErr \/ Abandon PROVE Inv'
  OBVIOUS
<1> USE DEF Inv
<1>1. /\ UNCHANGED <<request, producer, pulled, channel, rxOpen, schemaSent, encoded, wire, status,
                     schemaSeen, received>>
      /\ client' = "ok" => status = "ok" /\ wire = <<>>
      /\ client' = "err" => status = "error"
      /\ client' \in {"ok", "err", "gone"}
  BY DEF ReturnOk, ReturnErr, Abandon, serverVars
<1>2. Got' = Got /\ Taken' = Taken
  BY <1>1 DEF Got, Taken
<1>3. TypeOK' /\ ClientInv' /\ WireInv' /\ BoundInv' /\ ProducerInv' /\ EndInv'
  BY <1>1, <1>2 DEF TypeOK, ClientInv, WireInv, BoundInv, ProducerInv, EndInv
<1>4. EncoderInv' /\ ChannelInv' /\ CountInv'
  BY <1>1, <1>2 DEF EncoderInv, ChannelInv, CountInv
<1> QED
  BY <1>3, <1>4

\* A stuttering step changes nothing.
LEMMA StutterStep == Inv /\ UNCHANGED vars => Inv'
<1> SUFFICES ASSUME Inv, UNCHANGED vars PROVE Inv'
  OBVIOUS
<1> USE DEF Inv, vars
<1>1. Got' = Got /\ Taken' = Taken
  BY DEF Got, Taken
<1>2. TypeOK' /\ ClientInv' /\ WireInv' /\ BoundInv' /\ ProducerInv' /\ EndInv'
  BY <1>1 DEF TypeOK, ClientInv, WireInv, BoundInv, ProducerInv, EndInv
<1>3. EncoderInv' /\ ChannelInv' /\ CountInv'
  BY <1>1 DEF EncoderInv, ChannelInv, CountInv
<1> QED
  BY <1>2, <1>3

-------------------------------------------------------------------------------
\* The invariant holds of every reachable state of a do_get call.
THEOREM Invariance == Spec => []Inv
<1>1. Inv /\ [Next]_vars => Inv'
  BY HandlerStep, ThreadStep, EncodeStep, TransmitStep, StreamEndStep, ReceiveStep, ReturnStep,
     StutterStep, Zenon
  DEF Next, ResponseStream, Collector
<1> QED
  BY InitInv, <1>1, PTL DEF Spec

\* Every variable of the bridge keeps its type.
THEOREM TypeCorrect == Spec => []TypeOK
<1>1. Inv => TypeOK
  BY DEF Inv
<1> QED
  BY <1>1, Invariance, PTL

\* The vector that Client::do_get collects is always a prefix of the result.
THEOREM Ordered == Spec => []InOrder
<1>1. Inv => InOrder
  BY DEF Inv, ClientInv, InOrder
<1> QED
  BY <1>1, Invariance, PTL

\* The counting argument behind it: sent, drained and collected is all.
LEMMA Counted ==
  Inv /\ status = "ok" /\ wire = <<>> =>
    /\ Len(received) = Ends[pulled]
    /\ producer # "panicked" => Len(received) = Ends[BatchCount]
<1> SUFFICES ASSUME Inv, status = "ok", wire = <<>>
             PROVE  /\ Len(received) = Ends[pulled]
                    /\ producer # "panicked" => Len(received) = Ends[BatchCount]
  OBVIOUS
<1>1. /\ producer \in {"finished", "panicked"} /\ Len(wire) = 0
      /\ producer = "finished" => pulled = BatchCount
  BY Empty DEF Inv, EndInv, ProducerInv
<1>2. Got \in Nat /\ Len(received) \in Nat /\ pulled \in 0..BatchCount /\ Ends[pulled] \in Nat
  BY CounterTypes, StreamAssumption DEF Inv, TypeOK
<1>3. Got = Ends[pulled] + 1 \/ (Got = 0 /\ Ends[pulled] = 0)
  BY <1>1, <1>2 DEF Inv, EndInv
<1>4. Len(received) = Ends[pulled]
  <2>1. CASE schemaSeen
    BY <1>2, <1>3, <2>1 DEF Got, Flag
  <2>2. CASE ~schemaSeen
    BY <1>2, <1>3, <2>2, Empty DEF Got, Flag, Inv, ClientInv
  <2> QED
    BY <2>1, <2>2
<1> QED
  BY <1>1, <1>4

\* Ok from Client::do_get means the whole result, unless the plan panicked.
THEOREM OkIsComplete == Spec => []OkMeansComplete
<1>1. Inv => OkMeansComplete
  BY Counted DEF Inv, EndInv, OkMeansComplete
<1> QED
  BY <1>1, Invariance, PTL

\* Client::do_get fails only when the RPC does, never in its decoder.
THEOREM ErrorsAreStatuses == Spec => []ErrOnlyFromStatus
<1>1. Inv => ErrOnlyFromStatus
  BY DEF Inv, EndInv, ErrOnlyFromStatus
<1> QED
  BY <1>1, Invariance, PTL

\* After a panic Client::do_get returns what the thread had sent, or an error.
THEOREM PartialOkExact == Spec => []PartialOkStopsAtPanic
<1>1. Inv => PartialOkStopsAtPanic
  BY Counted DEF Inv, EndInv, PartialOkStopsAtPanic
<1> QED
  BY <1>1, Invariance, PTL

\* The bounded channel holds the plan back: it is at most Capacity + 2 batches
\* ahead of the transport.
THEOREM Bounded == Spec => []Backpressure
<1>1. Inv => Backpressure
  <2> SUFFICES ASSUME Inv, rxOpen, pulled >= Capacity + 2
               PROVE  Ends[pulled - Capacity - 2] <= Handed
    BY DEF Backpressure
  <2> DEFINE idx == pulled - Capacity - 2
             w == Len(wire)
  <2>1. /\ Got \in Nat /\ Taken \in 0..BatchCount /\ w \in Nat /\ Len(received) \in Nat
        /\ wire \in Seq(Nat) /\ pulled \in Nat /\ Len(channel) \in Nat
    BY CounterTypes DEF Inv, TypeOK, ChannelInv
  <2>2. idx \in 0..BatchCount /\ idx <= Taken - 1 /\ Taken >= 1 /\ Taken - 1 \in 0..BatchCount
    <3>1. Len(channel) <= Capacity /\ Taken >= pulled - Len(channel) - 1
      BY <2>1 DEF Inv, TypeOK, ChannelInv, Taken, Flag
    <3>2. Capacity \in Nat /\ BatchCount \in Nat
      BY StreamAssumption
    <3> HIDE DEF idx
    <3>3. idx = pulled - Capacity - 2 /\ Taken \in 0..BatchCount /\ pulled >= Capacity + 2
      BY <2>1 DEF idx
    <3> QED
      BY ONLY <2>1, <3>1, <3>2, <3>3
  <2>3. Ends[idx] \in Nat /\ Ends[Taken - 1] \in Nat /\ Ends[idx] <= Ends[Taken - 1]
    BY <2>2, StreamAssumption
  <2>4. Handed \in Nat
    BY <2>1 DEF Handed
  <2>5. CASE Taken = 1
    <3>1. Ends[idx] = 0
      BY <2>2, <2>5, StreamAssumption
    <3> QED
      BY <3>1, <2>4
  <2>6. CASE Taken > 1
    <3>1. Got + w >= Ends[Taken - 1] + 1
      BY <2>2, <2>6 DEF Inv, CountInv, Flag
    <3>2. CASE wire = <<>>
      <4>1. w = 0 /\ Handed = Len(received)
        BY <3>2, Empty DEF Handed
      <4>2. Got <= Len(received) + 1
        BY <2>1 DEF Got, Flag
      <4> QED
        BY <2>1, <2>3, <3>1, <4>1, <4>2
    <3>3. CASE wire # <<>>
      <4>1. w \in 1..w
        BY <3>3, <2>1, EmptySeq
      <4>2. wire[w] = Got + w - 1
        BY <4>1 DEF Inv, WireInv
      <4>3. CASE wire[w] # Schema
        <5>1. Handed = wire[w]
          BY <3>3, <4>3 DEF Handed
        <5> QED
          BY <5>1, <2>1, <2>3, <3>1, <4>2
      <4>4. CASE wire[w] = Schema
        BY <4>4, <2>1, <2>3, <2>4, <3>1, <4>2 DEF Schema
      <4> QED
        BY <4>3, <4>4
    <3> QED
      BY <3>2, <3>3
  <2> QED
    BY <2>1, <2>2, <2>5, <2>6
<1> QED
  BY <1>1, Invariance, PTL

\* The do_get bridge implements the promise of ResultStream.
THEOREM Refinement == Spec => KeepsPromise
<1>1. Init => Promise!Init
  BY DEF Init, Promise!Init
<1>2. Inv /\ [Next]_vars => [Promise!Next]_(Promise!vars)
  <2> SUFFICES ASSUME Inv, [Next]_vars PROVE [Promise!Next]_(Promise!vars)
    OBVIOUS
  <2>1. CASE Handler \/ BlockingThread \/ ResponseStream \/ ConnectionLost \/ UNCHANGED vars
    BY <2>1 DEF Handler, Refuse, Spawn, BlockingThread, Pull, PlanEnds, Send, SendFails,
                ResponseStream, Encode, Transmit, EndOfStream, DropStream, ConnectionLost,
                serverVars, clientVars, vars, Promise!vars
  <2>2. CASE PlanPanics
    BY <2>2 DEF PlanPanics, clientVars, Promise!Next, Promise!Fault
  <2>3. CASE Receive
    <3>1. /\ client = "reading" /\ client' = client /\ producer' = producer
          /\ received' = received \/ (Len(received) < Ends[BatchCount]
                                       /\ received' = Append(received, Len(received) + 1))
      BY <2>3, ReceiveStep DEF Receive, serverVars
    <3> QED
      BY <3>1 DEF Promise!Next, Promise!Deliver, Promise!vars
  <2>4. CASE ReturnOk
    <3>1. /\ client = "reading" /\ client' = "ok"
          /\ UNCHANGED <<received, producer>>
      BY <2>4 DEF ReturnOk, serverVars
    <3>2. producer # "panicked" => Len(received) = Ends[BatchCount]
      BY <2>4, Counted DEF ReturnOk
    <3> QED
      BY <3>1, <3>2 DEF Promise!Next, Promise!Finish
  <2>5. CASE ReturnErr
    BY <2>5 DEF ReturnErr, serverVars, Promise!Next, Promise!Fail
  <2>6. CASE Abandon
    BY <2>6 DEF Abandon, serverVars, Promise!Next, Promise!Leave
  <2> QED
    BY <2>1, <2>2, <2>3, <2>4, <2>5, <2>6 DEF Next, Collector
<1> QED
  BY <1>1, <1>2, Invariance, PTL DEF Spec, KeepsPromise, Promise!Spec
===============================================================================
