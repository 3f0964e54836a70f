--------------------------- MODULE EndpointProofs ---------------------------
(***************************************************************************)
(* The camera and touch endpoints, each between a caller and a channel's   *)
(* own thread, for queues, tables and runs of any length.                  *)
(***************************************************************************)
EXTENDS Camera, Touch, TLAPS, SequenceTheorems, FiniteSetTheorems

-----------------------------------------------------------------------------
(* The camera.  Only a stream has anything metered, and while a keyframe   *)
(* is awaited nothing waits; a stream needs a channel.                     *)
Quiet == /\ device = "none" => ~ streaming
         /\ ~ streaming => credits = 0 /\ pending = <<>>
         /\ awaiting => streaming /\ pending = <<>>
         /\ requested <= MaxRequest

(* What waits can be decoded one after the other, *)
Chained == \A i \in 2 .. Len(pending) : Continues(pending[i], pending[i - 1].n)

(* and after what the host got; *)
Begun == pending # <<>> /\ device = "open" => Continues(pending[1], delivered)

(* and unless a keyframe is awaited the last sample offered is the last of *)
(* those that wait, or if none waits the last the host got.                *)
UpToDate ==
  streaming /\ ~ awaiting
    => /\ offered # 0
       /\ pending = <<>> /\ device = "open" => delivered = offered
       /\ pending # <<>> => pending[Len(pending)].n = offered

(* The embedder was told, or is about to be. *)
ToldOrEmitted ==
  ~ withdrawn => (streaming <=> (IF emit = "none" THEN told ELSE emit) = "started")

(* The host was shown what was announced on this enumeration channel. *)
AnnouncedIsShown ==
  /\ announced => plugged
  /\ enumerator = "none" => ~ enumReady /\ ~ announced
  /\ enumerator = "open" => /\ shown <=> announced
                            /\ enumReady /\ plugged => announced

Decoding == Chained /\ Begun /\ UpToDate /\ Decodable

CameraInv == /\ TypeOK /\ Quiet /\ NoIdleCredit /\ Metered /\ Decoding
             /\ ToldOrEmitted /\ AnnouncedIsShown

(* The steps that leave the stream and its account alone, *)
Aside == \/ Plug \/ OpenEnumerator \/ SelectVersion \/ CloseEnumerator
         \/ OpenDevice \/ Refuse \/ Emit

(* and those that end a stream. *)
Stopping == Unplug \/ StopStreams \/ CloseDevice \/ Terminate

LEMMA CameraSteps ==
  Next => Aside \/ Stopping \/ StartStreams \/ SampleRequest
            \/ \E key \in BOOLEAN : Offer(key)
BY DEF Next, Aside, Stopping

LEMMA AsideKeepsStream ==
  ASSUME Aside
  PROVE  /\ UNCHANGED <<streaming, credits, pending, awaiting, offered,
                        delivered, garbled, requested, answered>>
         /\ \/ UNCHANGED device
            \/ device = "none" /\ device' = "open"
            \/ device = "open" /\ device' = "closing"
BY DEF Aside, Plug, OpenEnumerator, SelectVersion, CloseEnumerator, OpenDevice,
       Refuse, Emit, enumeration, stream, embedder, account

LEMMA StoppingForgets ==
  ASSUME Stopping
  PROVE  /\ ~ streaming' /\ credits' = 0 /\ pending' = <<>> /\ ~ awaiting'
         /\ UNCHANGED <<offered, delivered, garbled, requested, answered>>
         /\ device' \in {device, "none"}
BY DEF Stopping, Unplug, StopStreams, CloseDevice, Terminate, StopStream, Forget,
       enumeration, account

(* What a sample meets: nobody, a request, a place in the queue, or none.  *)
LEMMA OfferCases ==
  ASSUME TypeOK, NEW key \in BOOLEAN, Offer(key)
  PROVE  LET s == [n |-> offered + 1, key |-> key]
         IN  /\ s \in Sample /\ s.n = offered + 1 /\ s.key = key
             /\ offered' = offered + 1 /\ offered < MaxOffer
             /\ UNCHANGED <<enumeration, device, streaming, embedder>>
             /\ \/ /\ ~ streaming \/ (awaiting /\ ~ key)
                   /\ UNCHANGED <<credits, pending, awaiting, account>>
                \/ /\ streaming /\ (awaiting => key)
                   /\ SendNow(s) \/ Queue(s) \/ Overflow(s)
<1>1. offered \in Nat
  BY CameraAssumption DEF TypeOK, CameraAssumption
<1>2. [n |-> offered + 1, key |-> key] \in Sample
  BY <1>1 DEF Sample
<1> QED  BY <1>2 DEF Offer, TypeOK

(* A request takes the oldest samples there are credits for.               *)
LEMMA RequestSends ==
  ASSUME TypeOK, SampleRequest
  PROVE  LET sent == IF credits + 1 < Len(pending) THEN credits + 1 ELSE Len(pending)
         IN  /\ sent \in 0 .. Len(pending) /\ sent <= credits + 1
             /\ credits' = credits + 1 - sent
             /\ pending' \in Seq(Sample) /\ Len(pending') = Len(pending) - sent
             /\ \A i \in 1 .. Len(pending') : pending'[i] = pending[i + sent]
             /\ SubSeq(pending, 1, sent) \in Seq(Sample)
             /\ Len(SubSeq(pending, 1, sent)) = sent
             /\ \A i \in 1 .. sent : SubSeq(pending, 1, sent)[i] = pending[i]
             /\ Write(SubSeq(pending, 1, sent))
<1> DEFINE sent == IF credits + 1 < Len(pending) THEN credits + 1 ELSE Len(pending)
<1>1. /\ credits \in Nat /\ pending \in Seq(Sample) /\ Len(pending) \in Nat
      /\ \A i \in 1 .. Len(pending) : pending[i] \in Sample
  BY CameraAssumption, ElementOfSeq, LenProperties DEF TypeOK, CameraAssumption
<1>2. sent \in 0 .. Len(pending) /\ sent <= credits + 1
  BY <1>1
<1>3. /\ credits' = credits + 1 - sent
      /\ pending' = SubSeq(pending, sent + 1, Len(pending))
      /\ Write(SubSeq(pending, 1, sent))
  BY DEF SampleRequest
<1> HIDE DEF sent
<1>4. /\ pending' \in Seq(Sample) /\ Len(pending') = Len(pending) - sent
      /\ \A i \in 1 .. Len(pending) - sent : pending'[i] = pending[sent + 1 + i - 1]
  BY <1>1, <1>2, <1>3, SubSeqProperties
<1>5. \A i \in 1 .. Len(pending') : pending'[i] = pending[i + sent]
  BY <1>1, <1>2, <1>4
<1>6. /\ SubSeq(pending, 1, sent) \in Seq(Sample)
      /\ Len(SubSeq(pending, 1, sent)) = sent
      /\ \A i \in 1 .. sent : SubSeq(pending, 1, sent)[i] = pending[i]
  BY <1>1, <1>2, SubSeqProperties
<1> QED  BY <1>2, <1>3, <1>4, <1>5, <1>6 DEF sent

(* What is written is answered, as long as the channel takes it, *)
LEMMA WriteAnswers ==
  ASSUME answered \in Nat, NEW ss \in Seq(Sample), Write(ss)
  PROVE  answered' = answered + (IF device = "open" THEN Len(ss) ELSE 0)
<1>1. Len(ss) \in Nat /\ Len(<<>>) = 0
  BY LenProperties, EmptySeq
<1>2. CASE ss # <<>> /\ device = "open"
  <2>1. answered' = answered + Len(ss)
    BY <1>2, Zenon DEF Write
  <2> QED  BY <1>2, <2>1
<1>3. CASE ~ (ss # <<>> /\ device = "open")
  <2>1. answered' = answered
    BY <1>3, Zenon DEF Write
  <2>2. device = "open" => Len(ss) = 0
    BY <1>1, <1>3
  <2> QED  BY <1>1, <2>1, <2>2
<1> QED  BY <1>2, <1>3

(* and decoded, if each sample goes on from the one before. *)
LEMMA WriteDecodes ==
  ASSUME NEW ss, Write(ss)
  PROVE  /\ ss # <<>> /\ device = "open" => delivered' = ss[Len(ss)].n
         /\ ss = <<>> \/ device # "open" => UNCHANGED <<delivered, garbled>>
         /\ /\ ss # <<>> /\ device = "open" => Continues(ss[1], delivered)
            /\ \A i \in 2 .. Len(ss) : Continues(ss[i], ss[i - 1].n)
            /\ ~ garbled
            => ~ garbled'
BY Zenon DEF Write

LEMMA WriteTypes ==
  ASSUME delivered \in Nat, garbled \in BOOLEAN, NEW ss \in Seq(Sample), Write(ss)
  PROVE  delivered' \in Nat /\ garbled' \in BOOLEAN
<1>1. CASE ss # <<>> /\ device = "open"
  <2>1. ss[Len(ss)] \in Sample
    BY <1>1, LenProperties, EmptySeq, ElementOfSeq
  <2>2. delivered' = ss[Len(ss)].n
    BY <1>1, WriteDecodes
  <2>3. delivered' \in Nat
    BY <2>1, <2>2 DEF Sample
  <2>4. garbled' \in BOOLEAN
    BY <1>1 DEF Write, Continues
  <2> QED  BY <2>3, <2>4
<1>2. CASE ~ (ss # <<>> /\ device = "open")
  BY <1>2, WriteDecodes
<1> QED  BY <1>1, <1>2

-----------------------------------------------------------------------------
LEMMA QuietStep ==
  TypeOK /\ Quiet /\ [Next]_vars => Quiet'
<1> SUFFICES ASSUME TypeOK, Quiet, [Next]_vars PROVE Quiet'
  OBVIOUS
<1> USE DEF Quiet
<1>0. /\ MaxRequest \in Nat /\ requested \in Nat /\ credits \in Nat
      /\ pending \in Seq(Sample)
  BY CameraAssumption DEF TypeOK, CameraAssumption
<1>1. CASE Aside
  BY <1>1, AsideKeepsStream
<1>2. CASE Stopping
  BY <1>2, StoppingForgets
<1>3. CASE StartStreams
  BY <1>3, <1>0 DEF StartStreams, Forget
<1>4. CASE SampleRequest
  <2>1. awaiting => pending' = <<>>
    BY <1>0, <1>4, RequestSends, EmptySeq
  <2>2. requested' <= MaxRequest
    BY <1>0, <1>4 DEF SampleRequest
  <2> QED  BY <1>4, <2>1, <2>2 DEF SampleRequest
<1>5. ASSUME NEW key \in BOOLEAN, Offer(key) PROVE Quiet'
  BY <1>5, OfferCases DEF account, SendNow, Queue, Overflow, Write
<1>6. CASE UNCHANGED vars
  BY <1>6 DEF vars, stream, account
<1> QED  BY <1>1, <1>2, <1>3, <1>4, <1>5, <1>6, CameraSteps

(* Credits are spent before a sample waits: with the answers they come to  *)
(* the requests.                                                           *)
LEMMA MeteringStep ==
  TypeOK /\ Quiet /\ NoIdleCredit /\ Metered /\ [Next]_vars
    => NoIdleCredit' /\ Metered'
<1> SUFFICES ASSUME TypeOK, Quiet, NoIdleCredit, Metered, [Next]_vars
             PROVE  NoIdleCredit' /\ Metered'
  OBVIOUS
<1> USE DEF NoIdleCredit, Metered
<1>0. /\ requested \in Nat /\ credits \in Nat /\ answered \in Nat
      /\ pending \in Seq(Sample) /\ Len(pending) \in Nat
  BY CameraAssumption, LenProperties DEF TypeOK, CameraAssumption
<1>1. CASE Aside
  BY <1>1, AsideKeepsStream DEF Quiet
<1>2. CASE Stopping
  BY <1>2, StoppingForgets
<1>3. CASE StartStreams
  BY <1>3 DEF StartStreams, Forget
<1>4. CASE SampleRequest
  <2> DEFINE sent == IF credits + 1 < Len(pending) THEN credits + 1 ELSE Len(pending)
             out  == SubSeq(pending, 1, sent)
  <2>1. /\ sent \in 0 .. Len(pending) /\ sent <= credits + 1
        /\ credits' = credits + 1 - sent
        /\ pending' \in Seq(Sample) /\ Len(pending') = Len(pending) - sent
        /\ out \in Seq(Sample) /\ Len(out) = sent /\ Write(out)
    BY <1>4, RequestSends
  <2>2. streaming' = streaming /\ device' = device /\ requested' = requested + 1 /\ streaming
    BY <1>4 DEF SampleRequest
  <2>3. sent = credits + 1 \/ sent = Len(pending)
    OBVIOUS
  <2>4. sent = Len(pending) => pending' = <<>>
    BY <2>1, <1>0, EmptySeq
  <2> HIDE DEF sent
  <2> HIDE DEF out
  <2>5. NoIdleCredit'
    BY <1>0, <2>1, <2>3, <2>4
  <2>6. answered' = answered + (IF device = "open" THEN sent ELSE 0)
    BY <1>0, <2>1, WriteAnswers
  <2> QED  BY <1>0, <2>1, <2>2, <2>5, <2>6
<1>5. ASSUME NEW key \in BOOLEAN, Offer(key) PROVE NoIdleCredit' /\ Metered'
  <2> DEFINE s == [n |-> offered + 1, key |-> key]
  <2>1. UNCHANGED <<device, streaming>>
    BY <1>5, OfferCases
  <2>2. CASE UNCHANGED <<credits, pending, awaiting, account>>
    BY <2>1, <2>2 DEF account
  <2>3. CASE SendNow(s)
    <3>1. <<s>> \in Seq(Sample) /\ Len(<<s>>) = 1
      BY <1>5, OfferCases
    <3>2. /\ credits > 0 /\ pending = <<>> /\ Write(<<s>>)
          /\ credits' = IF device = "open" THEN credits - 1 ELSE credits
          /\ UNCHANGED <<pending, requested>>
      BY <2>3 DEF SendNow
    <3>3. answered' = answered + (IF device = "open" THEN 1 ELSE 0)
      BY <1>0, <3>1, <3>2, WriteAnswers
    <3> QED  BY <1>0, <2>1, <3>2, <3>3
  <2>4. CASE Queue(s) \/ Overflow(s)
    BY <1>0, <2>1, <2>4 DEF Queue, Overflow, account
  <2> QED  BY <1>5, OfferCases, <2>2, <2>3, <2>4
<1>6. CASE UNCHANGED vars
  BY <1>6 DEF vars, stream, account
<1> QED  BY <1>1, <1>2, <1>3, <1>4, <1>5, <1>6, CameraSteps

(* A sample goes on from the one offered before, or is a keyframe.         *)
LEMMA OfferDecodes ==
  ASSUME TypeOK, Quiet, Decoding, streaming,
         NEW s \in Sample, s.n = offered + 1, awaiting => s.key,
         offered' = offered + 1, UNCHANGED <<device, streaming>>,
         SendNow(s) \/ Queue(s) \/ Overflow(s)
  PROVE  Decoding'
<1> USE DEF Decoding
<1>0. /\ offered \in Nat /\ delivered \in Nat
      /\ pending \in Seq(Sample) /\ Len(pending) \in Nat /\ Len(<<>>) = 0
      /\ pending # <<>> => Len(pending) >= 1
      /\ pending # <<>> => ~ awaiting
  BY CameraAssumption, LenProperties, EmptySeq DEF TypeOK, Quiet, CameraAssumption
<1>1. pending = <<>> /\ device = "open" => Continues(s, delivered)
  BY <1>0 DEF UpToDate, Continues
<1>2. pending # <<>> => Continues(s, pending[Len(pending)].n)
  BY <1>0 DEF UpToDate, Continues
<1>3. CASE SendNow(s)
  <2>1. /\ pending = <<>> /\ pending' = <<>> /\ ~ awaiting' /\ Write(<<s>>)
    BY <1>3 DEF SendNow
  <2>2. <<s>> # <<>> /\ Len(<<s>>) = 1 /\ <<s>>[1] = s
    OBVIOUS
  <2>3. ~ garbled' /\ (device = "open" => delivered' = s.n)
    <3>1. \A i \in 2 .. Len(<<s>>) : Continues(<<s>>[i], <<s>>[i - 1].n)
      BY <2>2
    <3> QED  BY <1>1, <2>1, <2>2, <3>1, WriteDecodes DEF Decodable
  <2> QED  BY <1>0, <2>1, <2>3 DEF Chained, Begun, UpToDate, Decodable
<1>4. CASE Queue(s)
  <2>1. /\ pending' = Append(pending, s) /\ ~ awaiting'
        /\ delivered' = delivered /\ garbled' = garbled
    BY <1>4 DEF Queue, account
  <2>2. /\ pending' # <<>> /\ Len(pending') = Len(pending) + 1
        /\ \A i \in 1 .. Len(pending) : pending'[i] = pending[i]
        /\ pending'[Len(pending) + 1] = s
    BY <1>0, <2>1, AppendProperties
  <2>3. Chained'
    <3> SUFFICES ASSUME NEW i \in 2 .. Len(pending')
                 PROVE  Continues(pending'[i], pending'[i - 1].n)
      BY DEF Chained, Continues
    <3>1. CASE i = Len(pending) + 1
      <4>1. pending # <<>> /\ pending'[i] = s /\ i - 1 = Len(pending)
        BY <1>0, <3>1, <2>2
      <4>2. pending'[i - 1] = pending[Len(pending)]
        BY <1>0, <4>1, <2>2
      <4> QED  BY <1>2, <4>1, <4>2
    <3>2. CASE i # Len(pending) + 1
      <4>1. i \in 2 .. Len(pending) /\ i \in 1 .. Len(pending) /\ i - 1 \in 1 .. Len(pending)
        BY <1>0, <3>2, <2>2
      <4>2. pending'[i] = pending[i] /\ pending'[i - 1] = pending[i - 1]
        BY <4>1, <2>2
      <4> QED  BY <4>1, <4>2 DEF Chained
    <3> QED  BY <3>1, <3>2
  <2>4. Begun'
    <3>1. CASE pending = <<>>
      <4>1. pending'[1] = s
        BY <1>0, <2>2, <3>1
      <4> QED  BY <1>1, <2>1, <3>1, <4>1 DEF Begun, Continues
    <3>2. CASE pending # <<>>
      <4>1. pending'[1] = pending[1]
        BY <1>0, <2>2, <3>2
      <4> QED  BY <2>1, <3>2, <4>1 DEF Begun, Continues
    <3> QED  BY <3>1, <3>2
  <2>5. UpToDate' /\ Decodable'
    BY <1>0, <2>1, <2>2 DEF UpToDate, Decodable
  <2> QED  BY <2>3, <2>4, <2>5
<1>5. CASE Overflow(s)
  BY <1>0, <1>5 DEF Overflow, account, Chained, Begun, UpToDate, Decodable
<1> QED  BY <1>3, <1>4, <1>5

(* A request takes the oldest samples, and leaves the later ones behind    *)
(* the last of them.                                                       *)
LEMMA RequestDecodes ==
  TypeOK /\ Quiet /\ Decoding /\ SampleRequest => Decoding'
<1> SUFFICES ASSUME TypeOK, Quiet, Decoding, SampleRequest PROVE Decoding'
  OBVIOUS
<1> USE DEF Decoding
<1> DEFINE sent == IF credits + 1 < Len(pending) THEN credits + 1 ELSE Len(pending)
           out  == SubSeq(pending, 1, sent)
<1>0. /\ pending \in Seq(Sample) /\ Len(pending) \in Nat /\ Len(<<>>) = 0
      /\ pending # <<>> => Len(pending) >= 1
      /\ credits \in Nat
  BY CameraAssumption, LenProperties, EmptySeq DEF TypeOK, CameraAssumption
<1>1. /\ sent \in 0 .. Len(pending)
      /\ pending' \in Seq(Sample) /\ Len(pending') = Len(pending) - sent
      /\ \A i \in 1 .. Len(pending') : pending'[i] = pending[i + sent]
      /\ out \in Seq(Sample) /\ Len(out) = sent
      /\ \A i \in 1 .. sent : out[i] = pending[i]
      /\ Write(out)
  BY RequestSends
<1>2. sent = 0 => pending = <<>>
  BY <1>0, EmptySeq
<1>3. UNCHANGED <<device, streaming, awaiting, offered>>
  BY DEF SampleRequest
<1> HIDE DEF sent, out
<1>4. out = <<>> <=> sent = 0
  BY <1>1, EmptySeq
<1>5. pending' = <<>> <=> sent = Len(pending)
  <2>1. pending' = <<>> <=> Len(pending') = 0
    BY <1>0, <1>1, EmptySeq
  <2> QED  BY <1>0, <1>1, <2>1
<1>6. \A i \in 2 .. Len(out) : Continues(out[i], out[i - 1].n)
  <2> SUFFICES ASSUME NEW i \in 2 .. Len(out) PROVE Continues(out[i], out[i - 1].n)
    OBVIOUS
  <2>1. i \in 2 .. Len(pending) /\ i \in 1 .. sent /\ i - 1 \in 1 .. sent
    BY <1>0, <1>1
  <2>2. out[i] = pending[i] /\ out[i - 1] = pending[i - 1]
    BY <1>1, <2>1
  <2> QED  BY <2>1, <2>2 DEF Chained
<1>7. out # <<>> /\ device = "open" => Continues(out[1], delivered)
  BY <1>0, <1>1, <1>4 DEF Begun
<1>8. Decodable'
  BY <1>6, <1>7, <1>1, WriteDecodes DEF Decodable
<1>9. Chained'
  <2> SUFFICES ASSUME NEW i \in 2 .. Len(pending')
               PROVE  Continues(pending'[i], pending'[i - 1].n)
    BY DEF Chained, Continues
  <2>1. i + sent \in 2 .. Len(pending) /\ i \in 1 .. Len(pending') /\ i - 1 \in 1 .. Len(pending')
    BY <1>0, <1>1
  <2>2. pending'[i] = pending[i + sent] /\ pending'[i - 1] = pending[(i + sent) - 1]
    <3>1. (i - 1) + sent = (i + sent) - 1
      BY <1>0, <1>1, <2>1
    <3> QED  BY <1>1, <2>1, <3>1
  <2> QED  BY <2>1, <2>2 DEF Chained
<1>10. out # <<>> /\ device = "open" => delivered' = pending[sent].n
  <2>1. sent # 0 => out[sent] = pending[sent]
    BY <1>0, <1>1
  <2> QED  BY <1>1, <1>4, <2>1, WriteDecodes
<1>11. Begun'
  <2> SUFFICES ASSUME pending' # <<>>, device = "open"
               PROVE  Continues(pending'[1], delivered')
    BY <1>3 DEF Begun, Continues
  <2>1. sent # 0
    BY <1>0, <1>1, <1>2, <1>5
  <2>2. /\ sent + 1 \in 2 .. Len(pending) /\ 1 \in 1 .. Len(pending')
        /\ (sent + 1) - 1 = sent /\ 1 + sent = sent + 1
    BY <1>0, <1>1, <1>5, <2>1
  <2>3. pending'[1] = pending[sent + 1] /\ delivered' = pending[(sent + 1) - 1].n
    BY <1>1, <1>4, <1>10, <2>1, <2>2
  <2> QED  BY <2>2, <2>3 DEF Chained
<1>12. UpToDate'
  <2> SUFFICES ASSUME streaming, ~ awaiting
               PROVE  /\ offered # 0
                      /\ pending' = <<>> /\ device = "open" => delivered' = offered
                      /\ pending' # <<>> => pending'[Len(pending')].n = offered
    BY <1>3 DEF UpToDate
  <2>1. offered # 0
    BY DEF UpToDate
  <2>2. ASSUME pending' = <<>>, device = "open" PROVE delivered' = offered
    <3>1. CASE pending = <<>>
      <4>1. out = <<>>
        BY <1>0, <1>1, <1>4, <3>1
      <4>2. delivered' = delivered
        BY <1>1, <4>1, WriteDecodes
      <4> QED  BY <2>2, <3>1, <4>2 DEF UpToDate
    <3>2. CASE pending # <<>>
      <4>1. sent = Len(pending) /\ out # <<>>
        BY <1>0, <1>4, <1>5, <2>2, <3>2
      <4> QED  BY <1>10, <2>2, <3>2, <4>1 DEF UpToDate
    <3> QED  BY <3>1, <3>2
  <2>3. ASSUME pending' # <<>> PROVE pending'[Len(pending')].n = offered
    <3>1. Len(pending') \in 1 .. Len(pending') /\ Len(pending') + sent = Len(pending)
      BY <1>0, <1>1, <1>5, <2>3
    <3>2. pending'[Len(pending')] = pending[Len(pending)] /\ pending # <<>>
      BY <1>0, <1>1, <3>1
    <3> QED  BY <3>2 DEF UpToDate
  <2> QED  BY <2>1, <2>2, <2>3
<1> QED  BY <1>8, <1>9, <1>11, <1>12

LEMMA DecodingStep ==
  TypeOK /\ Quiet /\ Decoding /\ [Next]_vars => Decoding'
<1> SUFFICES ASSUME TypeOK, Quiet, Decoding, [Next]_vars PROVE Decoding'
  OBVIOUS
<1> USE DEF Decoding, Chained, Begun, UpToDate, Decodable, Continues
<1>0. Len(<<>>) = 0
  OBVIOUS
<1>1. CASE Aside
  BY <1>0, <1>1, AsideKeepsStream DEF Quiet
<1>2. CASE Stopping
  BY <1>0, <1>2, StoppingForgets
<1>3. CASE StartStreams
  BY <1>0, <1>3 DEF StartStreams, Forget
<1>4. CASE SampleRequest
  BY <1>4, RequestDecodes
<1>5. ASSUME NEW key \in BOOLEAN, Offer(key) PROVE Decoding'
  <2> DEFINE s == [n |-> offered + 1, key |-> key]
  <2>1. /\ s \in Sample /\ s.n = offered + 1 /\ s.key = key /\ offered' = offered + 1
        /\ UNCHANGED <<device, streaming>>
    BY <1>5, OfferCases
  <2>2. CASE /\ ~ streaming \/ (awaiting /\ ~ key)
             /\ UNCHANGED <<credits, pending, awaiting, account>>
    BY <2>1, <2>2 DEF account
  <2>3. CASE streaming /\ (awaiting => key) /\ (SendNow(s) \/ Queue(s) \/ Overflow(s))
    <3> HIDE DEF s
    <3> QED  BY <2>1, <2>3, OfferDecodes
  <2> QED  BY <1>5, OfferCases, <2>2, <2>3
<1>6. CASE UNCHANGED vars
  BY <1>6 DEF vars, stream, account
<1> QED  BY <1>1, <1>2, <1>3, <1>4, <1>5, <1>6, CameraSteps

(* The stream's variables keep their types: credits never exceed what may  *)
(* be asked in one stream.                                                 *)
LEMMA CameraTypesStep ==
  TypeOK /\ Quiet /\ Metered /\ Quiet' /\ Metered' /\ [Next]_vars => TypeOK'
<1> SUFFICES ASSUME TypeOK, Quiet, Metered, Quiet', Metered', [Next]_vars
             PROVE  TypeOK'
  OBVIOUS
<1>0. /\ MaxRequest \in Nat /\ MaxOffer \in Nat /\ PendingMax \in Nat
      /\ requested \in Nat /\ credits \in Nat /\ answered \in Nat
      /\ delivered \in Nat /\ offered \in 0 .. MaxOffer /\ garbled \in BOOLEAN
      /\ pending \in Seq(Sample) /\ Len(pending) \in Nat /\ Len(pending) <= PendingMax
      /\ <<>> \in Seq(Sample) /\ Len(<<>>) = 0
  BY CameraAssumption, LenProperties, EmptySeq DEF TypeOK, CameraAssumption
<1>1. CASE Aside
  <2>1. /\ enumerator' \in Channel /\ device' \in Channel
        /\ enumReady' \in BOOLEAN /\ plugged' \in BOOLEAN
        /\ announced' \in BOOLEAN /\ shown' \in BOOLEAN
        /\ emit' \in Event /\ told' \in Event /\ withdrawn' \in BOOLEAN
    BY <1>1 DEF Aside, Plug, OpenEnumerator, SelectVersion, CloseEnumerator, OpenDevice,
                Refuse, Emit, enumeration, embedder, Announcing, Channel, Event, TypeOK
  <2> QED  BY <1>1, <2>1, AsideKeepsStream DEF TypeOK
<1>2. CASE Stopping
  <2>1. /\ enumerator' \in Channel /\ device' \in Channel
        /\ enumReady' \in BOOLEAN /\ plugged' \in BOOLEAN
        /\ announced' \in BOOLEAN /\ shown' \in BOOLEAN
        /\ emit' \in Event /\ told' \in Event /\ withdrawn' \in BOOLEAN
    BY <1>2 DEF Stopping, Unplug, StopStreams, CloseDevice, Terminate,
                enumeration, embedder, Channel, Event, TypeOK
  <2>2. streaming' = FALSE /\ awaiting' = FALSE
    BY <1>2 DEF Stopping, Unplug, StopStreams, CloseDevice, Terminate, StopStream
  <2>3. /\ credits' = 0 /\ pending' = <<>>
        /\ UNCHANGED <<offered, delivered, garbled, requested, answered>>
    BY <1>2, StoppingForgets
  <2>4. credits' \in 0 .. MaxRequest /\ Len(pending') <= PendingMax
    BY <1>0, <2>3
  <2> QED  BY <1>0, <2>1, <2>2, <2>3, <2>4 DEF TypeOK
<1>3. CASE StartStreams
  <2>1. /\ streaming' = TRUE /\ credits' = 0 /\ pending' = <<>> /\ awaiting' = TRUE
        /\ emit' = "started" /\ withdrawn' = FALSE
        /\ delivered' = 0 /\ requested' = 0 /\ answered' = 0
        /\ UNCHANGED <<enumeration, device, told, offered, garbled>>
    BY <1>3 DEF StartStreams, Forget
  <2>2. credits' \in 0 .. MaxRequest /\ Len(pending') <= PendingMax
    BY <1>0, <2>1
  <2> QED  BY <1>0, <2>1, <2>2 DEF TypeOK, enumeration, Event
<1>4. CASE SampleRequest
  <2> DEFINE sent == IF credits + 1 < Len(pending) THEN credits + 1 ELSE Len(pending)
             out  == SubSeq(pending, 1, sent)
  <2>1. /\ sent \in 0 .. Len(pending) /\ sent <= credits + 1
        /\ credits' = credits + 1 - sent
        /\ pending' \in Seq(Sample) /\ Len(pending') = Len(pending) - sent
        /\ out \in Seq(Sample) /\ Len(out) = sent
        /\ \A i \in 1 .. sent : out[i] = pending[i]
        /\ Write(out)
    BY <1>4, RequestSends
  <2>2. /\ streaming /\ streaming' = streaming /\ requested' = requested + 1
        /\ UNCHANGED <<enumeration, device, awaiting, embedder, offered>>
    BY <1>4 DEF SampleRequest
  <2> HIDE DEF sent, out
  <2>3. answered' = answered + (IF device = "open" THEN sent ELSE 0) /\ answered' \in Nat
    BY <1>0, <2>1, WriteAnswers
  <2>4. delivered' \in Nat /\ garbled' \in BOOLEAN
    BY <1>0, <2>1, WriteTypes
  <2>5. credits' \in 0 .. MaxRequest
    BY <1>0, <2>1, <2>2, <2>3 DEF Metered, Quiet
  <2>6. Len(pending') <= PendingMax /\ requested' \in Nat
    BY <1>0, <2>1, <2>2
  <2> QED  BY <2>1, <2>2, <2>3, <2>4, <2>5, <2>6 DEF TypeOK, enumeration, embedder
<1>5. ASSUME NEW key \in BOOLEAN, Offer(key) PROVE TypeOK'
  <2> DEFINE s == [n |-> offered + 1, key |-> key]
  <2>1. /\ s \in Sample /\ offered' \in 0 .. MaxOffer
        /\ UNCHANGED <<enumeration, device, streaming, embedder>>
    <3>1. offered' = offered + 1 /\ offered < MaxOffer
      BY <1>5, OfferCases
    <3>2. offered' \in 0 .. MaxOffer
      BY <1>0, <3>1
    <3> QED  BY <1>5, <3>2, OfferCases
  <2>2. /\ credits' \in 0 .. MaxRequest /\ pending' \in Seq(Sample)
        /\ Len(pending') <= PendingMax /\ awaiting' \in BOOLEAN
        /\ delivered' \in Nat /\ garbled' \in BOOLEAN
        /\ requested' \in Nat /\ answered' \in Nat
    <3>1. CASE UNCHANGED <<credits, pending, awaiting, account>>
      BY <1>0, <3>1 DEF account, TypeOK
    <3> HIDE DEF s
    <3>2. CASE SendNow(s)
      <4>1. /\ credits > 0 /\ Write(<<s>>)
            /\ credits' = IF device = "open" THEN credits - 1 ELSE credits
            /\ awaiting' = FALSE /\ UNCHANGED <<pending, requested>>
        BY <3>2 DEF SendNow
      <4>2. <<s>> \in Seq(Sample) /\ Len(<<s>>) = 1
        BY <2>1
      <4>3. answered' \in Nat
        <5>1. answered' = answered + (IF device = "open" THEN 1 ELSE 0)
          BY <1>0, <4>1, <4>2, WriteAnswers
        <5> QED  BY <1>0, <5>1
      <4>4. delivered' \in Nat /\ garbled' \in BOOLEAN
        BY <1>0, <4>1, <4>2, WriteTypes
      <4>5. credits' \in 0 .. MaxRequest
        BY <1>0, <4>1 DEF TypeOK
      <4> QED  BY <1>0, <4>1, <4>3, <4>4, <4>5
    <3>3. CASE Queue(s)
      <4>1. /\ Len(pending) < PendingMax /\ pending' = Append(pending, s)
            /\ awaiting' = FALSE /\ UNCHANGED <<credits, account>>
        BY <3>3 DEF Queue
      <4>2. pending' \in Seq(Sample) /\ Len(pending') = Len(pending) + 1
        BY <1>0, <2>1, <4>1, AppendProperties
      <4>3. Len(pending') <= PendingMax
        BY <1>0, <4>1, <4>2
      <4> QED  BY <4>1, <4>2, <4>3 DEF TypeOK, account
    <3>4. CASE Overflow(s)
      <4>1. /\ pending' = <<>> /\ awaiting' = TRUE /\ UNCHANGED <<credits, account>>
        BY <3>4 DEF Overflow
      <4> QED  BY <1>0, <4>1 DEF TypeOK, account
    <3> QED  BY <1>5, OfferCases, <3>1, <3>2, <3>3, <3>4 DEF s
  <2> QED  BY <2>1, <2>2 DEF TypeOK, enumeration, embedder
<1>6. CASE UNCHANGED vars
  BY <1>6 DEF vars, enumeration, stream, embedder, account, TypeOK
<1> QED  BY <1>1, <1>2, <1>3, <1>4, <1>5, <1>6, CameraSteps

LEMMA ToldStep == TypeOK /\ ToldOrEmitted /\ [Next]_vars => ToldOrEmitted'
<1> SUFFICES ASSUME TypeOK, ToldOrEmitted, [Next]_vars PROVE ToldOrEmitted'
  OBVIOUS
<1> USE DEF ToldOrEmitted, TypeOK, Event, stream, embedder
<1>1. CASE Plug
  BY <1>1 DEF Plug, Announcing
<1>2. CASE OpenEnumerator
  BY <1>2 DEF OpenEnumerator
<1>3. CASE SelectVersion
  BY <1>3 DEF SelectVersion, Announcing
<1>4. CASE CloseEnumerator
  BY <1>4 DEF CloseEnumerator
<1>5. CASE OpenDevice
  BY <1>5 DEF OpenDevice
<1>6. CASE Refuse
  BY <1>6 DEF Refuse
<1>7. CASE Emit
  BY <1>7 DEF Emit
<1>8. CASE Unplug
  BY <1>8 DEF Unplug, StopStream
<1>9. CASE StopStreams
  BY <1>9 DEF StopStreams, StopStream
<1>10. CASE CloseDevice
  BY <1>10 DEF CloseDevice, StopStream
<1>11. CASE Terminate
  BY <1>11 DEF Terminate, StopStream
<1>12. CASE StartStreams
  BY <1>12 DEF StartStreams
<1>13. CASE SampleRequest
  BY <1>13 DEF SampleRequest
<1>14. ASSUME NEW key \in BOOLEAN, Offer(key) PROVE ToldOrEmitted'
  BY <1>14 DEF Offer
<1>15. CASE UNCHANGED vars
  BY <1>15 DEF vars
<1> QED
  BY <1>1, <1>2, <1>3, <1>4, <1>5, <1>6, <1>7, <1>8, <1>9, <1>10, <1>11, <1>12, <1>13,
     <1>14, <1>15 DEF Next

LEMMA AnnouncedStep == TypeOK /\ AnnouncedIsShown /\ [Next]_vars => AnnouncedIsShown'
<1> SUFFICES ASSUME TypeOK, AnnouncedIsShown, [Next]_vars PROVE AnnouncedIsShown'
  OBVIOUS
<1> USE DEF AnnouncedIsShown, TypeOK, Event, enumeration
<1>1. CASE Plug
  BY <1>1 DEF Plug, Announcing
<1>2. CASE OpenEnumerator
  BY <1>2 DEF OpenEnumerator
<1>3. CASE SelectVersion
  BY <1>3 DEF SelectVersion, Announcing
<1>4. CASE CloseEnumerator
  BY <1>4 DEF CloseEnumerator
<1>5. CASE OpenDevice
  BY <1>5 DEF OpenDevice
<1>6. CASE Refuse
  BY <1>6 DEF Refuse
<1>7. CASE Emit
  BY <1>7 DEF Emit
<1>8. CASE Unplug
  BY <1>8 DEF Unplug, StopStream
<1>9. CASE StopStreams
  BY <1>9 DEF StopStreams, StopStream
<1>10. CASE CloseDevice
  BY <1>10 DEF CloseDevice, StopStream
<1>11. CASE Terminate
  BY <1>11 DEF Terminate, StopStream
<1>12. CASE StartStreams
  BY <1>12 DEF StartStreams
<1>13. CASE SampleRequest
  BY <1>13 DEF SampleRequest
<1>14. ASSUME NEW key \in BOOLEAN, Offer(key) PROVE AnnouncedIsShown'
  BY <1>14 DEF Offer
<1>15. CASE UNCHANGED vars
  BY <1>15 DEF vars
<1> QED
  BY <1>1, <1>2, <1>3, <1>4, <1>5, <1>6, <1>7, <1>8, <1>9, <1>10, <1>11, <1>12, <1>13,
     <1>14, <1>15 DEF Next

LEMMA CameraAlways == Spec => []CameraInv
<1>1. Init => CameraInv
  <2> SUFFICES ASSUME Init PROVE CameraInv
    OBVIOUS
  <2>1. /\ MaxRequest \in Nat /\ MaxOffer \in Nat /\ PendingMax \in Nat
        /\ <<>> \in Seq(Sample) /\ Len(<<>>) = 0
    BY CameraAssumption, EmptySeq DEF CameraAssumption
  <2>2. TypeOK
    <3>1. 0 \in 0 .. MaxRequest /\ 0 \in 0 .. MaxOffer /\ 0 <= PendingMax
      BY <2>1
    <3>2. pending \in Seq(Sample) /\ Len(pending) <= PendingMax
      BY <2>1, <3>1 DEF Init
    <3> QED  BY <3>1, <3>2 DEF Init, TypeOK, Channel, Event
  <2>3. Quiet /\ NoIdleCredit /\ Metered
    BY <2>1 DEF Init, Quiet, NoIdleCredit, Metered
  <2>4. Decoding
    BY <2>1 DEF Init, Decoding, Chained, Begun, UpToDate, Decodable
  <2>5. ToldOrEmitted /\ AnnouncedIsShown
    BY DEF Init, ToldOrEmitted, AnnouncedIsShown
  <2> QED  BY <2>2, <2>3, <2>4, <2>5 DEF CameraInv
<1>2. CameraInv /\ [Next]_vars => CameraInv'
  BY QuietStep, MeteringStep, DecodingStep, CameraTypesStep, ToldStep, AnnouncedStep
     DEF CameraInv
<1> QED  BY <1>1, <1>2, PTL DEF Spec

(* The queue stays within its limit and the credits within the requests.   *)
THEOREM CameraTypes == Spec => []TypeOK
<1>1. CameraInv => TypeOK
  BY DEF CameraInv
<1> QED  BY <1>1, CameraAlways, PTL

(* No sample reaches the host that it cannot decode: through a full queue, *)
(* refused writes, unplugs and streams that start over.                    *)
THEOREM StreamDecodes == Spec => []Decodable
<1>1. CameraInv => Decodable
  BY DEF CameraInv, Decoding
<1> QED  BY <1>1, CameraAlways, PTL

(* The host never waits for a sample that waits for the host.              *)
THEOREM CreditsAreUsed == Spec => []NoIdleCredit
<1>1. CameraInv => NoIdleCredit
  BY DEF CameraInv
<1> QED  BY <1>1, CameraAlways, PTL

(* Requests are answered once each, from either of the threads.            *)
THEOREM StreamIsMetered == Spec => []Metered
<1>1. CameraInv => Metered
  BY DEF CameraInv
<1> QED  BY <1>1, CameraAlways, PTL

(* The embedder knows of every stream, however it ended.                   *)
THEOREM EmbedderKnowsStream == Spec => []EmbedderIsTold
<1>1. CameraInv => EmbedderIsTold
  BY DEF CameraInv, ToldOrEmitted, EmbedderIsTold
<1> QED  BY <1>1, CameraAlways, PTL

(* The host has the device when it is plugged and only then, whichever of  *)
(* the plug and the enumeration came first.                                *)
THEOREM PlugIsAnnounced == Spec => []HostSeesPlug
<1>1. CameraInv => HostSeesPlug
  BY DEF CameraInv, AnnouncedIsShown, HostSeesPlug
<1> QED  BY <1>1, CameraAlways, PTL

-----------------------------------------------------------------------------
(* Touch.  Where send_touch and touch_suspend are says what is set: the    *)
(* channel does not close under either, and a transition in hand is that   *)
(* of a finger that went down, or up.                                      *)
Handling(phase) == step # "idle" /\ sending.phase = phase

Places ==
  /\ step # "idle" => rdpei
  /\ suspending # "no" => rdpei /\ suspended
  /\ cancels # {} => suspending = "cancelling"
  /\ Handling("Down") => finger[sending.id] # 0
  /\ Handling("Up") => finger[sending.id] = 0

(* Unless a suspend falls inside the send_touch of a Down: such a Down is  *)
(* of an id that the host has not, and is noted first; and nothing is held *)
(* once a suspend has taken it. *)
DownsAreNoted ==
  ~ crossed
    => /\ Handling("Down") => /\ ~ suspended
                              /\ \A c \in contacts : c[1] # sending.id
                              /\ step = "noted" => sending.id \in held
       /\ suspended /\ suspending # "flagged" => held = {}

(* The host has one contact of an id, *)
OneContact == ~ crossed => \A c, d \in contacts : c[1] = d[1] => c = d

(* and each is a finger that is down, or somebody is about to lift it. *)
LiftIsComing ==
  ~ crossed
    => \A c \in contacts : \/ finger[c[1]] = c[2] \/ c[1] \in cancels
                           \/ suspending = "flagged"
                           \/ Handling("Up") /\ sending.id = c[1]

TouchInv == /\ TouchTypeOK /\ IsFiniteSet(contacts) /\ Places
            /\ DownsAreNoted /\ OneContact /\ LiftIsComing /\ HeldCoversContacts

(* What the plugin does to its table. *)
LEMMA TableBegins ==
  ASSUME TouchTypeOK, IsFiniteSet(contacts), NEW i \in Id, finger[i] # 0, Begin(i)
  PROVE  /\ contacts' \subseteq Contact /\ IsFiniteSet(contacts')
         /\ Cardinality(contacts') <= Slots
         /\ contacts' \subseteq contacts \cup {<<i, finger[i]>>}
<1>1. Slots \in Nat /\ MaxDown \in Nat /\ finger[i] \in 1 .. MaxDown
  BY TouchAssumption DEF TouchAssumption, TouchTypeOK
<1>2. <<i, finger[i]>> \in Contact
  BY <1>1 DEF Contact
<1>3. CASE Cardinality(contacts) < Slots
  <2>1. contacts' = contacts \cup {<<i, finger[i]>>}
    BY <1>3 DEF Begin
  <2>2. /\ IsFiniteSet(contacts') /\ Cardinality(contacts) \in Nat
        /\ \/ Cardinality(contacts') = Cardinality(contacts)
           \/ Cardinality(contacts') = Cardinality(contacts) + 1
    BY <2>1, FS_AddElement, FS_CardinalityType
  <2>3. Cardinality(contacts') <= Slots
    BY <1>1, <1>3, <2>2
  <2> QED  BY <1>2, <2>1, <2>2, <2>3 DEF TouchTypeOK
<1>4. CASE ~ (Cardinality(contacts) < Slots)
  BY <1>4 DEF Begin, TouchTypeOK
<1> QED  BY <1>3, <1>4

LEMMA TableEnds ==
  ASSUME TouchTypeOK, IsFiniteSet(contacts), NEW i \in Id, End(i)
  PROVE  /\ contacts' \subseteq contacts /\ IsFiniteSet(contacts')
         /\ Cardinality(contacts') <= Slots
         /\ \A c \in contacts : c[1] # i => c \in contacts'
         /\ (\A c, d \in contacts : c[1] = d[1] => c = d)
              => \A c \in contacts' : c[1] # i
<1>1. Slots \in Nat /\ Cardinality(contacts) \in Nat
  BY TouchAssumption, FS_CardinalityType DEF TouchAssumption
<1>2. CASE {c \in contacts : c[1] = i} = {}
  BY <1>2 DEF End, TouchTypeOK
<1>3. CASE {c \in contacts : c[1] = i} # {}
  <2>1. PICK e \in contacts : e[1] = i /\ contacts' = contacts \ {e}
    BY <1>3 DEF End
  <2>2. IsFiniteSet(contacts') /\ Cardinality(contacts') = Cardinality(contacts) - 1
    BY <2>1, FS_RemoveElement
  <2>3. Cardinality(contacts') <= Slots
    BY <1>1, <2>2 DEF TouchTypeOK
  <2> QED  BY <2>1, <2>2, <2>3
<1> QED  BY <1>2, <1>3

LEMMA TouchStep == TouchInv /\ [TouchNext]_touchvars => TouchInv'
<1> SUFFICES ASSUME TouchInv, [TouchNext]_touchvars PROVE TouchInv'
  OBVIOUS
<1> USE DEF caller, call, callback, Handling
<1>0. /\ TouchTypeOK /\ IsFiniteSet(contacts) /\ Places /\ DownsAreNoted
      /\ OneContact /\ LiftIsComing /\ HeldCoversContacts
      /\ MaxDown \in Nat /\ downs \in 0 .. MaxDown
      /\ \A c \in contacts : c[1] \in Id /\ c[2] # 0
      /\ step \in {"idle", "checked", "noted"} /\ crossed \in BOOLEAN
      /\ step = "idle" => sending.phase = "none"
      /\ step # "idle"
           => sending \in Sending /\ sending.id \in Id /\ sending.phase \in {"Down", "Up"}
      /\ ~ rdpei => held = {} /\ contacts = {}
  <2>1. TouchInv /\ MaxDown \in Nat
    BY TouchAssumption DEF TouchAssumption
  <2>2. \A c \in Contact : c[1] \in Id /\ c[2] # 0
    BY <2>1 DEF Contact
  <2>3. /\ step = "idle" => sending.phase = "none"
        /\ step # "idle"
             => sending \in Sending /\ sending.id \in Id /\ sending.phase \in {"Down", "Up"}
    BY <2>1 DEF TouchInv, TouchTypeOK, Sending, None
  <2> QED  BY <2>1, <2>2, <2>3 DEF TouchInv, TouchTypeOK
<1>1. CASE Note
  <2>0. held' \subseteq Id /\ sending # None
    BY <1>1, <1>0 DEF Note, TouchTypeOK
  <2>1. TouchTypeOK' /\ IsFiniteSet(contacts')
    <3>1. /\ rdpei /\ step' = "noted"
          /\ UNCHANGED <<caller, sending, rdpei, suspended, callback, contacts, crossed>>
      BY <1>1, <1>0 DEF Note, Places
    <3> QED  BY <1>0, <2>0, <3>1 DEF TouchTypeOK
  <2>2. Places'
    BY <1>1, <1>0 DEF Note, Places
  <2>3. DownsAreNoted'
    BY <1>1, <1>0 DEF Note, Places, DownsAreNoted
  <2>4. OneContact'
    BY <1>1, <1>0 DEF Note, OneContact, DownsAreNoted
  <2>5. LiftIsComing'
    BY <1>1, <1>0 DEF Note, LiftIsComing, Places, DownsAreNoted, HeldCoversContacts
  <2>6. HeldCoversContacts'
    BY <1>1, <1>0 DEF Note, HeldCoversContacts, DownsAreNoted, Places, OneContact
  <2> QED  BY <2>1, <2>2, <2>3, <2>4, <2>5, <2>6 DEF TouchInv
<1>2. CASE OpenChannel
  <2>1. TouchTypeOK' /\ IsFiniteSet(contacts')
    BY <1>2, <1>0 DEF OpenChannel, TouchTypeOK
  <2>2. Places'
    BY <1>2, <1>0 DEF OpenChannel, Places
  <2>3. DownsAreNoted'
    BY <1>2, <1>0 DEF OpenChannel, Places, DownsAreNoted
  <2>4. OneContact'
    BY <1>2, <1>0 DEF OpenChannel, OneContact, DownsAreNoted
  <2>5. LiftIsComing'
    BY <1>2, <1>0 DEF OpenChannel, LiftIsComing, Places, DownsAreNoted, HeldCoversContacts
  <2>6. HeldCoversContacts'
    BY <1>2, <1>0 DEF OpenChannel, HeldCoversContacts, DownsAreNoted, Places, OneContact
  <2> QED  BY <2>1, <2>2, <2>3, <2>4, <2>5, <2>6 DEF TouchInv
<1>3. CASE CloseChannel
  <2>1. TouchTypeOK' /\ IsFiniteSet(contacts')
    <3>1. IsFiniteSet({}) /\ Cardinality({}) = 0 /\ Slots \in Nat
      BY FS_EmptySet, TouchAssumption DEF TouchAssumption
    <3>2. Cardinality(contacts') <= Slots
      BY <1>3, <3>1 DEF CloseChannel
    <3> QED  BY <1>3, <1>0, <3>1, <3>2 DEF CloseChannel, TouchTypeOK
  <2>2. Places'
    BY <1>3, <1>0 DEF CloseChannel, Places
  <2>3. DownsAreNoted'
    BY <1>3, <1>0 DEF CloseChannel, Places, DownsAreNoted
  <2>4. OneContact'
    BY <1>3, <1>0 DEF CloseChannel, OneContact, DownsAreNoted
  <2>5. LiftIsComing'
    BY <1>3, <1>0 DEF CloseChannel, LiftIsComing, Places, DownsAreNoted, HeldCoversContacts
  <2>6. HeldCoversContacts'
    BY <1>3, <1>0 DEF CloseChannel, HeldCoversContacts, DownsAreNoted, Places, OneContact
  <2> QED  BY <2>1, <2>2, <2>3, <2>4, <2>5, <2>6 DEF TouchInv
<1>4. CASE Suspend
  <2>1. TouchTypeOK' /\ IsFiniteSet(contacts')
    BY <1>4, <1>0 DEF Suspend, TouchTypeOK, Places
  <2>2. Places'
    BY <1>4, <1>0 DEF Suspend, Places
  <2>3. DownsAreNoted'
    BY <1>4, <1>0 DEF Suspend, Places, DownsAreNoted
  <2>4. OneContact'
    BY <1>4, <1>0 DEF Suspend, OneContact, DownsAreNoted
  <2>5. LiftIsComing'
    BY <1>4, <1>0 DEF Suspend, LiftIsComing, Places, DownsAreNoted, HeldCoversContacts
  <2>6. HeldCoversContacts'
    BY <1>4, <1>0 DEF Suspend, HeldCoversContacts, DownsAreNoted, Places, OneContact
  <2> QED  BY <2>1, <2>2, <2>3, <2>4, <2>5, <2>6 DEF TouchInv
<1>5. CASE Take
  <2>1. TouchTypeOK' /\ IsFiniteSet(contacts')
    BY <1>5, <1>0 DEF Take, TouchTypeOK, Places
  <2>2. Places'
    BY <1>5, <1>0 DEF Take, Places
  <2>3. DownsAreNoted'
    BY <1>5, <1>0 DEF Take, Places, DownsAreNoted
  <2>4. OneContact'
    BY <1>5, <1>0 DEF Take, OneContact, DownsAreNoted
  <2>5. LiftIsComing'
    BY <1>5, <1>0 DEF Take, LiftIsComing, Places, DownsAreNoted, HeldCoversContacts
  <2>6. HeldCoversContacts'
    BY <1>5, <1>0 DEF Take, HeldCoversContacts, DownsAreNoted, Places, OneContact
  <2> QED  BY <2>1, <2>2, <2>3, <2>4, <2>5, <2>6 DEF TouchInv
<1>6. CASE Resume
  <2>1. TouchTypeOK' /\ IsFiniteSet(contacts')
    BY <1>6, <1>0 DEF Resume, TouchTypeOK, Places
  <2>2. Places'
    BY <1>6, <1>0 DEF Resume, Places
  <2>3. DownsAreNoted'
    BY <1>6, <1>0 DEF Resume, Places, DownsAreNoted
  <2>4. OneContact'
    BY <1>6, <1>0 DEF Resume, OneContact, DownsAreNoted
  <2>5. LiftIsComing'
    BY <1>6, <1>0 DEF Resume, LiftIsComing, Places, DownsAreNoted, HeldCoversContacts
  <2>6. HeldCoversContacts'
    BY <1>6, <1>0 DEF Resume, HeldCoversContacts, DownsAreNoted, Places, OneContact
  <2> QED  BY <2>1, <2>2, <2>3, <2>4, <2>5, <2>6 DEF TouchInv
<1>7. CASE TouchCall
  <2> DEFINE i == sending.id
  <2>0. /\ i \in Id /\ step = "noted" /\ step' = "idle" /\ sending' = None
        /\ UNCHANGED <<caller, rdpei, suspended, held, callback, crossed>>
        /\ None.phase = "none"
    BY <1>7, <1>0 DEF TouchCall, None
  <2> HIDE DEF i
  <2>1. CASE sending.phase = "Down"
    <3>1. finger[i] # 0 /\ Begin(i) /\ Handling("Down")
      BY <1>7, <1>0, <2>0, <2>1 DEF TouchCall, Places, i
    <3>2. /\ contacts' \subseteq Contact /\ IsFiniteSet(contacts')
          /\ Cardinality(contacts') <= Slots
          /\ contacts' \subseteq contacts \cup {<<i, finger[i]>>}
      BY <1>0, <2>0, <3>1, TableBegins
    <3>3. ~ crossed => ~ suspended /\ i \in held /\ \A c \in contacts : c[1] # i
      BY <1>0, <2>0, <3>1 DEF DownsAreNoted, i
    <3>4. TouchTypeOK'
      BY <1>0, <2>0, <3>2 DEF TouchTypeOK, Places
    <3>5. Places' /\ DownsAreNoted'
      BY <1>0, <2>0 DEF Places, DownsAreNoted
    <3>6. OneContact'
      BY <1>0, <2>0, <3>2, <3>3 DEF OneContact
    <3>7. LiftIsComing'
      BY <1>0, <2>0, <2>1, <3>2 DEF LiftIsComing
    <3>8. HeldCoversContacts'
      BY <1>0, <2>0, <3>2, <3>3 DEF HeldCoversContacts, i
    <3> QED  BY <3>2, <3>4, <3>5, <3>6, <3>7, <3>8 DEF TouchInv
  <2>2. CASE sending.phase = "Up"
    <3>1. End(i)
      BY <1>7, <1>0, <2>0, <2>2 DEF TouchCall, i
    <3>2. /\ contacts' \subseteq contacts /\ IsFiniteSet(contacts')
          /\ Cardinality(contacts') <= Slots
          /\ ~ crossed => \A c \in contacts' : c[1] # i
      BY <1>0, <2>0, <3>1, TableEnds DEF OneContact
    <3>3. TouchTypeOK'
      BY <1>0, <2>0, <3>2 DEF TouchTypeOK
    <3>4. Places' /\ DownsAreNoted'
      BY <1>0, <2>0 DEF Places, DownsAreNoted
    <3>5. OneContact'
      BY <1>0, <2>0, <3>2 DEF OneContact
    <3>6. LiftIsComing'
      BY <1>0, <2>0, <3>2 DEF LiftIsComing, i
    <3>7. HeldCoversContacts'
      BY <1>0, <2>0, <3>2 DEF HeldCoversContacts, i
    <3> QED  BY <3>2, <3>3, <3>4, <3>5, <3>6, <3>7 DEF TouchInv
  <2> QED  BY <1>0, <2>0, <2>1, <2>2
<1>8. CASE Cancel
  <2>1. CASE cancels = {}
    <3>1. /\ suspending = "cancelling" /\ suspending' = "no"
          /\ UNCHANGED <<cancels, contacts, caller, call, rdpei, suspended, held, crossed>>
      BY <1>8, <2>1 DEF Cancel
    <3>2. /\ TouchTypeOK'
          /\ Places' /\ OneContact'
      <4>1. TouchTypeOK'
        BY <1>0, <3>1 DEF TouchTypeOK
      <4>2. Places' /\ OneContact'
        BY <1>0, <2>1, <3>1 DEF Places, OneContact
      <4> QED  BY <4>1, <4>2
    <3>3. DownsAreNoted' /\ LiftIsComing' /\ HeldCoversContacts'
      BY <1>0, <3>1 DEF DownsAreNoted, LiftIsComing, HeldCoversContacts
    <3> QED  BY <1>0, <3>1, <3>2, <3>3 DEF TouchInv
  <2>2. CASE cancels # {}
    <3>1. PICK i \in cancels : cancels' = cancels \ {i} /\ End(i)
      BY <1>8, <2>2 DEF Cancel
    <3>2. /\ suspending = "cancelling" /\ i \in Id
          /\ UNCHANGED <<suspending, caller, call, rdpei, suspended, held, crossed>>
      BY <1>8, <1>0, <2>2, <3>1 DEF Cancel, TouchTypeOK
    <3>3. /\ contacts' \subseteq contacts /\ IsFiniteSet(contacts')
          /\ Cardinality(contacts') <= Slots
          /\ ~ crossed => \A c \in contacts' : c[1] # i
      BY <1>0, <3>1, <3>2, TableEnds DEF OneContact
    <3>4. TouchTypeOK' /\ Places'
      BY <1>0, <3>1, <3>2, <3>3 DEF TouchTypeOK, Places
    <3>5. DownsAreNoted' /\ OneContact'
      BY <1>0, <3>2, <3>3 DEF DownsAreNoted, OneContact
    <3>6. LiftIsComing' /\ HeldCoversContacts'
      BY <1>0, <3>1, <3>2, <3>3 DEF LiftIsComing, HeldCoversContacts
    <3> QED  BY <3>3, <3>4, <3>5, <3>6 DEF TouchInv
  <2> QED  BY <2>1, <2>2
<1>9. ASSUME NEW i \in Id, Down(i) PROVE TouchInv'
  <2>0. /\ step = "idle" /\ finger[i] = 0 /\ downs' \in 0 .. MaxDown /\ downs' # 0
        /\ finger' = [finger EXCEPT ![i] = downs']
        /\ UNCHANGED <<rdpei, suspended, held, callback, contacts, crossed>>
        /\ finger \in [Id -> 0 .. MaxDown] /\ finger' \in [Id -> 0 .. MaxDown]
    BY <1>9, <1>0 DEF Down, Check, TouchTypeOK
  <2>1. ~ crossed => \A c \in contacts : c[1] = i => c[1] \in cancels \/ suspending = "flagged"
    BY <1>0, <2>0 DEF LiftIsComing
  <2>2. CASE rdpei /\ ~ suspended
    <3>1. step' = "checked" /\ sending' = [id |-> i, phase |-> "Down"]
      BY <1>9, <2>2 DEF Down, Check
    <3>2. sending' \in Sending /\ sending'.id = i /\ sending'.phase = "Down" /\ sending' # None
      BY <3>1 DEF Sending, None
    <3>3. suspending = "no" /\ cancels = {}
      BY <1>0, <2>2 DEF Places, TouchTypeOK
    <3>4. ~ crossed => \A c \in contacts : c[1] # i
      BY <2>1, <3>3
    <3> HIDE DEF caller, call
    <3>5. TouchTypeOK'
      BY <1>0, <2>0, <3>1, <3>2 DEF TouchTypeOK
    <3>6. Places' /\ OneContact'
      BY <1>0, <2>0, <2>2, <3>1, <3>2 DEF Places, OneContact
    <3>7. DownsAreNoted'
      BY <1>0, <2>0, <2>2, <3>1, <3>2, <3>4 DEF DownsAreNoted
    <3>8. LiftIsComing' /\ HeldCoversContacts'
      BY <1>0, <2>0, <3>1, <3>2, <3>3, <3>4 DEF LiftIsComing, HeldCoversContacts
    <3> QED  BY <1>0, <2>0, <3>5, <3>6, <3>7, <3>8 DEF TouchInv
  <2>3. CASE ~ (rdpei /\ ~ suspended)
    <3>1. step' = step /\ sending' = sending
      BY <1>9, <2>3 DEF Down, Check
    <3>2. TouchTypeOK' /\ Places' /\ OneContact'
      BY <1>0, <2>0, <3>1 DEF TouchTypeOK, Places, OneContact
    <3>3. DownsAreNoted' /\ HeldCoversContacts'
      BY <1>0, <2>0, <3>1 DEF DownsAreNoted, HeldCoversContacts
    <3>4. LiftIsComing'
      BY <1>0, <2>0, <2>1, <3>1 DEF LiftIsComing
    <3> QED  BY <1>0, <2>0, <3>2, <3>3, <3>4 DEF TouchInv
  <2> QED  BY <2>2, <2>3
<1>10. ASSUME NEW i \in Id, Up(i) PROVE TouchInv'
  <2>0. /\ step = "idle" /\ downs' = downs
        /\ finger' = [finger EXCEPT ![i] = 0]
        /\ UNCHANGED <<rdpei, suspended, held, callback, contacts, crossed>>
        /\ finger \in [Id -> 0 .. MaxDown] /\ finger' \in [Id -> 0 .. MaxDown]
    BY <1>10, <1>0 DEF Up, Check, TouchTypeOK
  <2>1. CASE rdpei /\ ~ suspended
    <3>1. step' = "checked" /\ sending' = [id |-> i, phase |-> "Up"]
      BY <1>10, <2>1 DEF Up, Check
    <3>2. sending' \in Sending /\ sending'.id = i /\ sending'.phase = "Up" /\ sending' # None
      BY <3>1 DEF Sending, None
    <3>3. TouchTypeOK'
      BY <1>0, <2>0, <3>1, <3>2 DEF TouchTypeOK
    <3>4. Places' /\ OneContact' /\ DownsAreNoted'
      BY <1>0, <2>0, <2>1, <3>1, <3>2 DEF Places, OneContact, DownsAreNoted
    <3>5. LiftIsComing' /\ HeldCoversContacts'
      BY <1>0, <2>0, <3>1, <3>2 DEF LiftIsComing, HeldCoversContacts
    <3> QED  BY <1>0, <2>0, <3>3, <3>4, <3>5 DEF TouchInv
  <2>2. CASE ~ (rdpei /\ ~ suspended)
    <3>1. step' = step /\ sending' = sending
      BY <1>10, <2>2 DEF Up, Check
    <3>2. TouchTypeOK' /\ Places' /\ OneContact'
      BY <1>0, <2>0, <3>1 DEF TouchTypeOK, Places, OneContact
    <3>3. DownsAreNoted' /\ HeldCoversContacts'
      BY <1>0, <2>0, <3>1 DEF DownsAreNoted, HeldCoversContacts
    <3>4. ~ crossed => \A c \in contacts : c[1] \in cancels \/ suspending = "flagged"
      BY <1>0, <2>0, <2>2 DEF HeldCoversContacts, DownsAreNoted
    <3>5. LiftIsComing'
      BY <2>0, <3>4 DEF LiftIsComing
    <3> QED  BY <1>0, <2>0, <3>2, <3>3, <3>5 DEF TouchInv
  <2> QED  BY <2>1, <2>2
<1>11. CASE UNCHANGED touchvars
  BY <1>0, <1>11 DEF touchvars, TouchInv, TouchTypeOK, Places, DownsAreNoted, OneContact,
     LiftIsComing, HeldCoversContacts
<1> QED
  BY <1>1, <1>2, <1>3, <1>4, <1>5, <1>6, <1>7, <1>8, <1>9, <1>10, <1>11
  DEF TouchNext, SendTouch, Callback

LEMMA TouchAlways == TouchSpec => []TouchInv
<1>1. TouchInit => TouchInv
  <2> SUFFICES ASSUME TouchInit PROVE TouchInv
    OBVIOUS
  <2>1. IsFiniteSet({}) /\ Cardinality({}) = 0 /\ Slots \in Nat /\ MaxDown \in Nat
    BY FS_EmptySet, TouchAssumption DEF TouchAssumption
  <2>2. TouchTypeOK /\ IsFiniteSet(contacts)
    <3>1. /\ Cardinality(contacts) <= Slots /\ downs \in 0 .. MaxDown
          /\ finger \in [Id -> 0 .. MaxDown] /\ IsFiniteSet(contacts)
      BY <2>1 DEF TouchInit
    <3> QED  BY <3>1 DEF TouchInit, TouchTypeOK
  <2>3. Places /\ DownsAreNoted /\ OneContact /\ LiftIsComing /\ HeldCoversContacts
    BY DEF TouchInit, Places, Handling, DownsAreNoted, OneContact, LiftIsComing,
           HeldCoversContacts
  <2> QED  BY <2>2, <2>3 DEF TouchInv
<1> QED  BY <1>1, TouchStep, PTL DEF TouchSpec

(* The plugin's table stays within its slots, and is empty while the       *)
(* channel is closed.                                                      *)
THEOREM TouchTypes == TouchSpec => []TouchTypeOK
<1>1. TouchInv => TouchTypeOK
  BY DEF TouchInv
<1> QED  BY <1>1, TouchAlways, PTL

(* No order of the two threads leaves the host with a finger that the      *)
(* caller lifted, for any number of ids and slots, unless a suspend falls  *)
(* inside the send_touch of a Down.                                        *)
THEOREM NoFingerIsStuck == TouchSpec => []HostHoldsFingers
<1>1. TouchInv => HostHoldsFingers
  BY DEF TouchInv, LiftIsComing, Handling, HostHoldsFingers
<1> QED  BY <1>1, TouchAlways, PTL

(* A suspend finds every contact the host has in the table it takes.       *)
THEOREM SuspendKnowsAll == TouchSpec => []HeldCoversContacts
<1>1. TouchInv => HeldCoversContacts
  BY DEF TouchInv
<1> QED  BY <1>1, TouchAlways, PTL
(* When a suspend is through, and until a resume, the host has no finger:  *)
(* what SuspendLiftsAll says of the end, without saying that it comes.     *)
SuspendLeavesNothing ==
  ~ crossed /\ suspended /\ suspending = "no" /\ step = "idle" => contacts = {}

(* A suspend leaves no finger, and no Down gets past it until the resume.  *)
THEOREM SuspendIsThorough == TouchSpec => []SuspendLeavesNothing
<1>1. TouchInv => SuspendLeavesNothing
  <2> SUFFICES ASSUME TouchInv, ~ crossed, suspended, suspending = "no", step = "idle"
               PROVE  contacts = {}
    BY DEF SuspendLeavesNothing
  <2>1. held = {} /\ cancels = {}
    BY DEF TouchInv, DownsAreNoted, Places
  <2> QED  BY <2>1 DEF TouchInv, HeldCoversContacts
<1> QED  BY <1>1, TouchAlways, PTL
=============================================================================
