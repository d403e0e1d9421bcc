------------------------ MODULE ControlChannelProofs ------------------------
(***************************************************************************)
(* Theorems about ControlChannel when no read is dropped in a frame: the   *)
(* reads of the server, those of both sides in exchange_results, and the   *)
(* client's where select! drops none that has taken a byte.                *)
(***************************************************************************)
EXTENDS ControlChannel, TLAPS

\* Frames lie one behind the other and fill what was written.
FramesInv ==
  \A k \in DOMAIN starts :
    /\ starts[k] < written
    /\ starts[k] + Header + sent[k] = IF k = Len(starts) THEN written ELSE starts[k + 1]
    /\ \A j \in DOMAIN starts : j < k => starts[j] < starts[k]

\* The reader stands at the frame that follows the messages it returned.
PlaceInv ==
  /\ Len(received) <= Len(sent)
  /\ from = IF Len(received) < Len(sent) THEN starts[Len(received) + 1] ELSE written
  /\ failed \in {"none", "ConnectionWasClosedByPeer"}

\* A length is the one of that frame, and the reader is inside the frame.
LengthInv ==
  IF length = Unknown
  THEN pos < from + Header \/ failed # "none"
  ELSE /\ Len(received) < Len(sent) /\ length = sent[Len(received) + 1]
       /\ pos >= from + Header /\ pos <= from + Header + length

ChannelInv == TypeOK /\ FramesInv /\ PlaceInv /\ LengthInv

-----------------------------------------------------------------------------
\* Putting a message behind the others.
LEMMA AppendAtEnd ==
  ASSUME NEW S, NEW q \in Seq(S), NEW m \in S
  PROVE  /\ Append(q, m) \in Seq(S)
         /\ Len(Append(q, m)) = Len(q) + 1 /\ Len(q) \in Nat
         /\ DOMAIN Append(q, m) = 1 .. Len(q) + 1 /\ DOMAIN q = 1 .. Len(q)
         /\ Append(q, m)[Len(q) + 1] = m
         /\ \A k \in 1 .. Len(q) : Append(q, m)[k] = q[k]
OBVIOUS

\* The types of the numbers every step computes with.
LEMMA Numbers ==
  ASSUME TypeOK
  PROVE  /\ Header \in Nat \ {0} /\ MaxSize \in Nat
         /\ written \in Nat /\ arrived \in Nat /\ pos \in Nat /\ from \in Nat
         /\ arrived <= written /\ pos <= arrived /\ from <= pos
         /\ Len(sent) \in Nat /\ Len(received) \in Nat /\ Len(starts) = Len(sent)
         /\ DOMAIN starts = 1 .. Len(sent) /\ DOMAIN sent = 1 .. Len(sent)
         /\ \A k \in 1 .. Len(sent) : starts[k] \in Nat /\ sent[k] \in 1 .. MaxSize
<1>1. /\ Header \in Nat \ {0} /\ MaxSize \in Nat
      /\ written \in Nat /\ arrived \in Nat /\ pos \in Nat /\ from \in Nat
      /\ arrived <= written /\ pos <= arrived /\ from <= pos
  BY ChannelAssumption DEF TypeOK
<1>2. /\ sent \in Seq(Payloads) /\ starts \in Seq(Nat) /\ received \in Seq(0 .. MaxSize)
      /\ Len(starts) = Len(sent)
  BY DEF TypeOK
<1>3. /\ Len(sent) \in Nat /\ Len(received) \in Nat
      /\ DOMAIN starts = 1 .. Len(sent) /\ DOMAIN sent = 1 .. Len(sent)
  BY <1>2
<1>4. ASSUME NEW k \in 1 .. Len(sent) PROVE starts[k] \in Nat /\ sent[k] \in 1 .. MaxSize
  <2>1. starts[k] \in Nat
    BY <1>2, <1>3
  <2>2. sent[k] \in Payloads
    BY <1>2, <1>3
  <2> QED
    BY <2>1, <2>2, ChannelAssumption
<1> QED
  BY <1>1, <1>2, <1>3, <1>4

\* The frame at the reader's position is the one of the next message.
LEMMA NextFrame ==
  ASSUME ChannelInv, from < written
  PROVE  Len(received) < Len(sent) /\ FrameAt(from) = {Len(received) + 1}
<1> DEFINE n == Len(received) + 1
<1>1. Len(received) < Len(sent) /\ from = starts[n] /\ n \in DOMAIN starts
  BY Numbers DEF ChannelInv, PlaceInv
<1>2. ASSUME NEW k \in DOMAIN starts, starts[k] = from PROVE k = n
  <2>1. /\ k < n => starts[k] < starts[n]
        /\ n < k => starts[n] < starts[k]
    BY <1>1 DEF ChannelInv, FramesInv
  <2>2. k \in Nat /\ n \in Nat /\ starts[k] \in Nat
    BY <1>1, Numbers DEF ChannelInv
  <2> QED
    BY <1>1, <1>2, <2>1, <2>2
<1> QED
  BY <1>1, <1>2 DEF FrameAt

-----------------------------------------------------------------------------
\* write_control_message puts the frame where the last one ended.
LEMMA WriteStep == ChannelInv /\ Write => ChannelInv'
<1> SUFFICES ASSUME ChannelInv, Write PROVE ChannelInv'
  OBVIOUS
<1>1. PICK p \in Payloads : /\ sent' = Append(sent, p)
                            /\ starts' = Append(starts, written)
                            /\ written' = written + Header + p
  BY DEF Write
<1>2. p \in 1 .. MaxSize /\ UNCHANGED <<arrived, pos, calling, from, length, received, failed>>
  BY ChannelAssumption DEF Write, reader
<1>3. TypeOK
  BY DEF ChannelInv
<1>4. /\ sent' \in Seq(Payloads) /\ starts' \in Seq(Nat)
      /\ Len(sent') = Len(sent) + 1 /\ Len(starts') = Len(sent) + 1
      /\ DOMAIN starts' = 1 .. Len(sent) + 1
      /\ sent'[Len(sent) + 1] = p /\ starts'[Len(sent) + 1] = written
      /\ \A k \in 1 .. Len(sent) : sent'[k] = sent[k] /\ starts'[k] = starts[k]
  <2>1. sent \in Seq(Payloads) /\ starts \in Seq(Nat) /\ written \in Nat /\ Len(starts) = Len(sent)
    BY <1>3 DEF TypeOK
  <2> QED
    BY <1>1, <2>1, AppendAtEnd
<1>5. TypeOK'
  BY <1>1, <1>2, <1>3, <1>4, Numbers DEF TypeOK, Write
<1>6. FramesInv'
  <2> DEFINE n == Len(sent) + 1
  <2>0. /\ n \in Nat /\ Len(starts) = n - 1 /\ DOMAIN starts = 1 .. n - 1
        /\ written \in Nat /\ Header + p \in Nat \ {0}
        /\ \A k \in 1 .. n - 1 : starts[k] \in Nat
    BY <1>2, <1>3, Numbers
  <2>1. /\ DOMAIN starts' = 1 .. n /\ Len(starts') = n
        /\ starts'[n] = written /\ sent'[n] = p /\ written' = written + (Header + p)
        /\ \A k \in 1 .. n - 1 : sent'[k] = sent[k] /\ starts'[k] = starts[k]
    <3>1. Len(sent) \in Nat /\ Header \in Nat
      BY <1>3, Numbers
    <3>2. n - 1 = Len(sent)
      BY <3>1
    <3>3. written' = written + (Header + p)
      BY <1>1, <1>2, <2>0, <3>1
    <3> QED
      BY <1>4, <3>2, <3>3
  <2>2. \A k \in 1 .. n - 1 :
          /\ starts[k] < written
          /\ starts[k] + Header + sent[k] = IF k = n - 1 THEN written ELSE starts[k + 1]
          /\ \A j \in 1 .. n - 1 : j < k => starts[j] < starts[k]
    BY <2>0 DEF ChannelInv, FramesInv
  <2> HIDE DEF n
  <2>3. ASSUME NEW k \in 1 .. n PROVE starts'[k] < written'
    <3>1. CASE k = n
      BY <2>0, <2>1, <3>1
    <3>2. CASE k \in 1 .. n - 1
      <4>1. starts'[k] = starts[k] /\ starts[k] < written /\ starts[k] \in Nat
        BY <2>0, <2>1, <2>2, <3>2
      <4> QED
        BY <2>0, <2>1, <4>1
    <3> QED
      BY <2>0, <3>1, <3>2
  <2>4. ASSUME NEW k \in 1 .. n, NEW j \in 1 .. n, j < k PROVE starts'[j] < starts'[k]
    <3>1. j \in 1 .. n - 1 /\ starts'[j] = starts[j]
      BY <2>0, <2>1, <2>4
    <3>2. CASE k = n
      BY <2>1, <2>2, <3>1, <3>2
    <3>3. CASE k \in 1 .. n - 1
      BY <2>1, <2>2, <2>4, <3>1, <3>3
    <3> QED
      BY <2>0, <3>2, <3>3
  <2>5. ASSUME NEW k \in 1 .. n
        PROVE  starts'[k] + Header + sent'[k] = IF k = n THEN written' ELSE starts'[k + 1]
    <3>1. CASE k = n
      BY <1>1, <2>1, <3>1
    <3>2. CASE k \in 1 .. n - 1
      <4>1. starts'[k] + Header + sent'[k] = IF k = n - 1 THEN written ELSE starts[k + 1]
        BY <2>1, <2>2, <3>2
      <4>2. starts'[k + 1] = IF k = n - 1 THEN written ELSE starts[k + 1]
        BY <2>0, <2>1, <3>2
      <4> QED
        BY <2>0, <3>2, <4>1, <4>2
    <3> QED
      BY <2>0, <3>1, <3>2
  <2> QED
    BY <2>1, <2>3, <2>4, <2>5 DEF FramesInv
<1>7. PlaceInv'
  <2>0. /\ Len(received) \in Nat /\ Len(sent) \in Nat /\ Len(received) <= Len(sent)
        /\ from = IF Len(received) < Len(sent) THEN starts[Len(received) + 1] ELSE written
        /\ failed \in {"none", "ConnectionWasClosedByPeer"}
    BY <1>3, Numbers DEF ChannelInv, PlaceInv
  <2>1. Len(received) < Len(sent') /\ UNCHANGED <<received, from, failed>>
    BY <1>2, <1>4, <2>0
  <2>2. starts'[Len(received) + 1] = from
    <3>1. CASE Len(received) < Len(sent)
      <4>1. Len(received) + 1 \in 1 .. Len(sent)
        BY <2>0, <3>1
      <4> QED
        BY <1>4, <2>0, <3>1, <4>1
    <3>2. CASE Len(received) = Len(sent)
      BY <1>4, <2>0, <3>2
    <3> QED
      BY <2>0, <3>1, <3>2
  <2> QED
    BY <2>0, <2>1, <2>2 DEF PlaceInv
<1>8. LengthInv'
  <2>1. LengthInv
    BY DEF ChannelInv
  <2>2. ASSUME length # Unknown PROVE sent'[Len(received) + 1] = sent[Len(received) + 1]
    <3>1. Len(received) < Len(sent) /\ Len(received) \in Nat /\ Len(sent) \in Nat
      BY <1>3, <2>1, <2>2, Numbers DEF LengthInv
    <3>2. Len(received) + 1 \in 1 .. Len(sent)
      BY <3>1
    <3> QED
      BY <1>4, <3>2
  <2>3. Len(received) < Len(sent) => Len(received) < Len(sent')
    BY <1>3, <1>4, Numbers
  <2> QED
    BY <1>2, <2>1, <2>2, <2>3 DEF LengthInv
<1> QED
  BY <1>5, <1>6, <1>7, <1>8 DEF ChannelInv

\* read_u32 finds the length of the next message, which is not too large.
LEMMA ReadLengthStep == ChannelInv /\ ReadLength => ChannelInv'
<1> SUFFICES ASSUME ChannelInv, ReadLength PROVE ChannelInv'
  OBVIOUS
<1>1. TypeOK /\ FramesInv /\ PlaceInv /\ LengthInv
  BY DEF ChannelInv
<1>2. from < written
  BY <1>1, Numbers DEF ReadLength
<1>3. Len(received) < Len(sent) /\ LengthsAt(from) = {sent[Len(received) + 1]}
  BY <1>2, NextFrame DEF LengthsAt
<1>4. sent[Len(received) + 1] \in 1 .. MaxSize
  BY <1>1, <1>3, Numbers
<1>5. /\ pos' \in pos .. arrived /\ pos' <= from + Header
      /\ UNCHANGED <<sent, starts, written, closed, arrived, calling, from, received>>
  <2>1. /\ pos' = (IF arrived < from + Header THEN arrived ELSE from + Header)
        /\ pos < arrived /\ length = Unknown
    BY DEF ReadLength, HeaderTaken
  <2>2. pos < from + Header
    BY <1>1, <2>1 DEF LengthInv, ReadLength, Reading
  <2> QED
    BY <1>1, <2>1, <2>2, Numbers DEF ReadLength, writer
<1>6. /\ failed' = failed
      /\ \/ length' = Unknown /\ pos' < from + Header
         \/ length' = sent[Len(received) + 1] /\ pos' = from + Header
  <2>1. CASE pos' < from + Header
    BY <2>1 DEF ReadLength
  <2>2. CASE ~(pos' < from + Header)
    <3>1. PICK size \in LengthsAt(from) :
            IF TooLarge(size)
            THEN failed' = "ControlMessageTooLarge" /\ UNCHANGED length
            ELSE length' = size /\ UNCHANGED failed
      BY <2>2 DEF ReadLength
    <3>2. size = sent[Len(received) + 1] /\ ~TooLarge(size)
      BY <1>1, <1>3, <1>4, <3>1, Numbers DEF TooLarge
    <3>3. pos' \in Nat /\ pos' = from + Header
      BY <1>1, <1>5, <2>2, Numbers
    <3> QED
      BY <3>1, <3>2, <3>3
  <2> QED
    BY <2>1, <2>2
<1>7. TypeOK'
  BY <1>1, <1>4, <1>5, <1>6, Numbers DEF TypeOK
<1>8. FramesInv' /\ PlaceInv'
  BY <1>1, <1>5, <1>6 DEF FramesInv, PlaceInv
<1>9. LengthInv'
  <2>1. CASE length' = Unknown /\ pos' < from + Header
    BY <1>5, <2>1 DEF LengthInv
  <2>2. CASE length' = sent[Len(received) + 1] /\ pos' = from + Header
    <3>1. length' # Unknown /\ length' \in Nat
      BY <1>4, <2>2 DEF Unknown
    <3>2. pos' >= from + Header /\ pos' <= from + Header + length'
      BY <1>1, <2>2, <3>1, Numbers
    <3> QED
      BY <1>3, <1>5, <2>2, <3>1, <3>2 DEF LengthInv
  <2> QED
    BY <1>6, <2>1, <2>2
<1> QED
  BY <1>7, <1>8, <1>9 DEF ChannelInv

\* The loop of read_control_message never reads over the end of the frame.
LEMMA ReadPayloadStep == ChannelInv /\ ReadPayload => ChannelInv'
<1> SUFFICES ASSUME ChannelInv, ReadPayload PROVE ChannelInv'
  OBVIOUS
<1>1. TypeOK /\ FramesInv /\ PlaceInv /\ LengthInv
  BY DEF ChannelInv
<1>2. length \in Nat
  BY <1>1 DEF TypeOK, ReadPayload
<1>3. /\ pos' \in pos + 1 .. arrived /\ pos' <= from + Header + length
      /\ UNCHANGED <<sent, starts, written, closed, arrived, calling, from, length, received,
                   failed>>
  <2>1. /\ pos \in Nat /\ arrived \in Nat /\ from \in Nat /\ Header \in Nat
    BY <1>1, Numbers
  <2>2. /\ pos' \in pos + 1 .. pos + Take
        /\ UNCHANGED <<sent, starts, written, closed, arrived, calling, from, length, received,
                       failed>>
    BY DEF ReadPayload, writer
  <2>3. Take \in Int /\ pos + Take <= arrived /\ pos + Take <= from + Header + length
    BY <1>2, <2>1 DEF Take, Remaining
  <2>4. pos' \in pos + 1 .. arrived /\ pos' <= from + Header + length
    BY <1>2, <2>1, <2>2, <2>3
  <2> QED
    BY <2>2, <2>4
<1>4. TypeOK'
  BY <1>1, <1>3, Numbers DEF TypeOK
<1>5. FramesInv' /\ PlaceInv'
  BY <1>1, <1>3 DEF FramesInv, PlaceInv
<1>6. LengthInv'
  <2>1. length # Unknown /\ pos >= from + Header
    BY <1>1 DEF LengthInv, ReadPayload
  <2>2. pos' >= from + Header
    BY <1>1, <1>3, <2>1, Numbers
  <2> QED
    BY <1>1, <1>3, <2>1, <2>2 DEF LengthInv
<1> QED
  BY <1>4, <1>5, <1>6 DEF ChannelInv

\* What a completed read returns is the next message.
LEMMA DecodeReturns ==
  ASSUME ChannelInv, Decode
  PROVE  /\ Len(received) < Len(sent)
         /\ received' = Append(received, sent[Len(received) + 1])
         /\ failed' = failed
         /\ from' = from + Header + sent[Len(received) + 1] /\ pos = from'
<1>1. TypeOK /\ FramesInv /\ PlaceInv /\ LengthInv
  BY DEF ChannelInv
<1>2. /\ Len(received) < Len(sent) /\ length = sent[Len(received) + 1]
      /\ pos <= from + Header + length
  BY <1>1 DEF Decode, LengthInv
<1>3. length \in Nat
  BY <1>1, <1>2, Numbers
<1>4. pos = from + Header + length
  <2>1. from + Header + length - pos <= 0
    BY DEF Decode, Whole, Remaining
  <2>2. from \in Nat /\ Header \in Nat /\ pos \in Nat
    BY <1>1, Numbers
  <2> QED
    BY <1>2, <1>3, <2>1, <2>2
<1>5. from < written
  BY <1>1, <1>3, <1>4, Numbers
<1>6. Len(received) + 1 \in FrameAt(from)
  BY <1>5, NextFrame
<1> QED
  BY <1>2, <1>4, <1>6 DEF Decode

\* A completed read leaves the reader at the frame that follows.
LEMMA DecodeStep == ChannelInv /\ Decode => ChannelInv'
<1> SUFFICES ASSUME ChannelInv, Decode PROVE ChannelInv'
  OBVIOUS
<1> DEFINE n == Len(received) + 1
<1>1. TypeOK /\ FramesInv /\ PlaceInv
  BY DEF ChannelInv
<1>2. /\ Len(received) < Len(sent) /\ received' = Append(received, sent[n])
      /\ failed' = failed /\ from' = from + Header + sent[n] /\ pos = from'
  BY DecodeReturns
<1>3. /\ UNCHANGED <<sent, starts, written, closed, arrived, pos>>
      /\ length' = Unknown /\ calling' = FALSE
  BY DEF Decode, writer
<1>4. n \in 1 .. Len(sent) /\ sent[n] \in 0 .. MaxSize
  BY <1>1, <1>2, Numbers
<1>5. received' \in Seq(0 .. MaxSize) /\ Len(received') = n
  <2>1. received \in Seq(0 .. MaxSize)
    BY <1>1 DEF TypeOK
  <2> QED
    BY <1>2, <1>4, <2>1, AppendAtEnd
<1>6. TypeOK'
  <2>1. pos \in 0 .. arrived /\ from' \in 0 .. pos
    BY <1>1, <1>2, Numbers
  <2>2. calling' \in BOOLEAN /\ length' \in 0 .. MaxSize \cup {Unknown}
    BY <1>3
  <2> QED
    BY <1>1, <1>2, <1>3, <1>5, <2>1, <2>2 DEF TypeOK
<1>7. from' = IF n < Len(sent) THEN starts[n + 1] ELSE written
  <2>1. from = starts[n] /\ n \in DOMAIN starts
    BY <1>1, <1>2, <1>4, Numbers DEF PlaceInv
  <2>2. starts[n] + Header + sent[n] = IF n = Len(sent) THEN written ELSE starts[n + 1]
    BY <1>1, <2>1, Numbers DEF FramesInv
  <2>3. from' = IF n = Len(sent) THEN written ELSE starts[n + 1]
    BY <1>2, <2>1, <2>2
  <2>4. n \in Nat /\ Len(sent) \in Nat /\ n <= Len(sent)
    BY <1>1, <1>4, Numbers
  <2> HIDE DEF n
  <2> QED
    BY <2>3, <2>4
<1>8. FramesInv' /\ PlaceInv' /\ LengthInv'
  <2>1. n <= Len(sent)
    BY <1>1, <1>4, Numbers
  <2>2. FramesInv'
    BY <1>1, <1>3 DEF FramesInv
  <2>3. PlaceInv'
    BY <1>1, <1>2, <1>3, <1>5, <1>7, <2>1 DEF PlaceInv
  <2>4. pos' < from' + Header
    BY <1>1, <1>2, <1>3, <1>6, Numbers DEF TypeOK
  <2>5. LengthInv'
    BY <1>3, <2>4 DEF LengthInv
  <2> QED
    BY <2>2, <2>3, <2>5
<1> QED
  BY <1>6, <1>8 DEF ChannelInv

\* The steps that move no byte of a frame: Arrive, Close, Call, EndOfStream.
LEMMA OtherSteps == ChannelInv /\ (Arrive \/ Close \/ Call \/ EndOfStream) => ChannelInv'
<1> SUFFICES ASSUME ChannelInv, Arrive \/ Close \/ Call \/ EndOfStream PROVE ChannelInv'
  OBVIOUS
<1>1. TypeOK /\ FramesInv /\ PlaceInv /\ LengthInv
  BY DEF ChannelInv
<1>2. /\ UNCHANGED <<sent, starts, written, pos, from, length, received>>
      /\ arrived' \in arrived .. written
      /\ closed' \in BOOLEAN /\ calling' \in BOOLEAN
      /\ failed' \in {failed, "ConnectionWasClosedByPeer"}
  <2>1. closed \in BOOLEAN /\ calling \in BOOLEAN
    BY <1>1 DEF TypeOK
  <2>2. arrived \in Nat /\ written \in Nat /\ arrived <= written
    BY <1>1, Numbers
  <2>3. CASE Arrive
    BY <2>1, <2>2, <2>3 DEF Arrive, writer, reader
  <2>4. CASE Close
    BY <2>1, <2>2, <2>4 DEF Close, reader
  <2>5. CASE EndOfStream
    BY <2>1, <2>2, <2>5 DEF EndOfStream, writer
  <2>6. CASE Call
    BY <2>1, <2>2, <2>6 DEF Call, writer
  <2> QED
    BY <2>3, <2>4, <2>5, <2>6
<1>3. TypeOK'
  BY <1>1, <1>2, Numbers DEF TypeOK, Errors
<1>4. FramesInv' /\ PlaceInv'
  BY <1>1, <1>2 DEF FramesInv, PlaceInv
<1>5. LengthInv'
  BY <1>1, <1>2 DEF LengthInv
<1> QED
  BY <1>3, <1>4, <1>5 DEF ChannelInv

\* A call that is dropped before it has taken a byte leaves the reader in place.
LEMMA CancelStep == ASSUME ~CancelsInFrame PROVE ChannelInv /\ Cancel => ChannelInv'
<1> SUFFICES ASSUME ChannelInv, Cancel PROVE ChannelInv'
  OBVIOUS
<1>1. TypeOK /\ FramesInv /\ PlaceInv /\ LengthInv
  BY DEF ChannelInv
<1>2. /\ from = pos /\ from' = pos /\ calling' = FALSE /\ length' = Unknown
      /\ UNCHANGED <<sent, starts, written, closed, arrived, pos, received, failed>>
  BY DEF Cancel, writer
<1>3. length = Unknown
  <2>1. length # Unknown => pos >= from + Header
    BY <1>1 DEF LengthInv
  <2> QED
    BY <1>1, <1>2, <2>1, Numbers
<1>4. TypeOK'
  BY <1>1, <1>2, <1>3 DEF TypeOK
<1>5. FramesInv' /\ PlaceInv'
  BY <1>1, <1>2 DEF FramesInv, PlaceInv
<1>6. LengthInv'
  BY <1>1, <1>2, <1>3 DEF LengthInv
<1> QED
  BY <1>4, <1>5, <1>6 DEF ChannelInv

\* The conjunction holds initially.
LEMMA ChannelInit == Init => ChannelInv
<1> SUFFICES ASSUME Init PROVE ChannelInv
  OBVIOUS
<1>1. /\ sent = <<>> /\ starts = <<>> /\ received = <<>>
      /\ written = 0 /\ arrived = 0 /\ pos = 0 /\ from = 0
      /\ length = Unknown /\ failed = "none" /\ closed = FALSE /\ calling = FALSE
  BY DEF Init
<1>2. TypeOK
  <2>1. /\ sent \in Seq(Payloads) /\ starts \in Seq(Nat) /\ Len(starts) = Len(sent)
        /\ received \in Seq(0 .. MaxSize)
    BY <1>1
  <2>2. /\ written \in Nat /\ arrived \in 0 .. written
        /\ pos \in 0 .. arrived /\ from \in 0 .. pos
    BY <1>1
  <2>3. length \in 0 .. MaxSize \cup {Unknown} /\ failed \in Errors
    BY <1>1 DEF Errors
  <2>4. closed \in BOOLEAN /\ calling \in BOOLEAN
    BY <1>1
  <2> QED
    BY <2>1, <2>2, <2>3, <2>4 DEF TypeOK
<1>3. FramesInv /\ PlaceInv
  BY <1>1 DEF FramesInv, PlaceInv
<1>4. LengthInv
  BY <1>1, ChannelAssumption DEF LengthInv
<1> QED
  BY <1>2, <1>3, <1>4 DEF ChannelInv

\* A step of a channel whose reads are not dropped in a frame.
LEMMA ChannelStep == ASSUME ~CancelsInFrame PROVE ChannelInv /\ [Next]_vars => ChannelInv'
<1> SUFFICES ASSUME ChannelInv, [Next]_vars PROVE ChannelInv'
  OBVIOUS
<1>1. CASE UNCHANGED vars
  BY <1>1 DEF vars, ChannelInv, TypeOK, FramesInv, PlaceInv, LengthInv
<1> QED
  BY <1>1, WriteStep, ReadLengthStep, ReadPayloadStep, DecodeStep, CancelStep, OtherSteps
  DEF Next, ReaderStep

\* Unless a read is dropped in a frame the reader stays on the frames (read_control_message).
THEOREM ChannelInvariance == ASSUME ~CancelsInFrame PROVE Spec => []ChannelInv
<1>1. ChannelInv /\ [Next]_vars => ChannelInv'
  BY ChannelStep
<1> QED
  BY <1>1, ChannelInit, PTL DEF Spec

\* Every variable of the framed channel keeps its type.
THEOREM ChannelTypeCorrect == ASSUME ~CancelsInFrame PROVE Spec => []TypeOK
<1>1. ChannelInv => TypeOK
  BY DEF ChannelInv
<1> QED
  BY <1>1, ChannelInvariance, PTL

\* Every call of read_control_message finds the length of a frame first.
THEOREM NextReadAligned == ASSUME ~CancelsInFrame PROVE Spec => []NextReadFindsLength
<1>1. ASSUME ChannelInv PROVE NextReadFindsLength
  <2>1. TypeOK /\ PlaceInv
    BY <1>1 DEF ChannelInv
  <2>2. CASE Len(received) < Len(sent)
    <3>1. Len(received) + 1 \in DOMAIN starts /\ starts[Len(received) + 1] = from
      BY <2>1, <2>2, Numbers DEF PlaceInv
    <3> QED
      BY <3>1 DEF NextReadFindsLength, FrameAt
  <2>3. CASE ~(Len(received) < Len(sent))
    BY <2>1, <2>3 DEF PlaceInv, NextReadFindsLength
  <2> QED
    BY <2>2, <2>3
<1> QED
  BY <1>1, ChannelInvariance, PTL

\* The reader fails only at the end of the stream: no message of the program is
\* refused as too large or taken for something else.
THEOREM NoFalseAlarm == ASSUME ~CancelsInFrame PROVE Spec => []FailsOnlyAtTheEnd
<1>1. ChannelInv => FailsOnlyAtTheEnd
  BY DEF ChannelInv, PlaceInv, FailsOnlyAtTheEnd
<1> QED
  BY <1>1, ChannelInvariance, PTL

\* The channel implements a queue: the messages that are read are the ones that
\* were written, whole and in order.
THEOREM ImplementsFifo == ASSUME ~CancelsInFrame PROVE Spec => InOrder
<1>1. Init => Messages!Init
  BY DEF Init, Messages!Init
<1>2. ASSUME ChannelInv, [Next]_vars PROVE [Messages!Next]_<<sent, received>>
  <2>1. CASE Write
    <3>1. PICK p \in Payloads : sent' = Append(sent, p)
      BY <2>1 DEF Write
    <3>2. sent \in Seq(Payloads)
      BY <1>2 DEF ChannelInv, TypeOK
    <3>3. /\ Len(sent') = Len(sent) + 1 /\ DOMAIN sent = 1 .. Len(sent)
          /\ \A k \in 1 .. Len(sent) : sent'[k] = sent[k]
      BY <3>1, <3>2, AppendAtEnd
    <3>4. received' = received
      BY <2>1 DEF Write, reader
    <3> QED
      BY <3>3, <3>4 DEF Messages!Next, Messages!Send
  <2>2. CASE Decode
    <3>1. Len(received) < Len(sent) /\ received' = Append(received, sent[Len(received) + 1])
      BY <1>2, <2>2, DecodeReturns
    <3>2. sent' = sent
      BY <2>2 DEF Decode, writer
    <3> QED
      BY <3>1, <3>2 DEF Messages!Next, Messages!Receive
  <2>3. CASE UNCHANGED <<sent, received>>
    BY <2>3
  <2> QED
    BY <1>2, <2>1, <2>2, <2>3
    DEF Next, ReaderStep, Close, Arrive, ReadLength, ReadPayload, EndOfStream, Cancel, Call,
        writer, reader, vars
<1> QED
  BY <1>1, <1>2, ChannelInvariance, PTL DEF Spec, InOrder, Messages!Spec
=============================================================================
