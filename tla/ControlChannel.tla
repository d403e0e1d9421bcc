--------------------------- MODULE ControlChannel ---------------------------
(***************************************************************************)
(* One direction of the control socket, byte by byte: write_control_message*)
(* and read_control_message (src/net_util.rs). A frame is a length of      *)
(* Header bytes and a payload; TCP delivers any part of what was written.  *)
(* A position counts bytes from the start of the stream.                   *)
(*                                                                         *)
(* The reader may be cancelled: run_controller awaits client_read_message  *)
(* in a select!, which drops the future, and with it the bytes it has      *)
(* taken, when another branch is ready first. The server reads outside     *)
(* select!, and so do both sides in exchange_results. A call that is      *)
(* dropped before it has taken a byte does no harm.                       *)
(***************************************************************************)
EXTENDS Integers, Sequences

CONSTANTS
  Header,        \* MESSAGE_LENGTH_SIZE_BYTES
  MaxSize,       \* MAX_CONTROL_MESSAGE_SIZE
  Payloads,      \* payload sizes of the messages that are written
  MaxMessages,   \* bound: messages written in one direction
  CancelsInFrame \* a select! may drop a read that has taken part of a frame

ASSUME ChannelAssumption ==
  /\ Header \in Nat \ {0} /\ MaxSize \in Nat /\ MaxMessages \in Nat
  /\ Payloads \subseteq 1 .. MaxSize
  /\ CancelsInFrame \in BOOLEAN

VARIABLES
  sent,       \* the payloads written so far
  starts,     \* where the frame of each of them starts
  written,    \* bytes written
  arrived,    \* bytes that reached the reader's side
  closed,     \* the writer has closed the socket, or is gone
  pos,        \* bytes taken from the socket by the reader
  calling,    \* read_control_message has been called and has not returned
  from,       \* where its current call began, or where the next one does
  length,     \* its message_size, Unknown before the header is complete
  received,   \* the messages returned
  failed      \* the error that ended the reader

vars == <<sent, starts, written, arrived, closed, pos, calling, from,
          length, received, failed>>

Unknown == -1
Errors  == {"none", "ControlMessageTooLarge", "ConnectionWasClosedByPeer", "Serde"}

TypeOK ==
  /\ sent \in Seq(Payloads) /\ starts \in Seq(Nat) /\ Len(starts) = Len(sent)
  /\ written \in Nat /\ arrived \in 0 .. written
  /\ closed \in BOOLEAN
  /\ pos \in 0 .. arrived /\ from \in 0 .. pos /\ calling \in BOOLEAN
  /\ length \in 0 .. MaxSize \cup {Unknown}
  /\ received \in Seq(0 .. MaxSize)
  /\ failed \in Errors

Init ==
  /\ sent = <<>> /\ starts = <<>> /\ written = 0 /\ arrived = 0 /\ closed = FALSE
  /\ pos = 0 /\ calling = FALSE /\ from = 0 /\ length = Unknown
  /\ received = <<>> /\ failed = "none"

writer == <<sent, starts, written, closed>>
reader == <<pos, calling, from, length, received, failed>>

-----------------------------------------------------------------------------
\* write_control_message: the frame is written whole, behind the others.
Write ==
  /\ ~closed /\ Len(sent) < MaxMessages
  /\ \E p \in Payloads :
       /\ sent' = Append(sent, p)
       /\ starts' = Append(starts, written)
       /\ written' = written + Header + p
  /\ UNCHANGED <<arrived, closed, reader>>

Close ==
  /\ ~closed /\ closed' = TRUE
  /\ UNCHANGED <<sent, starts, written, arrived, reader>>

Arrive ==
  /\ arrived < written
  /\ arrived' \in arrived + 1 .. written
  /\ UNCHANGED <<writer, reader>>

-----------------------------------------------------------------------------
\* A side awaits the next message: client_read_message, server_read_message.
Call ==
  /\ failed = "none" /\ ~calling /\ calling' = TRUE
  /\ UNCHANGED <<writer, arrived, pos, from, length, received, failed>>

\* The call is polled.
Reading == calling /\ failed = "none"

\* The frame that starts at a position, if one does.
FrameAt(p) == {k \in DOMAIN starts : starts[k] = p}

\* What read_u32 returns: a length where a frame starts, else part of a frame
\* taken for one.
LengthsAt(p) == IF FrameAt(p) = {} THEN 0 .. MaxSize + 1
                ELSE {sent[k] : k \in FrameAt(p)}

\* Mutant: the largest message is refused too.
TooLargeOrEqual(size) == size >= MaxSize

TooLarge(size) == size > MaxSize

\* Mutant: the header is taken for complete whatever arrived.
HeaderAssumed == from + Header

HeaderTaken == IF arrived < from + Header THEN arrived ELSE from + Header

\* read_u32: takes what has arrived of the header.
ReadLength ==
  /\ Reading /\ length = Unknown /\ pos < arrived
  /\ pos' = HeaderTaken
  /\ IF pos' < from + Header
     THEN UNCHANGED <<length, failed>>
     ELSE \E size \in LengthsAt(from) :
            IF TooLarge(size)
            THEN failed' = "ControlMessageTooLarge" /\ UNCHANGED length
            ELSE length' = size /\ UNCHANGED failed
  /\ UNCHANGED <<writer, arrived, calling, from, received>>

Remaining == from + Header + length - pos

\* Mutant: the read is not limited to the remaining bytes.
Unlimited == arrived - pos

Take == IF Remaining < arrived - pos THEN Remaining ELSE arrived - pos

\* One read_buf of the loop: at least one byte, at most the remaining ones.
ReadPayload ==
  /\ Reading /\ length # Unknown /\ Remaining > 0 /\ pos < arrived
  /\ pos' \in pos + 1 .. pos + Take
  /\ UNCHANGED <<writer, arrived, calling, from, length, received, failed>>

\* Mutant: one byte too many is awaited.
WholeAndMore == Remaining < 0

Whole == Remaining <= 0

\* serde_json: a payload that is not the whole of one frame is no message.
Decode ==
  /\ Reading /\ length # Unknown /\ Whole
  /\ calling' = FALSE /\ from' = pos /\ length' = Unknown
  /\ IF \E k \in FrameAt(from) : sent[k] = length
     THEN received' = Append(received, length) /\ UNCHANGED failed
     ELSE failed' = "Serde" /\ UNCHANGED received
  /\ UNCHANGED <<writer, arrived, pos>>

\* The end of the stream, in the header (an IoError there) or in the payload;
\* what had not arrived may be lost with the peer.
EndOfStream ==
  /\ Reading /\ closed /\ pos = arrived
  /\ length = Unknown \/ Remaining > 0
  /\ failed' = "ConnectionWasClosedByPeer"
  /\ UNCHANGED <<writer, arrived, pos, calling, from, length, received>>

\* Another branch of the select! is ready and drops the call, which awaits the
\* header or the payload: the next one starts where this one stopped.
Cancel ==
  /\ Reading /\ (length = Unknown \/ Remaining > 0)
  /\ CancelsInFrame \/ from = pos
  /\ calling' = FALSE /\ from' = pos /\ length' = Unknown
  /\ UNCHANGED <<writer, arrived, pos, received, failed>>

ReaderStep == ReadLength \/ ReadPayload \/ Decode \/ EndOfStream

Next == Write \/ Close \/ Arrive \/ Call \/ ReaderStep \/ Cancel

Spec == Init /\ [][Next]_vars

\* TCP delivers what was written; select! polls its branches in random order, so
\* a read that is called again and again is polled in the end.
FairSpec == Spec /\ WF_vars(Arrive) /\ WF_vars(Call) /\ SF_vars(ReaderStep)

-----------------------------------------------------------------------------
(* Properties.                                                             *)

\* "The next read should find the LENGTH as the first 4 bytes": every call of
\* read_control_message begins where a frame begins.
NextReadFindsLength == from = written \/ FrameAt(from) # {}

\* A reader only fails because its peer has gone: no message is too large, and
\* none is taken apart wrongly.
FailsOnlyAtTheEnd == failed \in {"none", "ConnectionWasClosedByPeer"}

\* Messages come whole and in order.
Messages == INSTANCE Fifo

InOrder == Messages!Spec

\* While the peer is there, every message written is read in the end.
AllDelivered == []<>(closed \/ Len(received) = Len(sent))
=============================================================================
