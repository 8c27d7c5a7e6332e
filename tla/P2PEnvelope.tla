---------------------------- MODULE P2PEnvelope ----------------------------
(***************************************************************************)
(* SimpleEnvelopeP2PProvider: messages over a byte stream, each behind a   *)
(* little-endian length.  The transport below hands over the bytes in      *)
(* order, in chunks of any size.                                           *)
(*                                                                         *)
(* The parser's loop calls the user's handlers between two frames; they    *)
(* may throw, close the provider, or cause more data to arrive, so a round *)
(* of the loop is one step and `parsing' says that the loop is running.    *)
(***************************************************************************)
EXTENDS Naturals, Sequences

CONSTANTS
    Payloads,       \* the messages the peer writes, as sequences of bytes
    Base,           \* number of values of a byte
    PrefixBytes,    \* MessageLengthPrefixBytes
    MaxReadLength,  \* SimpleEnvelopeP2PProvider.maxReadLength
    MaxSent,        \* how many messages the peer writes
    MaxThrows       \* how often a handler throws

Byte == 0..(Base - 1)

\* What is left of n behind its i lowest bytes.
Rest(n) ==
    LET rest[i \in 0..PrefixBytes] == IF i = 0 THEN n ELSE rest[i - 1] \div Base
    IN  rest

\* A message has a length of PrefixBytes.
ASSUME FramingAssumption ==
    /\ Base \in Nat \ {0, 1}
    /\ {PrefixBytes, MaxReadLength, MaxSent, MaxThrows} \subseteq Nat
    /\ PrefixBytes > 0
    /\ Payloads \subseteq Seq(Byte)
    /\ \A p \in Payloads : Rest(Len(p))[PrefixBytes] = 0

VARIABLES
    wire,           \* bytes the peer has written and the transport still has
    remainingData,  \* bytes received and not yet consumed
    parsing,        \* the loop is between two frames
    destroyed,
    lowerDestroyed, \* nextProvider.destroy or .end was called
    sent,           \* history: the messages written
    delivered,      \* history: the messages given to the data handlers
    errors,         \* history: how many errors the error handlers got
    throws          \* how often a handler threw

envelopeVars == <<wire, remainingData, parsing, destroyed, lowerDestroyed,
          sent, delivered, errors, throws>>

EnvelopeTypeOK ==
    /\ wire \in Seq(Byte)
    /\ remainingData \in Seq(Byte)
    /\ parsing \in BOOLEAN
    /\ destroyed \in BOOLEAN
    /\ lowerDestroyed \in BOOLEAN
    /\ sent \in Seq(Payloads)
    /\ delivered \in Seq(Seq(Byte))
    /\ errors \in Nat
    /\ throws \in 0..MaxThrows

EnvelopeInit ==
    /\ wire = <<>>
    /\ remainingData = <<>>
    /\ parsing = FALSE
    /\ destroyed = FALSE
    /\ lowerDestroyed = FALSE
    /\ sent = <<>>
    /\ delivered = <<>>
    /\ errors = 0
    /\ throws = 0

---------------------------------------------------------------------------
\* setUint32(0, n, true) and getUint32(0, true).
LengthPrefix(n) == [i \in 1..PrefixBytes |-> Rest(n)[i - 1] % Base]

DeclaredLength(data) ==
    LET value[i \in 0..PrefixBytes] ==     \* of the i highest bytes
            IF i = 0 THEN 0 ELSE data[PrefixBytes + 1 - i] + Base * value[i - 1]
    IN  value[PrefixBytes]

Frame(p) == LengthPrefix(Len(p)) \o p

\* write() at the peer's end.
Write(p) ==
    /\ Len(sent) < MaxSent
    /\ sent' = Append(sent, p)
    /\ wire' = wire \o Frame(p)
    /\ UNCHANGED <<remainingData, parsing, destroyed, lowerDestroyed, delivered,
                   errors, throws>>

\* Mutant: what was left of the last chunk is lost.
ChunkAlone(n) ==
    /\ wire' = SubSeq(wire, n + 1, Len(wire))
    /\ IF destroyed
       THEN UNCHANGED <<remainingData, parsing>>
       ELSE /\ remainingData' = SubSeq(wire, 1, n)
            /\ parsing' = TRUE
    /\ UNCHANGED <<destroyed, lowerDestroyed, sent, delivered, errors, throws>>

\* The transport delivers n bytes; after the close they are ignored.
Chunk(n) ==
    /\ wire' = SubSeq(wire, n + 1, Len(wire))
    /\ IF destroyed
       THEN UNCHANGED <<remainingData, parsing>>
       ELSE /\ remainingData' = remainingData \o SubSeq(wire, 1, n)
            /\ parsing' = TRUE
    /\ UNCHANGED <<destroyed, lowerDestroyed, sent, delivered, errors, throws>>

HasPrefix == Len(remainingData) >= PrefixBytes

TooLong == HasPrefix /\ DeclaredLength(remainingData) > MaxReadLength

Complete ==
    /\ HasPrefix
    /\ ~TooLong
    /\ Len(remainingData) >= PrefixBytes + DeclaredLength(remainingData)

\* Mutant: one frame per chunk.
ParseFrameOnce ==
    /\ parsing
    /\ Complete
    /\ LET end == PrefixBytes + DeclaredLength(remainingData) IN
       /\ delivered' = Append(delivered, SubSeq(remainingData, PrefixBytes + 1, end))
       /\ remainingData' = SubSeq(remainingData, end + 1, Len(remainingData))
    /\ parsing' = FALSE
    /\ UNCHANGED <<wire, destroyed, lowerDestroyed, sent, errors, throws>>

\* One frame is taken off the buffer and handed to the data handlers.
ParseFrame ==
    /\ parsing
    /\ Complete
    /\ LET end == PrefixBytes + DeclaredLength(remainingData) IN
       /\ delivered' = Append(delivered, SubSeq(remainingData, PrefixBytes + 1, end))
       /\ remainingData' = SubSeq(remainingData, end + 1, Len(remainingData))
    /\ \/ UNCHANGED <<parsing, throws>>
       \/ /\ throws < MaxThrows         \* a handler throws out of the loop
          /\ throws' = throws + 1
          /\ parsing' = FALSE
    /\ UNCHANGED <<wire, destroyed, lowerDestroyed, sent, errors>>

NeedMoreData ==
    /\ parsing
    /\ ~TooLong
    /\ ~Complete
    /\ parsing' = FALSE
    /\ UNCHANGED <<wire, remainingData, destroyed, lowerDestroyed, sent, delivered,
                   errors, throws>>

\* Mutant: the transport below is left open.
RefuseFrameOnly ==
    /\ parsing
    /\ TooLong
    /\ destroyed' = TRUE
    /\ remainingData' = <<>>
    /\ errors' = errors + 1
    /\ parsing' = FALSE
    /\ UNCHANGED <<wire, lowerDestroyed, sent, delivered, throws>>

\* destroyWithError: state first, then the handlers, and the transport in any case.
RefuseFrame ==
    /\ parsing
    /\ TooLong
    /\ destroyed' = TRUE
    /\ remainingData' = <<>>
    /\ errors' = errors + 1
    /\ lowerDestroyed' = TRUE
    /\ parsing' = FALSE
    /\ UNCHANGED <<wire, sent, delivered, throws>>

LowerError ==
    /\ errors < MaxSent         \* a bound
    /\ ~destroyed
    /\ errors' = errors + 1
    /\ UNCHANGED <<wire, remainingData, parsing, destroyed, lowerDestroyed, sent,
                   delivered, throws>>

\* end() and destroy(), also from within a handler.
CloseProvider ==
    /\ ~destroyed
    /\ destroyed' = TRUE
    /\ remainingData' = <<>>
    /\ lowerDestroyed' = TRUE
    /\ UNCHANGED <<wire, parsing, sent, delivered, errors, throws>>

EnvelopeNext ==
    \/ \E p \in Payloads : Write(p)
    \/ \E n \in 1..Len(wire) : Chunk(n)
    \/ ParseFrame
    \/ NeedMoreData
    \/ RefuseFrame
    \/ LowerError
    \/ CloseProvider

EnvelopeSpec == EnvelopeInit /\ [][EnvelopeNext]_envelopeVars

\* The transport delivers what it has, and a loop that runs goes on.
EnvelopeFairness ==
    /\ WF_envelopeVars(\E n \in 1..Len(wire) : Chunk(n))
    /\ WF_envelopeVars(ParseFrame)
    /\ WF_envelopeVars(NeedMoreData)
    /\ WF_envelopeVars(RefuseFrame)

FairEnvelopeSpec == EnvelopeSpec /\ EnvelopeFairness

---------------------------------------------------------------------------
(* Properties.                                                             *)

Channel == INSTANCE EnvelopeChannel WITH open <- ~destroyed

(***************************************************************************)
(* However the stream is cut into chunks and whatever the handlers do, the *)
(* user gets the messages sent, whole and in order, and none after close.  *)
(***************************************************************************)
ImplementsChannel == Channel!Spec

(***************************************************************************)
(* "Fails closed": a message longer than maxReadLength is never delivered, *)
(* and once its length has been read the transport below is closed too.    *)
(* Between chunks a peer cannot make us keep more than one frame, unless a *)
(* handler threw.                                                          *)
(***************************************************************************)
FailsClosed ==
    /\ \A i \in DOMAIN delivered : Len(delivered[i]) <= MaxReadLength
    /\ destroyed => lowerDestroyed /\ remainingData = <<>>
    /\ ~parsing /\ throws = 0 => Len(remainingData) < PrefixBytes + MaxReadLength

(***************************************************************************)
(* While handlers do not throw, everything written is delivered unless the *)
(* provider is closed.                                                     *)
(***************************************************************************)
EverythingArrives ==
    \A n \in 1..MaxSent :
        Len(sent) = n ~> (Len(delivered) >= n \/ destroyed \/ throws > 0)
===========================================================================
