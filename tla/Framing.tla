------------------------------- MODULE Framing -------------------------------
(***************************************************************************)
(* FrameDecoder of src/ipc/framing.ts, which both ends of a connection feed  *)
(* with whatever the socket gives them: bytes in, frames and errors out.     *)
(*                                                                          *)
(* A byte is one of a few kinds; a line is a frame unless it has a bad one.  *)
(***************************************************************************)
EXTENDS Naturals, SequencesExt

CONSTANTS
    MaxFrameBytes,
    MaxStream       (* bound: bytes that are sent *)

ASSUME FramingAssumption == MaxFrameBytes \in Nat \ {0} /\ MaxStream \in Nat

Bytes == {"newline", "blank", "good", "bad"}

VARIABLES
    incoming,       \* bytes that are still to come
    arrived,        \* history: those that have come
    buffer,         \* an unfinished line
    discarding,     \* skipping the tail of a frame that was too large
    reported,       \* frames and errors, in order
    ended           \* the socket has closed

decoder == <<incoming, arrived, buffer, discarding, reported, ended>>

-----------------------------------------------------------------------------

\* A newline ends a line.
SplitAt(s, b) == IF b = "newline" THEN [lines |-> Append(s.lines, s.rest), rest |-> <<>>]
                                  ELSE [lines |-> s.lines, rest |-> Append(s.rest, b)]

\* Complete lines, and what follows the last newline.
Split(bytes) == FoldLeft(SplitAt, [lines |-> <<>>, rest |-> <<>>], bytes)

Trim(line) ==
    LET text == {i \in DOMAIN line : line[i] # "blank"}
    IN IF text = {} THEN <<>> ELSE SubSeq(line, Min(text), Max(text))

TooLong(line) == Len(line) > MaxFrameBytes

\* handleLine, after the check of its length.
Heard(line) ==
    IF TooLong(line) THEN <<[is |-> "too_large"]>>
    ELSE IF Trim(line) = <<>> THEN <<>>
    ELSE <<IF Contains(line, "bad") THEN [is |-> "malformed"]
                                    ELSE [is |-> "frame", text |-> Trim(line)]>>

AllHeard(lines) == FlattenSeq([i \in DOMAIN lines |-> Heard(lines[i])])

\* Mistake: a chunk without a newline ends the skipping.
SkippingOnce(lines) == FALSE

\* Still in the frame that was too large.
Skipping(lines) == discarding /\ lines = <<>>

\* push
Feed ==
    /\ ~ended
    /\ \E n \in DOMAIN incoming :
         /\ incoming' = SubSeq(incoming, n + 1, Len(incoming))
         /\ arrived' = arrived \o SubSeq(incoming, 1, n)
         /\ LET split == Split(buffer \o SubSeq(incoming, 1, n))
                lines == IF discarding /\ split.lines # <<>> THEN Tail(split.lines) ELSE split.lines
                skipping == Skipping(split.lines)
            IN /\ discarding' = (skipping \/ TooLong(split.rest))
               /\ buffer' = IF discarding' THEN <<>> ELSE split.rest
               /\ reported' = reported \o AllHeard(lines)
                    \o IF ~skipping /\ TooLong(split.rest) THEN Heard(split.rest) ELSE <<>>
    /\ UNCHANGED ended

\* end: what is left was cut off.
End ==
    /\ ~ended /\ ended' = TRUE
    /\ buffer' = <<>> /\ discarding' = FALSE
    /\ reported' = IF ~discarding /\ Trim(buffer) # <<>>
                   THEN Append(reported, [is |-> "truncated"]) ELSE reported
    /\ UNCHANGED <<incoming, arrived>>

Fresh ==
    /\ arrived = <<>> /\ buffer = <<>> /\ discarding = FALSE
    /\ reported = <<>> /\ ended = FALSE

DecoderInit == incoming \in SeqOf(Bytes, MaxStream) /\ Fresh

DecoderNext == Feed \/ End

DecoderSpec == DecoderInit /\ [][DecoderNext]_decoder

-----------------------------------------------------------------------------

\* "Chunk boundaries are irrelevant": what was reported is what the bytes that
\* have come say line by line, once each, wherever the socket cut them and however
\* long a frame went on after it was given up; and a bad line costs no other line.
ChunksDoNotMatter ==
    LET split == Split(arrived) IN
    reported = AllHeard(split.lines)
        \o IF TooLong(split.rest) THEN <<[is |-> "too_large"]>>
           ELSE IF ended /\ Trim(split.rest) # <<>> THEN <<[is |-> "truncated"]>> ELSE <<>>

=============================================================================
