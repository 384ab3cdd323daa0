----------------------------- MODULE TextPreview -----------------------------
(***************************************************************************)
(* server/infrastructure/files/textPreview.ts: a text file is shown in      *)
(* chunks of TEXT_PREVIEW_BYTES, and no chunk may cut a character.  Bytes   *)
(* are classes: "a" is a character of its own, "2", "3" and "4" begin one   *)
(* of so many bytes, "c" continues one.  UTF-16 files are units, of two     *)
(* bytes each: "u", or a high and a low surrogate, "h" and "l".             *)
(***************************************************************************)
EXTENDS Integers, FiniteSetsExt, SequencesExt

CONSTANTS PreviewBytes,  \* TEXT_PREVIEW_BYTES
          Size           \* bound: the bytes of a UTF-8 file, and of the largest UTF-16 one

VARIABLES
  encoding,  \* what detectEncoding found
  content,   \* the file
  chunks     \* the answers: requested offset, offset, nextOffset

vars == <<encoding, content, chunks>>

\* Byte b, counted from 0, of a UTF-8 file; unit u of a UTF-16 file.
At(b) == content[b + 1]
TotalBytes == IF encoding = "utf-8" THEN Len(content) ELSE 2 * Len(content)

Init ==
  /\ chunks = <<>>
  /\ \/ encoding = "utf-8" /\ content \in [1..Size -> {"a", "2", "3", "4", "c"}]
     \/ encoding = "utf-16" /\ content \in [1..(Size \div 2 + 1) -> {"u", "h", "l"}]

CharLength(lead) == CASE lead = "2" -> 2 [] lead = "3" -> 3 [] lead = "4" -> 4 [] OTHER -> 1

\* The well-formed characters: where they start, and where the next one does.
WellFormed(b) ==
  IF encoding = "utf-8"
  THEN At(b) # "c" /\ b + CharLength(At(b)) <= TotalBytes
       /\ \A k \in (b + 1)..(b + CharLength(At(b)) - 1) : At(k) = "c"
  ELSE b % 2 = 0 /\ At(b \div 2) = "h" /\ b + 4 <= TotalBytes /\ At(b \div 2 + 1) = "l"
CharEnd(b) == IF encoding = "utf-8" THEN b + CharLength(At(b)) ELSE b + 4

\* FAULT: bytes that were part of a character before the chunk are shown again.
HeadBytesNone(offset) == 0

\* The bytes at the start of a chunk that belong to a character begun before it:
\* splitUtf8Prefix looks at three bytes before, UTF-16 at one unit.
HeadBytes(offset) ==
  LET before == {b \in (offset - (IF encoding = "utf-8" THEN 3 ELSE 2))..(offset - 1) :
                   b >= 0 /\ WellFormed(b) /\ CharEnd(b) > offset}
  IN IF before = {} THEN 0 ELSE CharEnd(Min(before)) - offset

Continues(b) == IF encoding = "utf-8" THEN At(b) = "c" ELSE FALSE

\* FAULT: the end of a chunk stays where the limit puts it.
EndAtLimit(offset, start, end) == end

\* Where a chunk ends that is not the last: back to the start of the character the
\* limit would cut, but by three bytes at most, and never before the chunk's start.
EndBefore(offset, start, end) ==
  IF encoding = "utf-8"
  THEN LET steps == {k \in 0..3 : /\ end - k >= start
                                  /\ \A j \in 0..(k - 1) : Continues(offset + end - j)}
           back == end - Max(steps)
       IN IF Continues(offset + back) THEN end ELSE back
  ELSE LET even == end - (end % 2)
       IN IF even >= 2 /\ At((offset + even) \div 2 - 1) = "h" THEN even - 2 ELSE even

\* readTextPreview, for an offset the client asks for.
Chunk(requested) ==
  LET clamped == Min({requested, TotalBytes})
      offset == IF encoding = "utf-16" /\ clamped < TotalBytes THEN clamped - (clamped % 2) ELSE clamped
      limit == Min({PreviewBytes, TotalBytes - offset})
      start == HeadBytes(offset)
      end == IF offset + limit < TotalBytes THEN EndBefore(offset, start, limit) ELSE limit
  IN [requested |-> requested, offset |-> offset + start, nextOffset |-> offset + end]

\* The reader opens the file, or returns to an offset in it.
Ask(requested) == chunks = <<>> /\ chunks' = <<Chunk(requested)>>

\* Next chunk
More ==
  /\ chunks # <<>> /\ Last(chunks).nextOffset < TotalBytes /\ Len(chunks) <= Size
  /\ chunks' = Append(chunks, Chunk(Last(chunks).nextOffset))

Next ==
  /\ \/ \E requested \in 0..3 : Ask(requested)
     \/ More
  /\ UNCHANGED <<encoding, content>>
-----------------------------------------------------------------------------
\* Chunks that follow each other join: no byte of the file is lost or shown twice
\* between them, each brings the reader further, and no well-formed character is
\* cut, wherever the reader began; malformed bytes are cut anywhere and stay visible.
ChunksJoin ==
  \A i \in DOMAIN chunks :
    /\ chunks[i].offset <= chunks[i].nextOffset
    /\ chunks[i].nextOffset > chunks[i].requested \/ chunks[i].nextOffset = TotalBytes
    /\ i > 1 => chunks[i].offset = chunks[i - 1].nextOffset
    /\ \A b \in 0..(TotalBytes - 1), edge \in {chunks[i].offset, chunks[i].nextOffset} :
         WellFormed(b) => ~(b < edge /\ edge < CharEnd(b))
=============================================================================
