--------------------------- MODULE CommandStream ---------------------------
(***************************************************************************)
(* What becomes of the output of a remote command (backend/main.go, ssh.go, *)
(* dockerapi.go, root.go), which comes in chunks that are cut anywhere: it  *)
(* is forwarded up to a limit and its end is kept for the line with exit    *)
(* code and directory (streamWriter, parseRingMeta); the output of docker   *)
(* and other commands of the plugin's own is collected up to a limit        *)
(* (limitedBuffer); and a handshake waits for a marker in it                *)
(* (readUntilOutputMarker).  One stream goes through all three.             *)
(*                                                                         *)
(* A definition marked (variant) is a mistake somebody could make in the    *)
(* definition it precedes; no other definition uses it.                     *)
(***************************************************************************)
EXTENDS Naturals, SequencesExt

CONSTANTS
    MaxOutput,  \* bound: cells of output
    MaxChunk,   \* bound: the longest chunk
    Limit,      \* cells that are forwarded, and collected
    RingSize,   \* cells kept of the end: 8192 bytes
    MaxSearched \* cells searched at once for the marker: 64 KiB

\* Text, a line end, the tag with the session's salt and the exit code after it,
\* and a directory.
Cells == {"x", "\n", "tag", "dir"}
Marker == <<"tag", "dir">>

VARIABLES
    output,   \* all the command has written
    writer,   \* streamWriter: what was forwarded, and truncated
    tail,     \* streamWriter.tail
    buffer,   \* limitedBuffer: what was collected, and truncated
    searched, \* readUntilOutputMarker: output
    rest      \* what the protocol after the handshake reads, or NotFound yet

vars == <<output, writer, tail, buffer, searched, rest>>

-----------------------------------------------------------------------------
LastOf(s, n) == IF Len(s) > n THEN SubSeq(s, Len(s) - n + 1, Len(s)) ELSE s
FirstOf(s, n) == IF Len(s) > n THEN SubSeq(s, 1, n) ELSE s
Occurs(m, s) == {i \in 0..Len(s) - Len(m) : SubSeq(s, i + 1, i + Len(m)) = m}
After(s, m) == SubSeq(s, Min(Occurs(m, s)) + Len(m) + 1, Len(s))

NotFound == <<"not found">>
Taken == [data : Seq(Cells), truncated : BOOLEAN]

TypeOK ==
    /\ output \in Seq(Cells) /\ tail \in Seq(Cells) /\ searched \in Seq(Cells)
    /\ {writer, buffer} \subseteq Taken
    /\ rest \in Seq(Cells) \union {NotFound}

Init ==
    /\ output = <<>> /\ tail = <<>> /\ searched = <<>> /\ rest = NotFound
    /\ writer = [data |-> <<>>, truncated |-> FALSE]
    /\ buffer = [data |-> <<>>, truncated |-> FALSE]

-----------------------------------------------------------------------------
\* (variant) the limit is looked at before a chunk and not in it
WriteOver(chunk) ==
    LET sent == IF Len(writer.data) < Limit THEN writer.data \o chunk ELSE writer.data
    IN  /\ tail' = LastOf(tail \o chunk, RingSize)
        /\ writer' = [data |-> sent, truncated |-> Len(sent) >= Limit]

\* streamWriter.Write: a chunk is cut at the limit, the end of all is kept.
Write(chunk) ==
    LET sent == IF Len(writer.data) < Limit
                THEN writer.data \o FirstOf(chunk, Limit - Len(writer.data))
                ELSE writer.data
    IN  /\ tail' = LastOf(tail \o chunk, RingSize)
        /\ writer' = [data |-> sent, truncated |-> Len(sent) >= Limit]

\* limitedBuffer.Write
Collect(chunk) ==
    LET free == Limit - Len(buffer.data)
    IN  buffer' = [data |-> buffer.data \o FirstOf(chunk, free),
                   truncated |-> buffer.truncated \/ Len(chunk) > free]

\* (variant) what came in one chunk with the marker is dropped
SearchDropsTail(chunk) ==
    LET all == searched \o chunk
    IN  IF rest # NotFound THEN rest' = rest \o chunk /\ UNCHANGED searched
        ELSE IF Occurs(Marker, all) # {}
        THEN rest' = <<>> /\ searched' = all
        ELSE /\ searched' = IF Len(all) > MaxSearched THEN LastOf(all, Len(Marker)) ELSE all
             /\ UNCHANGED rest

\* One round of readUntilOutputMarker; a search that grew too long keeps as much
\* as the marker has.  What follows the marker is read before the chunks that
\* come later (openRootSFTPClient, protocolInput).
Search(chunk) ==
    LET all == searched \o chunk
    IN  IF rest # NotFound THEN rest' = rest \o chunk /\ UNCHANGED searched
        ELSE IF Occurs(Marker, all) # {}
        THEN rest' = After(all, Marker) /\ searched' = all
        ELSE /\ searched' = IF Len(all) > MaxSearched THEN LastOf(all, Len(Marker)) ELSE all
             /\ UNCHANGED rest

Next ==
    \E chunk \in BoundedSeq(Cells, MaxChunk) \ {<<>>} :
      /\ Len(output) + Len(chunk) <= MaxOutput
      /\ output' = output \o chunk
      /\ Write(chunk) /\ Collect(chunk) /\ Search(chunk)

Spec == Init /\ [][Next]_vars

-----------------------------------------------------------------------------
(* The line with exit code and directory.  buildRemoteScript has the shell  *)
(* print it last, after a line end of its own; a process that was left in   *)
(* the background may print something before and after it.                  *)

Trimmed(s) == FirstOf(s, Min({i \in 0..Len(s) : \A j \in i + 1..Len(s) : s[j] = "\n"}))

\* (variant) the tag may stand anywhere in the last line
ParseAnywhere(ring) ==
    LET s    == Trimmed(ring)
        tags == {i \in DOMAIN s : s[i] = "tag"}
    IN  IF tags # {} THEN SubSeq(s, Max(tags) + 1, Len(s)) ELSE NotFound

\* parseRingMeta: the tag must begin the last line; the directory is what follows.
Parse(ring) ==
    LET s     == Trimmed(ring)
        tags  == {i \in DOMAIN s : s[i] = "tag"}
        lines == {0} \union {i \in DOMAIN s : s[i] = "\n"}
    IN  IF tags # {} /\ Max(tags) = Max(lines) + 1
        THEN SubSeq(s, Max(tags) + 1, Len(s)) ELSE NotFound

ScriptLine == <<"\n", "tag", "dir", "\n">>

-----------------------------------------------------------------------------
(* Properties                                                              *)

\* However the output is cut, exactly the first Limit cells are forwarded and
\* collected, nothing is missing unless truncated is set, and the kept end is the
\* end.  (streamWriter also sets it when nothing is missing: output of exactly the
\* limit.)
CutAtLimit ==
    /\ writer.data = FirstOf(output, Limit) /\ buffer.data = FirstOf(output, Limit)
    /\ buffer.truncated <=> Len(output) > Limit
    /\ writer.truncated <=> Len(output) >= Limit
    /\ tail = LastOf(output, RingSize)

\* The last line, but for line ends after it.
LastLine(s) ==
    LET t == Trimmed(s)
    IN  SubSeq(t, Max({0} \union {i \in DOMAIN t : t[i] = "\n"}) + 1, Len(t))

\* The directory is found whenever the script's line is the last, and what is found
\* is all of the last line but the tag that begins it.  The exception is what the
\* code cannot tell: the kept end begins with a tag in the middle of that line
\* (parseRingMeta, buildRemoteScript).  And a marker is found when it comes, with
\* all that comes after it, however it is split and however much came before
\* (readUntilOutputMarker).
MarkersFound ==
    /\ IsSuffix(ScriptLine, output) => Parse(tail) = <<"dir">>
    /\ Parse(tail) # NotFound =>
         LET line == <<"tag">> \o Parse(tail)
         IN  LastLine(output) = line \/ (Len(output) > RingSize /\ Trimmed(tail) = line)
    /\ rest = NotFound <=> Occurs(Marker, output) = {}
    /\ rest # NotFound => rest = After(output, Marker)
=============================================================================
