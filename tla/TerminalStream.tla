--------------------------- MODULE TerminalStream ---------------------------
(***************************************************************************)
(* How the directory of the terminal is read from what the shell prints     *)
(* (backend/localpty.go): the read loop feeds every chunk to osc7Scanner,   *)
(* which looks for "ESC ]7; payload BEL" or "... ESC \" across the cuts,    *)
(* and emitOsc7Cwd takes the payload for the session's directory.           *)
(*                                                                         *)
(* The stream has no end.  Next to the scanner runs a reader that takes one *)
(* byte after the other and knows no chunks: what the protocol says.        *)
(*                                                                         *)
(* A definition marked (variant) is a mistake somebody could make in the    *)
(* definition it precedes; no other definition uses it.                     *)
(***************************************************************************)
EXTENDS Naturals, SequencesExt

CONSTANTS
    Chunks,     \* bound: what one read of the terminal may bring
    KeepTail,   \* kept when no report has begun: 64 bytes
    MaxPayload  \* an unfinished payload longer than this is dropped: 8192 bytes

\* ESC, the rest of the introducer, the two ways to end, and payload: what a
\* directory starts with and, with the backslash, something else.
Cells == {"esc", "]7;", "bel", "\\", "/"}

VARIABLES
    pending, \* osc7Scanner.pending
    cwd,     \* shellSession.cwd
    reader,  \* the reader: whether it is in a report, and the payload so far
    said,    \* the last directory the shell reported
    masked   \* a report without a directory followed it in the same chunk

vars == <<pending, cwd, reader, said, masked>>

-----------------------------------------------------------------------------
At(p, i, first, second) == i < Len(p) /\ p[i] = first /\ p[i + 1] = second

\* Where reports begin in p, and the lengths a payload may have before an end.
Begins(p) == {i \in DOMAIN p : At(p, i, "esc", "]7;")}
Ends(body) == {i - 1 : i \in {i \in DOMAIN body :
                                body[i] = "bel" \/ At(body, i, "esc", "\\")}}
Width(body, end) == IF body[end + 1] = "bel" THEN 1 ELSE 2

LastOf(p, n) == IF Len(p) > n THEN SubSeq(p, Len(p) - n + 1, Len(p)) ELSE p

\* (variant) nothing is kept
KeptNothing(p) == <<>>

\* What is kept of a chunk without a report: one may have begun at its end.
Kept(p) == LastOf(p, KeepTail)

\* osc7Scanner.feed: the payloads that are found, and what is kept.
Scan[p \in Seq(Cells)] ==
    LET body == SubSeq(p, Min(Begins(p)) + 2, Len(p))
        end  == Min(Ends(body))
        rest == Scan[SubSeq(body, end + Width(body, end) + 1, Len(body))]
    IN  CASE Begins(p) = {} -> [found |-> <<>>, pending |-> Kept(p)]
          [] Begins(p) # {} /\ Ends(body) # {} ->
               [rest EXCEPT !.found = <<SubSeq(body, 1, end)>> \o @]
          [] Begins(p) # {} /\ Ends(body) = {} ->
               [found |-> <<>>, pending |-> IF Len(body) > MaxPayload THEN <<>>
                                            ELSE SubSeq(p, Min(Begins(p)), Len(p))]

\* osc7URIToPath: what precedes the first "/" names a host.
Path(payload) ==
    LET slashes == {i \in DOMAIN payload : payload[i] = "/"}
    IN  IF slashes = {} THEN <<>> ELSE SubSeq(payload, Min(slashes), Len(payload))

-----------------------------------------------------------------------------
(* The reader                                                              *)

Outside == [state |-> "text", payload |-> <<>>, found |-> <<>>]

\* One byte: the reader is in the text or in a report, and has found what it has.
ReadCell(s, cell) ==
    LET In(state, payload) == [s EXCEPT !.state = state, !.payload = payload]
        Ended(payload) == [Outside EXCEPT !.found = Append(s.found, payload)]
        more == Append(s.payload, cell)
    IN  IF s.state \in {"text", "esc"}
        THEN CASE cell = "esc" -> In("esc", <<>>)
               [] cell = "]7;" /\ s.state = "esc" -> In("report", <<>>)
               [] OTHER -> In("text", <<>>)
        ELSE CASE cell = "bel" -> Ended(s.payload)
               [] cell = "\\" /\ s.state = "closing" -> Ended(Front(s.payload))
               [] cell = "esc" -> In("closing", more)
               [] OTHER -> In("report", more)

\* The reader after n bytes of a chunk.
States(s, chunk) ==
    LET state[n \in 0..Len(chunk)] ==
          IF n = 0 THEN s ELSE ReadCell(state[n - 1], chunk[n])
    IN  state

TypeOK ==
    /\ pending \in Seq(Cells) /\ Len(pending) <= MaxPayload + KeepTail + 2
    /\ {cwd, said} \subseteq Seq(Cells)
    /\ reader \in [state : {"text", "esc", "report", "closing"}, payload : Seq(Cells),
                   found : {<<>>}]
    /\ masked \in BOOLEAN

Init ==
    /\ pending = <<>> /\ cwd = <<"/">> /\ said = <<"/">>
    /\ reader = Outside /\ masked = FALSE

\* The read loop takes the last report of a chunk, if it names a directory.
Feed(chunk) ==
    LET scan == Scan[pending \o chunk]
        path == IF scan.found = <<>> THEN <<>> ELSE Path(Last(scan.found))
    IN  /\ pending' = scan.pending
        /\ cwd' = IF path = <<>> THEN cwd ELSE path

\* What the shell said with the chunk.  The reader, too, gives up a payload that
\* is too long when a chunk ends in it.
Heard(chunk) ==
    LET heard  == States(reader, chunk)[Len(chunk)]
        naming == {i \in DOMAIN heard.found : Path(heard.found[i]) # <<>>}
    IN  /\ reader' = IF Len(heard.payload) > MaxPayload THEN Outside
                     ELSE [heard EXCEPT !.found = <<>>]
        /\ IF naming # {}
           THEN /\ said' = Path(heard.found[Max(naming)])
                /\ masked' = (Max(naming) < Len(heard.found))
           ELSE UNCHANGED <<said, masked>>

Next == \E chunk \in Chunks : Feed(chunk) /\ Heard(chunk)

Spec == Init /\ [][Next]_vars

-----------------------------------------------------------------------------
(* Property                                                                *)

\* The session's directory is the last one the shell reported, however the
\* stream is cut (osc7Scanner.feed, emitOsc7Cwd).  The exception is what the code
\* loses: of each chunk only the last report counts, and if that one names no
\* directory the one before it is gone.
FollowsTerminal == masked \/ cwd = said
=============================================================================
