------------------------------ MODULE MCParts ------------------------------
(***************************************************************************)
(* The parts that share no state with each other or with the sessions: the  *)
(* per-command view of the page (TerminalPanel), the two readers of what a  *)
(* shell prints (TerminalStream, CommandStream), the file-system provider   *)
(* (FileSystem) and the plugin's request loop (PluginServer).  A step of    *)
(* one leaves the others as they are and cannot disable them, so each is    *)
(* checked while the others rest in a first state.                          *)
(***************************************************************************)
EXTENDS TerminalPanel

CONSTANTS Requests, Lines, Endless

VARIABLES
    part, \* the one that takes the steps; never changed
    pending, cwd, reader, said, masked,
    output, writer, tail, buffer, searched, rest,
    tree, call, stage, cursor, got, todo, removed, changed,
    kind, progress, outcome, answered, serving, input, host

terminalVars == <<pending, cwd, reader, said, masked>>
commandVars  == <<output, writer, tail, buffer, searched, rest>>
fileVars     == <<tree, call, stage, cursor, got, todo, removed, changed>>
serverVars   == <<kind, progress, outcome, answered, serving, input, host>>

\* The server at first, by what is at its paths; MaxSize is 2.
Tree(dirs, links, short, long) ==
    [p \in dirs \union links \union short \union long |->
       IF p \in dirs THEN [kind |-> "dir", size |-> 0]
       ELSE IF p \in links THEN [kind |-> "link", size |-> 0]
       ELSE [kind |-> "file", size |-> IF p \in short THEN 1 ELSE 2]]

\* A directory at 2, and links to it: below another one, beside it, in it.
Paths == {<<1>>, <<2>>, <<3>>, <<1, 1>>, <<1, 2>>, <<2, 1>>}
LinkBeside == Tree({<<2>>, <<2, 1>>}, {<<1>>}, {}, {})
Trees ==
    { Tree({<<1>>, <<2>>}, {<<1, 1>>}, {<<2, 1>>, <<3>>}, {<<1, 2>>}),
      LinkBeside,
      Tree({<<2>>}, {<<2, 1>>}, {}, {<<1>>}) }

\* Every piece of some output of a shell, in any order.
Outputs == {<<"/", "bel", "esc", "]7;", "bel">>, <<"esc", "]7;", "/", "esc", "\\">>}
Pieces == {SubSeq(o, i, j) : o \in Outputs, i, j \in 1..5} \ {<<>>}

T == INSTANCE TerminalStream WITH Chunks <- Pieces, KeepTail <- 1, MaxPayload <- 2
C == INSTANCE CommandStream WITH
       MaxOutput <- 7, MaxChunk <- 3, Limit <- 4, RingSize <- 5, MaxSearched <- 3
F == INSTANCE FileSystem WITH Target <- <<2>>, MaxSize <- 2
S == INSTANCE PluginServer

Idle ==
    /\ part # "page" => \A a \in answers : a.type = "loaded"
    /\ part # "files" => tree = LinkBeside
    /\ part # "server" => \A l \in Lines : kind[l] = "call"

PartsInit ==
    /\ part \in {"page", "terminal", "command", "files", "server"}
    /\ Init /\ T!Init /\ C!Init /\ F!Init /\ S!Init
    /\ Idle

PageStep     == part = "page" /\ Next
TerminalStep == part = "terminal" /\ T!Next
CommandStep  == part = "command" /\ C!Next
FilesStep    == part = "files" /\ F!Next
ServerStep   == part = "server" /\ S!Next

PartsNext ==
    /\ UNCHANGED part
    /\ \/ PageStep /\ UNCHANGED <<terminalVars, commandVars, fileVars, serverVars>>
       \/ TerminalStep /\ UNCHANGED <<vars, commandVars, fileVars, serverVars>>
       \/ CommandStep /\ UNCHANGED <<vars, terminalVars, fileVars, serverVars>>
       \/ FilesStep /\ UNCHANGED <<vars, terminalVars, commandVars, serverVars>>
       \/ ServerStep /\ UNCHANGED <<vars, terminalVars, commandVars, fileVars>>

PartsSpec ==
    /\ PartsInit
    /\ [][PartsNext]_<<part, vars, terminalVars, commandVars, fileVars, serverVars>>
    /\ Fairness /\ S!Fairness

\* Every variable has its type.
PartsTypeOK ==
    CASE part = "page" -> TypeOK
      [] part = "terminal" -> T!TypeOK
      [] part = "command" -> C!TypeOK
      [] part = "files" -> F!TypeOK
      [] part = "server" -> S!TypeOK

FollowsTerminal == T!FollowsTerminal
CutAtLimit == C!CutAtLimit
MarkersFound == C!MarkersFound
NothingLeftOut == F!NothingLeftOut
DeletesItsPath == F!DeletesItsPath
ServesAll == S!ServesAll

\* Nobody waits for good.  The input line of the page always comes back, even when
\* the page lost track: a command whose exit was taken by an earlier one leaves
\* nobody waiting (handleEvent, submitCommand).  The plugin gets through with its
\* requests, and ends after its input did (Serve).
PartsSettle == []<>(~running /\ S!Settled)
=============================================================================
