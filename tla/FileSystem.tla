----------------------------- MODULE FileSystem -----------------------------
(***************************************************************************)
(* The file-system provider of a session (backend/fsprovider.go) and the    *)
(* file requests that work like it (backend/sftpapi.go): a host lists a     *)
(* directory page by page, reads, writes, makes, renames and deletes, in    *)
(* requests that run beside each other.  Every SFTP call is one step; the   *)
(* server with its directories is external.                                 *)
(*                                                                         *)
(* A path is the sequence of its names and a name is a number.  The links   *)
(* all point to one place.                                                  *)
(*                                                                         *)
(* A definition marked (variant) is a mistake somebody could make in the    *)
(* definition it precedes; no other definition uses it.                     *)
(***************************************************************************)
EXTENDS Naturals, SequencesExt

CONSTANTS
    Requests,  \* requests of the host
    Paths,     \* bound: the paths there may be
    Trees,     \* what the server may hold at first
    Target,    \* the path the links point to
    MaxSize    \* bound: blocks of a file

VARIABLES
    tree,     \* the server: what is at each path that exists
    call,     \* what a request asks for
    stage,    \* how far its handler got, or the host with its pages
    cursor,   \* a listing: the cursor of the next page
    got,      \* a listing: the entries of the pages so far
    todo,     \* a deletion: the calls that are left, see DeleteStep
    removed,  \* paths each request removed
    changed   \* others changed what a request works on

callVars == <<call, cursor>>
vars == <<tree, callVars, stage, got, todo, removed, changed>>

-----------------------------------------------------------------------------
(* The server                                                              *)

Is(kind, p) == p \in DOMAIN tree /\ tree[p].kind = kind
IsDir(p) == p = <<>> \/ Is("dir", p)
Follow(p) == IF Is("link", p) THEN Target ELSE p

\* Where a path leads: Lstat, Remove and Rename do not follow its last name.
Locate[p \in Seq(Nat)] ==
    IF p = <<>> THEN <<>> ELSE Append(Follow(Locate[Front(p)]), Last(p))
Open(p) == Follow(Locate[p])
Way(p) == {Locate[SubSeq(p, 1, n)] : n \in DOMAIN p}

Below(p) == {q \in DOMAIN tree : IsPrefix(p, q)}
Children(p) == {q \in Below(p) : Len(q) = Len(p) + 1}
Extend(f, p, entry) == [q \in DOMAIN f \union {p} |-> IF q = p THEN entry ELSE f[q]]
File(size) == [kind |-> "file", size |-> size]
CanCreate(p) == p \in Paths \ DOMAIN tree /\ IsDir(Front(p))

Entries == [kind : {"dir", "link"}, size : {0}] \union [kind : {"file"}, size : 0..MaxSize]

-----------------------------------------------------------------------------
Limits == 0..2 \* fsLimit: a fraction of one becomes 0
Calls ==
    [op : {"list"}, path : {<<>>} \union {p \in Paths : Len(p) = 1}, arg : Limits]
      \union [op : {"delete"}, path : Paths, arg : BOOLEAN]
      \union [op : {"rename"}, path : Paths, arg : Paths]
      \union [op : {"read", "download", "mkdir"}, path : Paths, arg : {0}]
      \union [op : {"create", "replace", "modify"}, path : Paths, arg : {MaxSize}]
Asked(r) == call[r].path
Idle == [op |-> "none", path |-> <<>>, arg |-> 0]

TypeOK ==
    /\ DOMAIN tree \subseteq Paths
    /\ \A p \in DOMAIN tree : tree[p] \in Entries /\ IsDir(Front(p))
    /\ call \in [Requests -> Calls \union {Idle}]
    /\ stage \in [Requests -> {"new", "working", "opened", "ok", "failed",
                            "cancelled"}]
    /\ cursor \in [Requests -> Nat]
    /\ got \in [Requests -> Seq(Paths)] /\ removed \in [Requests -> SUBSET Paths]
    /\ todo \in [Requests -> Seq([what : {"tree", "dir", "any"}, path : Seq(Nat)])]
    /\ changed \in [Requests -> BOOLEAN]

Init ==
    /\ tree \in Trees
    /\ call = [r \in Requests |-> Idle] /\ stage = [r \in Requests |-> "new"]
    /\ cursor = [r \in Requests |-> 0] /\ got = [r \in Requests |-> <<>>]
    /\ todo = [r \in Requests |-> <<>>] /\ removed = [r \in Requests |-> {}]
    /\ changed = [r \in Requests |-> FALSE]

Move(r, from, to) == stage[r] = from /\ stage' = [stage EXCEPT ![r] = to]
Asks(r, op, from) == call[r].op = op /\ stage[r] = from

\* What r makes of the server, and who works on something that it changes: a place
\* on the way of its path, or what is below the place the path leads to.
Changes(r, new) ==
    LET Differs(p) ==
          IF p \in DOMAIN tree \intersect DOMAIN new THEN tree[p] # new[p]
          ELSE p \in DOMAIN tree \union DOMAIN new
        Meets(q) == \E p \in Paths :
          Differs(p) /\ (p \in Way(call[q].path) \/ IsPrefix(Open(call[q].path), p))
    IN  /\ tree' = new
        /\ changed' = [q \in Requests |->
                         changed[q] \/ (q # r /\ stage[q] # "new" /\ Meets(q))]
Untouched == UNCHANGED <<tree, changed>>

Begin(r) ==
    /\ \E c \in Calls : call' = [call EXCEPT ![r] = c]
    /\ Move(r, "new", "working")
    /\ UNCHANGED <<tree, cursor, got, todo, removed, changed>>

\* fsTarget: no such session, or a URI that is not of the scheme; no client; the
\* root is neither made, renamed nor deleted.
Refuse(r) ==
    /\ Move(r, "working", "failed")
    /\ todo[r] = <<>>
    /\ UNCHANGED <<tree, callVars, got, todo, removed, changed>>

-----------------------------------------------------------------------------
(* fsList: the host asks until a page has no cursor                        *)

\* Directories first, then by name.
Sorted(entries, dirs) ==
    LET Before(a, b) ==
          IF a \in dirs <=> b \in dirs THEN Last(a) < Last(b) ELSE a \in dirs
    IN  CHOOSE s \in [1..Cardinality(entries) -> entries] :
          \A i, j \in DOMAIN s : i < j => Before(s[i], s[j])
Listing(p) == Sorted(Children(p), {q \in Children(p) : IsDir(q)})

\* (variant) the cursor names the entry after the next one
ListPageSkipsOne(r) ==
    /\ Asks(r, "list", "working") /\ IsDir(Open(Asked(r)))
    /\ LET all  == Listing(Open(Asked(r)))
           rest == SubSeq(all, cursor[r] + 1, Len(all))
           page == SubSeq(rest, 1, call[r].arg)
       IN IF Len(rest) > call[r].arg
          THEN /\ got' = [got EXCEPT ![r] = @ \o page]
               /\ cursor' = [cursor EXCEPT ![r] = @ + Len(page) + 1]
               /\ UNCHANGED stage
          ELSE /\ got' = [got EXCEPT ![r] = @ \o rest]
               /\ Move(r, "working", "ok") /\ UNCHANGED cursor
    /\ UNCHANGED <<tree, call, todo, removed, changed>>

ListPage(r) ==
    /\ Asks(r, "list", "working") /\ IsDir(Open(Asked(r)))
    /\ LET all  == Listing(Open(Asked(r)))
           rest == SubSeq(all, cursor[r] + 1, Len(all))
           page == SubSeq(rest, 1, call[r].arg)
       IN IF Len(rest) > call[r].arg
          THEN /\ got' = [got EXCEPT ![r] = @ \o page]
               /\ cursor' = [cursor EXCEPT ![r] = @ + Len(page)]
               /\ UNCHANGED stage
          ELSE /\ got' = [got EXCEPT ![r] = @ \o rest]
               /\ Move(r, "working", "ok") /\ UNCHANGED cursor
    /\ UNCHANGED <<tree, call, todo, removed, changed>>

-----------------------------------------------------------------------------
(* fsRead, sftpDownload and fsWrite: a file is opened, then used           *)

OpenToRead(r) ==
    /\ call[r].op \in {"read", "download"} /\ Is("file", Open(Asked(r)))
    /\ Move(r, "working", "opened")
    /\ UNCHANGED <<tree, callVars, got, todo, removed, changed>>

\* What is read is not recorded, here and below.
Read(r) ==
    /\ Asks(r, "read", "opened")
    /\ Move(r, "opened", "ok") \/ Move(r, "opened", "failed")
    /\ UNCHANGED <<tree, callVars, got, todo, removed, changed>>

\* To the user's machine; when the chooser is cancelled that is no error.
Download(r) ==
    /\ Asks(r, "download", "opened")
    /\ \E end \in {"ok", "failed", "cancelled"} : Move(r, "opened", end)
    /\ UNCHANGED <<tree, callVars, got, todo, removed, changed>>

\* create: a new file only; create and overwrite: an empty one; else: as it is.
OpenToWrite(r) ==
    LET p == Open(Asked(r))
    IN  /\ stage[r] = "working"
        /\ \/ /\ call[r].op \in {"create", "replace"} /\ CanCreate(p)
              /\ Changes(r, Extend(tree, p, File(0)))
           \/ call[r].op = "replace" /\ Is("file", p) /\ Changes(r, Extend(tree, p, File(0)))
           \/ call[r].op = "modify" /\ Is("file", p) /\ Untouched
        /\ Move(r, "working", "opened")
        /\ UNCHANGED <<callVars, got, todo, removed>>

\* A call that fails may have written n blocks; what is longer than the data keeps
\* its end.  A file that others removed may still be there for its handle.
Write(r) ==
    LET p == Open(Asked(r))
    IN  /\ call[r].op \in {"create", "replace", "modify"}
        /\ \E n \in 0..call[r].arg :
             /\ Move(r, "opened", "failed") \/ (n = call[r].arg /\ Move(r, "opened", "ok"))
             /\ \/ /\ Is("file", p)
                   /\ Changes(r, Extend(tree, p, File(Max({tree[p].size, n}))))
                \/ changed[r] /\ Untouched
        /\ UNCHANGED <<callVars, got, todo, removed>>

-----------------------------------------------------------------------------
(* fsCreateDirectory and fsRename: one call                                *)

Mkdir(r) ==
    /\ Asks(r, "mkdir", "working") /\ CanCreate(Locate[Asked(r)])
    /\ Changes(r, Extend(tree, Locate[Asked(r)], [kind |-> "dir", size |-> 0]))
    /\ Move(r, "working", "ok")
    /\ UNCHANGED <<callVars, got, todo, removed>>

\* What the server holds after s, with all that is below it, was renamed to t.
Moved(s, t) ==
    LET old == {q \in DOMAIN tree : ~IsPrefix(s, q) /\ q # t}
        Back(q) == s \o SubSeq(q, Len(t) + 1, Len(q))
        new == {t \o SubSeq(q, Len(s) + 1, Len(q)) : q \in Below(s)}
    IN  [q \in old \union new |-> IF q \in new THEN tree[Back(q)] ELSE tree[q]]

\* POSIX: an empty directory or a file of the same kind is replaced.
Rename(r) ==
    LET s == Locate[Asked(r)] t == Locate[call[r].arg]
    IN  /\ Asks(r, "rename", "working")
        /\ s \in DOMAIN tree /\ IsDir(Front(t)) /\ ~IsPrefix(s, t)
        /\ t \in DOMAIN tree => Children(t) = {} /\ (Is("dir", t) <=> Is("dir", s))
        /\ DOMAIN Moved(s, t) \subseteq Paths
        /\ Changes(r, Moved(s, t))
        /\ Move(r, "working", "ok")
        /\ UNCHANGED <<callVars, got, todo, removed>>

-----------------------------------------------------------------------------
(* fsDelete and sftpDelete                                                 *)

Todo(what, p) == [what |-> what, path |-> p]

\* Stat follows a link that is named itself.
Delete(r) ==
    LET p == Open(Asked(r))
    IN  /\ Asks(r, "delete", "working") /\ p \in DOMAIN tree
        /\ Move(r, "working", "opened")
        /\ todo' = [todo EXCEPT ![r] =
             <<Todo(IF ~IsDir(p) THEN "any" ELSE IF call[r].arg THEN "tree" ELSE "dir",
                    Asked(r))>>]
        /\ UNCHANGED <<tree, callVars, got, removed, changed>>

\* (variant) the entries of a directory are told apart by Stat
ReadTreeFollows(r) ==
    LET p == Head(todo[r]).path
        names == {Last(q) : q \in Children(Open(p))}
        Entry(name) ==
          Todo(IF IsDir(Follow(Append(Open(p), name))) THEN "tree" ELSE "any", Append(p, name))
    IN  /\ Asks(r, "delete", "opened") /\ todo[r] # <<>>
        /\ Head(todo[r]).what = "tree" /\ IsDir(Open(p))
        /\ todo' = [todo EXCEPT ![r] =
             SetToSeq({Entry(name) : name \in names}) \o <<Todo("dir", p)>> \o Tail(@)]
        /\ UNCHANGED <<tree, callVars, stage, got, removed, changed>>

\* removeRemoteTree: the entries of a directory, which are not followed, and then
\* the directory itself.
ReadTree(r) ==
    LET p == Head(todo[r]).path
        names == {Last(q) : q \in Children(Open(p))}
        Entry(name) ==
          Todo(IF IsDir(Append(Open(p), name)) THEN "tree" ELSE "any", Append(p, name))
    IN  /\ Asks(r, "delete", "opened") /\ todo[r] # <<>>
        /\ Head(todo[r]).what = "tree" /\ IsDir(Open(p))
        /\ todo' = [todo EXCEPT ![r] =
             SetToSeq({Entry(name) : name \in names}) \o <<Todo("dir", p)>> \o Tail(@)]
        /\ UNCHANGED <<tree, callVars, stage, got, removed, changed>>

\* RemoveDirectory, or Remove, which takes an empty directory, too.
RemoveOne(r) ==
    LET p == Locate[Head(todo[r]).path]
    IN  /\ Asks(r, "delete", "opened") /\ todo[r] # <<>>
        /\ Head(todo[r]).what \in {"dir", "any"}
        /\ p \in DOMAIN tree /\ Children(p) = {}
        /\ Head(todo[r]).what = "dir" => IsDir(p)
        /\ Changes(r, [q \in DOMAIN tree \ {p} |-> tree[q]])
        /\ removed' = [removed EXCEPT ![r] = @ \union {p}]
        /\ todo' = [todo EXCEPT ![r] = Tail(@)]
        /\ UNCHANGED <<callVars, stage, got>>

\* A call fails: what was removed is not restored.
DeleteFails(r) ==
    /\ Asks(r, "delete", "opened") /\ todo[r] # <<>>
    /\ Move(r, "opened", "failed")
    /\ UNCHANGED <<tree, callVars, got, todo, removed, changed>>

Deleted(r) ==
    /\ Asks(r, "delete", "opened") /\ todo[r] = <<>>
    /\ Move(r, "opened", "ok")
    /\ UNCHANGED <<tree, callVars, got, todo, removed, changed>>

-----------------------------------------------------------------------------
Handle(r) ==
    \/ Refuse(r) \/ ListPage(r) \/ OpenToRead(r) \/ Read(r) \/ Download(r)
    \/ OpenToWrite(r) \/ Write(r) \/ Mkdir(r) \/ Rename(r)
    \/ Delete(r) \/ ReadTree(r) \/ RemoveOne(r) \/ DeleteFails(r) \/ Deleted(r)

Next == \E r \in Requests : Begin(r) \/ Handle(r)

Spec == Init /\ [][Next]_vars

-----------------------------------------------------------------------------
(* Properties.  They are about what nobody else changed meanwhile: a cursor *)
(* is an offset, and no request locks anything.                             *)

\* The pages of a listing put together are the directory: every entry once,
\* wherever a page ends (fsList, fsCursor).
NothingLeftOut ==
    \A r \in Requests :
      call[r].op = "list" /\ stage[r] = "ok" /\ ~changed[r] =>
        /\ ToSet(got[r]) = Children(Open(Asked(r)))
        /\ Len(got[r]) = Cardinality(Children(Open(Asked(r))))

\* A deletion removes nothing outside of the path it names, whatever links there
\* are below it, and leaves nothing of it when it is answered with success.  A
\* link that is named itself is followed: the code empties the directory it
\* points to (fsDelete, removeRemoteTree).
DeletesItsPath ==
    [][\A r \in Requests :
         call[r].op = "delete" /\ ~changed'[r] =>
           /\ \A p \in removed'[r] \ removed[r] :
                IsPrefix(Locate[Asked(r)], p) \/ Is("link", Locate[Asked(r)])
           /\ stage'[r] = "ok" => Locate'[Asked(r)] \notin DOMAIN tree']_vars
=============================================================================
