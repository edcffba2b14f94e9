---------------------------- MODULE FileService ----------------------------
(***************************************************************************)
(* A file request of a phone, from the router to the disk: the capability  *)
(* check (engine.rs), the path guard (path_guard.rs), the denylist         *)
(* (denylist.rs) and the file service that opens what they approve         *)
(* (fs_service.rs), or the terminal that is started in it (session.rs).    *)
(*                                                                         *)
(* The guard looks at the disk once per ancestor it tries, once more to    *)
(* see that what is missing is missing, and the service opens the path     *)
(* later still; the disk may change between any two of these.  Paths are   *)
(* sequences of names, ".." among them; the disk has directories, files    *)
(* and symbolic links, and the operating system's own resolution is Walk.  *)
(***************************************************************************)
EXTENDS Integers, Sequences, SequencesExt

CONSTANTS
    Tree,       \* the locations of the disk that may hold something
    Roots,      \* the locations of the workspace roots, canonical
    SecretDirs, \* names: "**/x" and "**/x/**"
    SecretFiles,\* names: "**/x"
    BadNames,   \* names that check_component refuses
    Targets,    \* where links may point
    Requests,   \* the paths a phone asks for
    Grants,     \* the sets of capabilities a device may hold
    Trees,      \* the states of the disk to begin with
    Changes,    \* <<location, node>>: what others may do to the disk
    MaxChanges, \* bound: how often the disk changes
    MaxLinks,   \* links the operating system follows before it gives up
    Elsewhere,  \* where a shell starts that was given no directory that is there
    None

VARIABLES
    disk,       \* location -> what is there
    caps,       \* the device's effective capabilities
    request,    \* [op, path], or None
    pc,         \* where the request is
    cursor,     \* canonicalise_deepest_ancestor: the ancestor to try next
    tail,       \* and the names trimmed off so far
    approved,   \* the path the guard returned, or None
    answer,     \* what the phone is told
    opened,     \* history: the location that was opened, or the shell's directory
    changes,    \* history: how often the disk has changed
    late        \* history: it changed after the guard approved

vars == <<disk, caps, request, pc, cursor, tail, approved, answer, opened, changes, late>>

Absent == [kind |-> "absent"]
Dir == [kind |-> "dir"]
File == [kind |-> "file"]
Link(target) == [kind |-> "link", to |-> target]

-----------------------------------------------------------------------------
(* The operating system: resolve a path, following every link.              *)

Found(loc) == [error |-> "none", loc |-> loc]
NotFound == [error |-> "not found", loc |-> None]
OtherError == [error |-> "other", loc |-> None]     \* not a directory, too many links

At(loc) == IF loc = <<>> THEN Dir ELSE IF loc \in Tree THEN disk[loc] ELSE Absent

RECURSIVE Walk(_, _, _)
Walk(loc, rest, links) ==
    IF rest = <<>> THEN Found(loc)
    ELSE IF At(loc).kind # "dir" THEN OtherError
    ELSE IF Head(rest) = ".." THEN Walk(IF loc = <<>> THEN loc ELSE Front(loc), Tail(rest), links)
    ELSE LET child == Append(loc, Head(rest))
             there == At(child)
         IN  CASE there.kind = "absent" -> NotFound
               [] there.kind = "link" -> IF links = 0 THEN OtherError
                                         ELSE Walk(<<>>, there.to \o Tail(rest), links - 1)
               [] OTHER -> Walk(child, Tail(rest), links)

Canonicalize(path) == Walk(<<>>, path, MaxLinks)

(* symlink_metadata says NotFound: the last name is looked up, not followed. *)
StillMissing(loc) ==
    LET parent == Canonicalize(Front(loc))
    IN  \/ parent.error = "not found"
        \/ /\ parent.error = "none" /\ At(parent.loc).kind = "dir"
           /\ At(Append(parent.loc, Last(loc))).kind = "absent"

-----------------------------------------------------------------------------
(* The policy. *)

IsWithin(root, loc) == IsPrefix(root, loc)
InRoots(loc) == \E root \in Roots : IsWithin(root, loc)

IsSecret(loc) ==
    \/ \E i \in DOMAIN loc : loc[i] \in SecretDirs
    \/ loc # <<>> /\ Last(loc) \in SecretFiles

CheckSyntax(path) == \A i \in DOMAIN path : path[i] \notin BadNames

Required(op) == IF op = "dir" THEN "pty:spawn" ELSE "fs:read"
Ops == {"list", "read", "dir"}
Capabilities == {"fs:read", "pty:spawn", "fs:secrets"}

-----------------------------------------------------------------------------
Init ==
    /\ disk \in Trees
    /\ caps \in Grants
    /\ request = None /\ pc = "idle" /\ cursor = <<>> /\ tail = <<>>
    /\ approved = None /\ answer = None /\ opened = None
    /\ changes = 0 /\ late = FALSE

Answer(a) ==
    /\ answer' = a
    /\ pc' = "answered"

(* FsService::authorize and authorize_path, up to the guard: the capability *)
(* before anything that touches the disk, then what the text alone decides. *)
Request(op, path) ==
    /\ pc = "idle"
    /\ request' = [op |-> op, path |-> path]
    /\ cursor' = path /\ tail' = <<>>
    /\ CASE Required(op) \notin caps -> Answer("denied")
         [] Required(op) \in caps /\ ~CheckSyntax(path) -> Answer("bad request")
         [] Required(op) \in caps /\ CheckSyntax(path) /\ Roots = {} -> Answer("not found")
         [] OTHER -> pc' = "trimming" /\ UNCHANGED answer
    /\ UNCHANGED <<disk, caps, approved, opened, changes, late>>

(* A mutant: the denylist looks at the path that was asked for.             *)
Approve_AsAsked(loc) ==
    IF ~InRoots(loc) THEN Answer("not found") /\ UNCHANGED approved
    ELSE IF ~IsSecret(request.path) THEN pc' = "approved" /\ approved' = loc /\ UNCHANGED answer
    ELSE /\ Answer(IF "fs:secrets" \in caps THEN "presence required" ELSE "denied")
         /\ UNCHANGED approved

(* The guard approved a location: the denylist looks at that one.  Nobody   *)
(* can prove presence on this wire, so a secret is refused either way.      *)
Approve(loc) ==
    IF ~InRoots(loc) THEN Answer("not found") /\ UNCHANGED approved
    ELSE IF ~IsSecret(loc) THEN pc' = "approved" /\ approved' = loc /\ UNCHANGED answer
    ELSE /\ Answer(IF "fs:secrets" \in caps THEN "presence required" ELSE "denied")
         /\ UNCHANGED approved

(* One turn of canonicalise_deepest_ancestor.                               *)
TrimFound ==
    /\ pc = "trimming" /\ Canonicalize(cursor).error = "none"
    /\ IF tail = <<>>
       THEN Approve(Canonicalize(cursor).loc) /\ UNCHANGED cursor
       ELSE /\ pc' = "probing" /\ cursor' = Canonicalize(cursor).loc
            /\ UNCHANGED <<approved, answer>>
    /\ UNCHANGED <<disk, caps, request, tail, opened, changes, late>>

TrimMissing_Dots ==
    /\ pc = "trimming" /\ Canonicalize(cursor).error = "not found"
    /\ IF cursor = <<>>
       THEN Answer("not found") /\ UNCHANGED <<cursor, tail>>
       ELSE /\ cursor' = Front(cursor) /\ tail' = <<Last(cursor)>> \o tail
            /\ UNCHANGED <<pc, answer>>
    /\ UNCHANGED <<disk, caps, request, approved, opened, changes, late>>

TrimMissing ==
    /\ pc = "trimming" /\ Canonicalize(cursor).error = "not found"
    /\ IF cursor = <<>> \/ Last(cursor) = ".."
       THEN Answer("not found") /\ UNCHANGED <<cursor, tail>>
       ELSE /\ cursor' = Front(cursor) /\ tail' = <<Last(cursor)>> \o tail
            /\ UNCHANGED <<pc, answer>>
    /\ UNCHANGED <<disk, caps, request, approved, opened, changes, late>>

TrimFails ==
    /\ pc = "trimming" /\ Canonicalize(cursor).error = "other"
    /\ Answer("not found")
    /\ UNCHANGED <<disk, caps, request, cursor, tail, approved, opened, changes, late>>

Probe_Trusts ==
    /\ pc = "probing"
    /\ Approve(cursor \o tail)
    /\ UNCHANGED <<disk, caps, request, cursor, tail, opened, changes, late>>

(* verify_still_missing.                                                    *)
Probe ==
    /\ pc = "probing"
    /\ IF StillMissing(Append(cursor, Head(tail)))
       THEN Approve(cursor \o tail)
       ELSE Answer("not found") /\ UNCHANGED approved
    /\ UNCHANGED <<disk, caps, request, cursor, tail, opened, changes, late>>

(* The service opens what was approved, as the disk is now.                 *)
Wanted == IF request.op = "read" THEN "file" ELSE "dir"

Open ==
    /\ pc = "approved" /\ request.op # "dir"
    /\ LET at == Canonicalize(approved)
       IN  IF at.error = "none" /\ At(at.loc).kind = Wanted
           THEN Answer("served") /\ opened' = at.loc
           ELSE Answer("not found") /\ UNCHANGED opened
    /\ UNCHANGED <<disk, caps, request, cursor, tail, approved, changes, late>>

(* authorize_dir hands the path on as it is and so does spawn: what becomes *)
(* of one that is no directory is the terminal library's affair.            *)
Spawn ==
    /\ pc = "approved" /\ request.op = "dir"
    /\ LET at == Canonicalize(approved)
       IN  IF at.error = "none" /\ At(at.loc).kind = "dir"
           THEN Answer("served") /\ opened' = at.loc
           ELSE \/ Answer("served") /\ opened' = Elsewhere
                \/ Answer("failed") /\ UNCHANGED opened
    /\ UNCHANGED <<disk, caps, request, cursor, tail, approved, changes, late>>

(* filter_listing, of the entries of what the approved path leads to: by    *)
(* the approved path and the entry's name, wherever a link may lead.        *)
FilterListing ==
    {entry \in {Append(approved, Last(loc)) : loc \in
                    {l \in Tree : l # <<>> /\ Front(l) = opened /\ At(l).kind # "absent"}} :
        InRoots(entry) /\ (IsSecret(entry) => "fs:secrets" \in caps)}

(* Somebody else changes the disk: an object appears, goes or is replaced.  *)
Holds(d, loc) == \E below \in Tree : Len(below) > Len(loc) /\ IsPrefix(loc, below) /\ d[below] # Absent

Change(loc, node) ==
    /\ changes < MaxChanges /\ pc # "idle" /\ pc # "answered"
    /\ disk[loc] # node /\ ~Holds(disk, loc)
    /\ At(Front(loc)) = Dir
    /\ disk' = [disk EXCEPT ![loc] = node]
    /\ changes' = changes + 1
    /\ late' = (late \/ pc = "approved")
    /\ UNCHANGED <<caps, request, pc, cursor, tail, approved, answer, opened>>

Nodes == {Absent, Dir, File} \cup {Link(t) : t \in Targets}

Next ==
    \/ \E op \in Ops, path \in Requests : Request(op, path)
    \/ TrimFound \/ TrimMissing \/ TrimFails \/ Probe \/ Open \/ Spawn
    \/ \E change \in Changes : Change(change[1], change[2])

Spec == Init /\ [][Next]_vars

-----------------------------------------------------------------------------
(* What a request should come to on a disk that stands still.               *)
Allowed(loc) == InRoots(loc) /\ ~IsSecret(loc)
Reachable(path, kind) ==
    LET at == Canonicalize(path)
    IN  at.error = "none" /\ At(at.loc).kind = kind /\ Allowed(at.loc)

(* Every part of a request in its range; the disk is a tree of directories. *)
TypeOK ==
    /\ disk \in [Tree -> Nodes] /\ caps \in Grants
    /\ \A loc \in Tree : disk[loc] # Absent => At(Front(loc)) = Dir
    /\ pc \in {"idle", "trimming", "probing", "approved", "answered"}
    /\ answer \in {None, "denied", "bad request", "not found", "presence required", "failed", "served"}
    /\ (answer # None) <=> (pc = "answered")
    /\ (pc = "approved" \/ opened # None) => approved # None
    /\ changes \in 0..MaxChanges /\ (late => changes > 0)

(* fs.list, fs.read, pty.spawn: whatever links the path runs through and    *)
(* whatever others did to the disk while it was resolved, what is opened    *)
(* lies in a workspace root and is no secret, unless the disk changed again *)
(* between the approval and the opening; without any change it is the       *)
(* object the operating system finds at the path, and only a shell that     *)
(* asked for a directory that is not there starts elsewhere.                *)
ServedIsAllowed ==
    answer = "served" =>
        /\ Required(request.op) \in caps
        /\ ~late /\ opened # Elsewhere => Allowed(opened)
        /\ changes = 0 => opened = IF Reachable(request.path, Wanted)
                                  THEN Canonicalize(request.path).loc ELSE Elsewhere
        /\ opened = Elsewhere => request.op = "dir"

(* authorize_path, resolve: nobody is refused what is there for the asking, *)
(* on a disk that stands still.                                             *)
RefusedIsRight ==
    pc = "answered" /\ answer # "served" /\ changes = 0 =>
        ~(/\ Required(request.op) \in caps /\ Reachable(request.path, Wanted)
          /\ \A i \in DOMAIN request.path : request.path[i] \notin BadNames)

(* resolve for a path that is not there yet: on a quiet disk what is        *)
(* created at it would lie where the guard says, neither behind a link in   *)
(* one of its directories nor at the far end of a dangling one.             *)
CreatedWhereApproved ==
    pc = "approved" /\ changes = 0 =>
        LET parent == Canonicalize(Front(approved))
        IN  parent.error = "none" =>
                parent.loc = Front(approved) /\ At(approved).kind # "link"

(* resolve, is_secret: however the disk changes under the guard, what it    *)
(* approves is a path in a root, without "..", and no secret.               *)
ApprovedIsPlain ==
    approved # None =>
        /\ Allowed(approved)
        /\ \A i \in DOMAIN approved : approved[i] # ".."

(* The guard decides by what a path is, in both directions: nothing crooked *)
(* is approved and nothing plain refused (path_guard.rs:635-835).           *)
GuardSound == TypeOK /\ ApprovedIsPlain /\ RefusedIsRight

-----------------------------------------------------------------------------
(* Beside the runs. *)

(* "A terminal's working directory must be inside a workspace root"         *)
(* (fs_service.rs:201): a path that is approved as missing starts one       *)
(* wherever the terminal library puts it.                                   *)
ShellStartsInRoot == answer = "served" /\ request.op = "dir" => opened # Elsewhere

(* A link in a listing that leads out of the roots is dropped from it       *)
(* (engine.rs:310-311): it is judged by its own name, and stays.            *)
ListedIsInRoot ==
    answer = "served" /\ request.op = "list" /\ changes = 0 =>
        \A entry \in FilterListing :
            Canonicalize(entry).error = "none" => InRoots(Canonicalize(entry).loc)
=============================================================================
