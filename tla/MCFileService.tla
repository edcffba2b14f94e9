--------------------------- MODULE MCFileService ---------------------------
(* A disk with one workspace root and one place outside it.                 *)
EXTENDS FileService

R == <<"r">>
O == <<"o">>
A == <<"r", "a">>
S == <<"r", "s">>
MCTree == {R, O, A, S, <<"o", "a">>, <<"r", "a", "b">>}
MCRoots == {R}
MCTargets == {O, <<"o", "a">>, S, A, <<"r", "z">>}
MCGrants == {{"pty:spawn"}, {"fs:read"}, {"fs:read", "fs:secrets"}}

\* /r and /o are directories; /r/a/b is there only under a directory.
MCTrees ==
    {d \in [MCTree -> {Absent, Dir, File} \cup {Link(t) : t \in MCTargets}] :
        d[R] = Dir /\ d[O] = Dir /\ (d[<<"r", "a", "b">>] # Absent => d[A] = Dir)}

\* A directory or a link to the outside takes the place of /r/a or /r/a/b,
\* or what is there goes away.
MCChanges == {<<A, Absent>>, <<A, Dir>>, <<A, Link(O)>>, <<<<"r", "a", "b">>, Link(S)>>}

Names == {"a", "b", "s", ".."}
MCRequests ==
    {<<"r", x>> : x \in {"a", "s", "con"}} \cup {<<"r", x, y>> : x, y \in Names}
    \cup {<<"r", "a", "..", y>> : y \in {"s", "a"}} \cup {<<"o", "a">>, <<"..", "r">>}
=============================================================================
