------------------------------- MODULE Namespace -------------------------------
(***************************************************************************)
(* The directory tree the file operations promise (POSIX, as README.md     *)
(* section 4.2 states it): a path is absent, a regular file or a directory *)
(* and changes only by create, mkdir, unlink and rmdir of that path.       *)
(***************************************************************************)
CONSTANTS Path,          \* the paths, the root among them
          Root,
          Parent(_)      \* of a path other than the root

VARIABLE tree            \* [Path -> {"none", "reg", "dir"}]

Empty == [p \in Path |-> IF p = Root THEN "dir" ELSE "none"]

Children(t, p) == {q \in Path \ {Root} : Parent(q) = p /\ t[q] # "none"}

Make(t, u, p, kind) ==
    /\ t[p] = "none" /\ t[Parent(p)] = "dir"
    /\ u = [t EXCEPT ![p] = kind]

Unlink(t, u, p) == t[p] = "reg" /\ u = [t EXCEPT ![p] = "none"]

Rmdir(t, u, p) ==
    /\ t[p] = "dir" /\ Children(t, p) = {}
    /\ u = [t EXCEPT ![p] = "none"]

(* One call takes tree t to tree u. *)
Step(t, u) ==
    \E p \in Path \ {Root} :
        \/ Make(t, u, p, "reg")
        \/ Make(t, u, p, "dir")
        \/ Unlink(t, u, p)
        \/ Rmdir(t, u, p)

Spec == tree = Empty /\ [][Step(tree, tree')]_tree

================================================================================
