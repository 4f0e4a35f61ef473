---------------------------- MODULE FileTreeSpec ----------------------------
(***************************************************************************)
(* What a caller of mkDir, newRegFile and deleteNode expects of the file   *)
(* system: a tree of named directories and files.  A path is the sequence  *)
(* of names from the root, the root itself being the empty path.           *)
(***************************************************************************)
EXTENDS Sequences, SequencesExt

VARIABLE tree  \* function from the paths that exist to "DIRECTORY" or "REGULAR"

Init == tree = [p \in {<<>>} |-> "DIRECTORY"]

Create(path, type) ==
  /\ path \notin DOMAIN tree
  /\ Front(path) \in DOMAIN tree /\ tree[Front(path)] = "DIRECTORY"
  /\ tree' = [p \in DOMAIN tree \cup {path} |-> IF p = path THEN type ELSE tree[p]]

\* A node goes with everything below it and nothing else.
Delete(path) ==
  /\ path # <<>>
  /\ tree' = [q \in {p \in DOMAIN tree : ~IsPrefix(path, p)} |-> tree[q]]

\* The paths that appear and disappear in a step say which one was created or
\* deleted.
Next ==
  \/ \E path \in DOMAIN tree' \ DOMAIN tree, type \in {"DIRECTORY", "REGULAR"} :
        path # <<>> /\ Create(path, type)
  \/ \E path \in DOMAIN tree \ DOMAIN tree' : Delete(path)

Spec == Init /\ [][Next]_tree

=============================================================================
