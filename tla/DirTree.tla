------------------------------ MODULE DirTree -------------------------------
(***************************************************************************)
(* What the file system promises to the shell: a tree of directories in    *)
(* which entries are never lost, altered or linked twice.  Power may fail  *)
(* at any time, and all that it can take away are the entries added to the *)
(* current directory since it was last saved; a directory that is left has *)
(* been saved.                                                             *)
(***************************************************************************)
EXTENDS Naturals

CONSTANTS Name, Inode, Root

VARIABLES
    tree,       \* what ls shows: [in, name, is, dir] for each entry
    saved,      \* the entries that survive a power failure
    cwd
vars == <<tree, saved, cwd>>

Init == tree = {} /\ saved = {} /\ cwd = Root

InCwd == {e \in tree : e.in = cwd}

(* A new entry has an inode of its own.                                    *)
Create(name, dir) ==
    \E n \in Inode \ ({Root} \cup {e.is : e \in tree}) :
        /\ tree' = tree \cup {[in |-> cwd, name |-> name, is |-> n, dir |-> dir]}
        /\ UNCHANGED <<saved, cwd>>

Save ==
    /\ saved' = saved \cup InCwd
    /\ UNCHANGED <<tree, cwd>>

ChangeDir(d) ==
    /\ InCwd \subseteq saved
    /\ d = Root \/ \E e \in tree : e.dir /\ e.is = d
    /\ cwd' = d
    /\ UNCHANGED <<tree, saved>>

PowerFailure ==
    /\ tree' = saved
    /\ cwd' = Root
    /\ UNCHANGED saved

Next ==
    \/ \E name \in Name, dir \in BOOLEAN : Create(name, dir)
    \/ Save
    \/ \E d \in Inode : ChangeDir(d)
    \/ PowerFailure
Spec == Init /\ [][Next]_vars
=============================================================================
