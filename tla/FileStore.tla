----------------------------- MODULE FileStore -----------------------------
(***************************************************************************)
(* What a file system image promises the user of echfs-utils: a tree of    *)
(* directories and of files that, once stored, stay in it under their      *)
(* name and with their contents until the image is formatted again.        *)
(* Nothing else happens to it, also when a command is cut short.           *)
(***************************************************************************)
EXTENDS Integers, Sequences

CONSTANTS
    Dirs,           \* the paths a directory may have
    Files,          \* the paths a file may have
    Contents(_)     \* Contents(f): what may be stored under path f

VARIABLES
    dirs,           \* the paths of the directories
    files           \* the files: records of a path and its contents

vars == <<dirs, files>>

Parent(path) == SubSeq(path, 1, Len(path) - 1)

\* The root is always there.
HasParent(path) == Len(path) = 1 \/ Parent(path) \in dirs

Init == dirs = {} /\ files = {}

\* One directory more, in a directory that is there.
MakeDir ==
    /\ \E path \in dirs' \ dirs :
          /\ path \in Dirs
          /\ HasParent(path)
          /\ dirs' = dirs \cup {path}
    /\ UNCHANGED files

\* One file more, under a path that had none.
Store ==
    /\ \E new \in files' \ files :
          /\ new.path \in Files
          /\ new.data \in Contents(new.path)
          /\ HasParent(new.path)
          /\ \A f \in files : f.path # new.path
          /\ files' = files \cup {new}
    /\ UNCHANGED dirs

Wipe == dirs' = {} /\ files' = {}

Next == MakeDir \/ Store \/ Wipe

Spec == Init /\ [][Next]_vars

=============================================================================
