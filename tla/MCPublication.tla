---------------------------- MODULE MCPublication ----------------------------
(***************************************************************************)
(* Two zip plugins and the zenodo plugin after them, in a results          *)
(* directory that gets its second campaign at some time.                   *)
(***************************************************************************)
EXTENDS Publication

\* The entries have a destination of their own, but the same file names; or they
\* write the same files.
OwnDirectories == [path |-> <<1, 2, 3, 4>>, name |-> <<1, 2, 1, 2>>]
SameFiles      == [path |-> <<1, 2, 1, 2>>, name |-> <<1, 2, 1, 2>>]
MCLayouts == {OwnDirectories, SameFiles}
=============================================================================
