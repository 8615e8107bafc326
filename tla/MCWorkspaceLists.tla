-------------------------- MODULE MCWorkspaceLists --------------------------
(* Instances of WorkspaceLists for TLC. *)
EXTENDS WorkspaceLists

AllLists  == {"owned", "joined", "projects", "members"}
AllModes  == {"alone", "writers", "free"}
=============================================================================
