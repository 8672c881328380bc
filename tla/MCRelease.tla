----------------------------- MODULE MCRelease ------------------------------
(* Release for TLC. *)
EXTENDS Release, TLC

CONSTANTS j1, a1

\* seedRelease inserts nothing, or one job and the app that deploys it.
NoSeed == << >>
SeedApp == a1 :> j1
SeedImage == j1 :> "image"
TheApp == {a1}
TheJob == {j1}
Empty == {}

\* The calls clients make in an instance.
AllCalls == {"CreateJob", "UpdateJob", "DeleteJob", "CreateBuild",
             "CreateApp", "UpdateApp", "DeleteApp", "CreateDeploy"}
BuildAndDeploy == {"UpdateJob", "CreateBuild", "CreateDeploy"}
ImageOnly == {"image"}
AnyLabel == {"archive", "image"}
ArchiveOnly == {"archive"}

Symmetry == Permutations(Commits) \cup Permutations(Clients)
=============================================================================
