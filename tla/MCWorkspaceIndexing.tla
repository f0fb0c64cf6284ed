------------------------ MODULE MCWorkspaceIndexing ------------------------
EXTENDS WorkspaceIndexing, TLC
CONSTANTS u1, u2, m, f1, f2

\* Two programs in two workspace folders, each with a module of the same path.
SameModule == u1 :> m @@ u2 :> m
TwoFolders == u1 :> f1 @@ u2 :> f2
HandlerSymmetry == Permutations(Handlers)
=============================================================================
