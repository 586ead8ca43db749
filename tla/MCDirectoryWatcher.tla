-------------------------- MODULE MCDirectoryWatcher --------------------------
(* A working copy, a folder in it, and a folder besides whose name begins like *)
(* that of the working copy, so that it is sorted in between.                  *)
EXTENDS DirectoryWatcher

CONSTANTS C, wc, bak, sub   \* C:\, C:\wc, C:\wc-bak, C:\wc\sub

MCAbove == C :> {} @@ wc :> {C} @@ bak :> {C} @@ sub :> {C, wc}
MCOrder == C :> 0 @@ wc :> 1 @@ bak :> 2 @@ sub :> 3
MCExtends == {<<bak, wc>>}

=============================================================================
