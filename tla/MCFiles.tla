------------------------------- MODULE MCFiles -------------------------------
(* A disk of six clusters with a directory s and a file s\b.t.  There is   *)
(* room for one more entry in the root, which the file a takes, or which   *)
(* a file takes that no call names.  Two of the paths lead into the file.  *)
EXTENDS Files

A  == <<"a">>
BT == <<"b", ".", "t">>
S  == <<"s">>
MCPaths   == {<<>>, <<A>>, <<S>>, <<S, BT>>, <<A, <<"t">>>>, <<A, S>>}
MCFolders == {<<S>>, <<A, S>>}
WithFolder == create_file(create_folder(FreshDisk, <<S>>, {"Directory"}).disk,
                          <<S, BT>>, {}).disk
MCBoots   == {WithFolder, create_file(WithFolder, <<A>>, {}).disk,
              create_file(WithFolder, <<<<"c">>>>, {}).disk}
Symmetry  == Permutations(Handles) \union Permutations(Values)
=============================================================================
