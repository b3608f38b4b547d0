------------------------------ MODULE MCFileOps ------------------------------
(* Model-checking instance of FileOps: a directory, a file in it.          *)
EXTENDS FileOps, TLC

CONSTANTS dir, file

MCPaths    == {dir, file}
MCUnder    == dir :> {dir, file} @@ file :> {file}
Symmetric  == Permutations(Callers)
MCInitKind == dir :> "dir" @@ file :> "file"
=============================================================================
