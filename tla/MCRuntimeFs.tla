---------------------------- MODULE MCRuntimeFs ----------------------------
(* Model-checking instance of FsImage.  The paths are "/", its other        *)
(* spelling "//" and those of one or two different names.  The opens cover *)
(* a reader, a writer that creates the file or finds it, and truncation    *)
(* without writing; a directory that is made is not readable.              *)
EXTENDS FsImage, TLC

Pieces == Names \ {Empty}
MCPath ==
  {<<>>, <<Empty>>} \cup {<<n>> : n \in Pieces}
    \cup UNION {{<<n, m>> : m \in Pieces \ {n}} : n \in Pieces}
MCFlagSets == {{"read"}, {"create", "write"}, {"truncate"}}
MCModes == {{"write"}}
MCSymmetry == Permutations(Names \ {Empty}) \cup Permutations(Pids)
=============================================================================
