------------------------ MODULE MCCompilerService ------------------------
(* Small instances of the compile queue. *)
EXTENDS CompilerService
CONSTANTS full, partial
BothKeys == {full, partial}
FullCompile == {<<full, FALSE>>}
PartialCompile == {<<partial, FALSE>>}
=============================================================================
