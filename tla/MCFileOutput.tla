---------------------------- MODULE MCFileOutput ---------------------------
(* Three entities of two types, handed over two at a time. *)
EXTENDS FileOutput

MCTypeOf == <<"A", "B", "A">>
=============================================================================
