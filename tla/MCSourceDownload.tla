------------------------- MODULE MCSourceDownload -------------------------
(* Every manifest of two lanes that give their types no schema, a local one  *)
(* or one of two urls, with or without a global url. One collector has two   *)
(* remote inputs, the other a local and a remote one.                        *)
EXTENDS SourceDownload

CONSTANTS u1, u2, f1, t1, t2

Manifest(schemas, types, global) ==
    [schema |-> schemas, types |-> types, global |-> global,
     inputs |-> <<<<u1, u2>>, <<f1, u1>>>>]

SmallSettings ==
    {Manifest(schemas, types, global) :
       schemas \in [Lanes -> {u1, u2, f1, NoSource}],
       types \in [Lanes -> {<<t1>>, <<t1, t2>>}],
       global \in {u2, NoSource}}
=============================================================================
