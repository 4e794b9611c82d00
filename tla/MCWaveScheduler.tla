--------------------------- MODULE MCWaveScheduler ---------------------------
(* Four roots, f overlapping a; c waits for a and overlaps e; d waits for c and, *)
(* wrongly, for itself, so that both a cycle and an orderly end are met.                 *)
EXTENDS WaveScheduler, TLC

CONSTANTS a, b, c, d, e, f, x

Graph == a :> {x} @@ b :> {} @@ c :> {a} @@ d :> {c, d} @@ e :> {} @@ f :> {}
Scopes == a :> {f} @@ b :> {} @@ c :> {e} @@ d :> {} @@ e :> {c} @@ f :> {a}
Order == a :> 1 @@ b :> 2 @@ c :> 4 @@ d :> 5 @@ e :> 3 @@ f :> 6
=============================================================================
