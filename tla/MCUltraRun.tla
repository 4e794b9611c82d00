------------------------------ MODULE MCUltraRun ------------------------------
EXTENDS UltraRun

CONSTANTS a, b

MCDeps == [n \in Node |-> IF n = b THEN {a} ELSE {}]

===============================================================================
