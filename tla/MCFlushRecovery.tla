-------------------------- MODULE MCFlushRecovery --------------------------
(* Small instances of FlushRecovery for TLC. *)
EXTENDS FlushRecovery

CONSTANTS c1, c2, j1, j2

OneCF   == {{c1}}
TwoCFs  == {{c1}, {c1, c2}}

Fault(c, e, r) == [crashes |-> c, errors |-> e, rolls |-> r]

CrashTwice   == {Fault(2, 0, FALSE)}
CrashOrError == CrashTwice \cup {Fault(1, 1, TRUE)}
OneError     == {Fault(0, 1, FALSE)}
=============================================================================
