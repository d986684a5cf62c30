------------------------ MODULE IdempotencyContract ------------------------
(***************************************************************************)
(* What an idempotency key promises its callers, whatever files and        *)
(* crashes lie beneath: the key is taken once and for good, its effect is  *)
(* executed at most once and only by the taker, and a stored answer is     *)
(* given only after the execution.                                         *)
(***************************************************************************)
EXTENDS Naturals

CONSTANT Callers

VARIABLES
    taken,    \* some caller owns the key
    executed, \* how often the effect was executed
    answer    \* what each caller was last told

vars == <<taken, executed, answer>>

Init ==
    /\ taken = FALSE
    /\ executed = 0
    /\ answer = [c \in Callers |-> "none"]

Tell(c, a) == answer' = [answer EXCEPT ![c] = a]

\* A caller asks, or forgets what it was told.
Ask(c) ==
    /\ Tell(c, "none")
    /\ UNCHANGED <<taken, executed>>

Take(c) ==
    /\ ~taken /\ taken' = TRUE
    /\ Tell(c, "executed")
    /\ UNCHANGED executed

Execute(c) ==
    /\ answer[c] = "executed" /\ executed = 0
    /\ executed' = 1
    /\ UNCHANGED <<taken, answer>>

Replay(c) ==
    /\ executed = 1
    /\ Tell(c, "stored")
    /\ UNCHANGED <<taken, executed>>

Refuse(c) ==
    /\ Tell(c, "refused")
    /\ UNCHANGED <<taken, executed>>

Next ==
    \E c \in Callers : Ask(c) \/ Take(c) \/ Execute(c) \/ Replay(c) \/ Refuse(c)

Spec == Init /\ [][Next]_vars
=============================================================================
