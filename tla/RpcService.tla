------------------------------- MODULE RpcService -------------------------------
(***************************************************************************)
(* What the redirected system calls promise the program that makes them:   *)
(* the calls come one after the other; each is executed at most once, by   *)
(* the other core; a call that returns an answer returns its own, and one  *)
(* that fails has not been executed. The answer to call n is written n.    *)
(***************************************************************************)
EXTENDS Integers

CONSTANTS MaxCalls, EINVAL, NoResult

VARIABLES
    calls,     \* how many calls the program has made
    busy,      \* is the last of them still under way?
    executed,  \* how often each call was executed
    result     \* what each call returned, NoResult before it did

svcVars == <<calls, busy, executed, result>>

CallNumbers == 1..MaxCalls

Init ==
    /\ calls = 0 /\ busy = FALSE
    /\ executed = [n \in CallNumbers |-> 0]
    /\ result = [n \in CallNumbers |-> NoResult]

Issue ==
    /\ ~busy /\ calls < MaxCalls
    /\ calls' = calls + 1 /\ busy' = TRUE
    /\ UNCHANGED <<executed, result>>

Execute ==
    /\ busy /\ executed[calls] = 0
    /\ executed' = [executed EXCEPT ![calls] = 1]
    /\ UNCHANGED <<calls, busy, result>>

Answer ==
    /\ busy /\ executed[calls] = 1
    /\ busy' = FALSE
    /\ result' = [result EXCEPT ![calls] = calls]
    /\ UNCHANGED <<calls, executed>>

Fail ==
    /\ busy /\ executed[calls] = 0
    /\ busy' = FALSE
    /\ result' = [result EXCEPT ![calls] = EINVAL]
    /\ UNCHANGED <<calls, executed>>

Next == Issue \/ Execute \/ Answer \/ Fail

Spec == Init /\ [][Next]_svcVars
================================================================================
