----------------------------- MODULE RemoteprocOps -----------------------------
(***************************************************************************)
(* The life cycle calls of lib/remoteproc/remoteproc.c as functions of     *)
(* rproc->state and of what the platform's operation returns (0, or a      *)
(* negative value). Each runs under rproc->lock from its first test to its *)
(* last assignment, so it is one step. The result is the new state, the    *)
(* value returned, and which operations of the platform were called.       *)
(***************************************************************************)
EXTENDS Integers

RprocStates == {"OFFLINE", "CONFIGURED", "READY", "RUNNING", "STOPPED"}
Ok == 0
Err == -1        \* -RPROC_EINVAL, and the errors of the platform
Again == -2      \* -RPROC_EAGAIN

Result(st, r, calls) == [state |-> st, ret |-> r, calls |-> calls]

\* The state is READY afterwards, also when the platform's config failed.
remoteproc_config(st, r) ==
    IF st = "OFFLINE" THEN Result("READY", r, {"config"}) ELSE Result(st, Err, {})

\* RUNNING afterwards, also when the platform's start failed.
remoteproc_start(st, r) ==
    IF st = "READY" THEN Result("RUNNING", r, {"start"}) ELSE Result(st, Err, {})

\* STOPPED afterwards, also when the platform's stop failed.
remoteproc_stop(st, r) ==
    IF st \notin {"STOPPED", "OFFLINE"} THEN Result("STOPPED", r, {"stop"})
    ELSE Result(st, Ok, {})

\* The processor is stopped first unless it is STOPPED; only when that
\* succeeds is the platform's shutdown called, and only when that succeeds is
\* the state OFFLINE.
remoteproc_shutdown_Ignores(st, r_stop, r_shutdown) ==
    IF st = "OFFLINE" THEN Result(st, Ok, {})
    ELSE Result("OFFLINE", r_shutdown, {c \in {"stop"} : st # "STOPPED"} \cup {"shutdown"})
remoteproc_shutdown(st, r_stop, r_shutdown) ==
    IF st = "OFFLINE" THEN Result(st, Ok, {})
    ELSE LET stops == st # "STOPPED"
             ret == IF stops THEN r_stop ELSE Ok
             called == {c \in {"stop"} : stops}
         IN IF ret # Ok THEN Result(st, ret, called)
            ELSE Result(IF r_shutdown = Ok THEN "OFFLINE" ELSE st, r_shutdown,
                        called \cup {"shutdown"})

\* The platform's remove runs only in state OFFLINE.
remoteproc_remove(st) ==
    IF st = "OFFLINE" THEN Result(st, Ok, {"remove"}) ELSE Result(st, Again, {})
================================================================================
