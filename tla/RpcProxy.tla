-------------------------------- MODULE RpcProxy --------------------------------
(***************************************************************************)
(* Redirected system calls: the client side of lib/proxy/rpmsg_retarget.c  *)
(* in the program apps/examples/rpc_demo/rpc_demo.c, the service that      *)
(* executes them in apps/examples/rpc_demo/rpc_demod.c, and platform_poll  *)
(* with its interrupt handler, by which each core waits for the other.     *)
(*                                                                         *)
(* Messages travel over the ordered channel of RpmsgChannel; each core has *)
(* the name service endpoint and the endpoint of the RPC service. A core   *)
(* is one thread and one interrupt; callbacks run inside platform_poll.    *)
(***************************************************************************)
EXTENDS Integers, Sequences

CONSTANTS
    MaxCalls,    \* bound on the system calls of the program
    MaxFaults,   \* bound on the messages no buffer was found for in 15 s
    MaxSignals,  \* bound on SIGTERM and SIGINT to the service
    FarewellLost, \* may the announcement of a destroyed endpoint find no buffer?
    Syscalls     \* OPEN_, READ_, WRITE_ and CLOSE_SYSCALL_ID

ASSUME ProxyAssumption ==
    MaxCalls \in Nat /\ MaxFaults \in Nat /\ MaxSignals \in Nat
    /\ FarewellLost \in BOOLEAN /\ "none" \notin Syscalls

Sides == {"client", "server"}
Peer(s) == IF s = "client" THEN "server" ELSE "client"
CallNumbers == 1..MaxCalls
EINVAL == -22
NoResult == 0

VARIABLES
    pc,        \* where the thread of each core is
    poll,      \* and where in platform_poll
    nokick,    \* prproc->ipi_nokick
    ipi,       \* the interrupt of a core is pending
    chan,      \* messages on their way to each core
    ns,        \* is the name service endpoint registered?
    open,      \* is the RPC endpoint registered (ept->rdev set)?
    bound,     \* is its dest_addr known?
    nacked,    \* rpc->nacked
    respbuf,   \* rpc->respbuf: the call whose buffer it points to, 0 for NULL
    resp,      \* the buffer of the last call: [id, val]
    id,        \* the last call's syscall id
    calls, executed, result, \* see RpcService
    err_cnt, request_termination, ept_deleted,  \* of rpc_demod.c
    faults, signals

hw == <<nokick, ipi>>
epts == <<ns, open, bound>>
rpc == <<nacked, respbuf, resp, id, calls, result>>
service == <<err_cnt, request_termination, ept_deleted, executed>>
bounds == <<faults, signals>>
vars == <<pc, poll, hw, chan, epts, rpc, service, bounds>>

Message(kind, i, v) == [kind |-> kind, id |-> i, val |-> v]
NsMsg(kind) == Message(kind, "none", 0)
Empty == [id |-> "none", val |-> 0]       \* resp.id = 0

Init ==
    /\ pc = [s \in Sides |-> "start"] /\ poll = [s \in Sides |-> "no"]
    /\ nokick = [s \in Sides |-> TRUE] /\ ipi = [s \in Sides |-> FALSE]
    /\ chan = [s \in Sides |-> <<>>]
    /\ ns = [s \in Sides |-> TRUE]
    /\ open = [s \in Sides |-> FALSE] /\ bound = [s \in Sides |-> FALSE]
    /\ nacked = TRUE /\ respbuf = 0 /\ resp = Empty /\ id = "none"
    /\ calls = 0
    /\ executed = [n \in CallNumbers |-> 0]
    /\ result = [n \in CallNumbers |-> NoResult]
    /\ err_cnt = 0 /\ request_termination = FALSE /\ ept_deleted = FALSE
    /\ faults = 0 /\ signals = 0

(***************************************************************************)
(* Sending: rpmsg_send and rpmsg_send_ns_message.                          *)
(***************************************************************************)
Goto(s, l) == pc' = [pc EXCEPT ![s] = l]
At(s, l) == pc[s] = l /\ poll[s] = "no"

\* The message is queued and the peer's interrupt raised.
Post(s, m) ==
    /\ chan' = [chan EXCEPT ![Peer(s)] = Append(@, m)]
    /\ ipi' = [ipi EXCEPT ![Peer(s)] = TRUE]
Quiet == UNCHANGED <<chan, ipi>>

\* No buffer came free before the send gave up.
NoBuffer == faults < MaxFaults /\ faults' = faults + 1 /\ Quiet

\* rpmsg_send refuses an endpoint that is gone or has no destination.
Sendable(s) == open[s] /\ bound[s]

\* rpmsg_destroy_ept: says farewell, ignoring whether it was sent, and leaves the
\* list. An endpoint that left it before is left alone.
Destroy(s) ==
    /\ \/ open[s] /\ Post(s, NsMsg("destroy"))
       \/ (open[s] => FarewellLost) /\ Quiet
    /\ open' = [open EXCEPT ![s] = FALSE]

(***************************************************************************)
(* platform_poll and the interrupt handler. The flag is tested with        *)
(* interrupts disabled, and they stay so until the core sleeps.            *)
(***************************************************************************)
PollAt(s, l) == poll' = [poll EXCEPT ![s] = l]

TestFlag(s) ==
    /\ poll[s] = "test"
    /\ PollAt(s, IF nokick[s] THEN "wait" ELSE "drain")
    /\ nokick' = [nokick EXCEPT ![s] = TRUE]
    /\ UNCHANGED <<pc, ipi, chan, epts, rpc, service, bounds>>

\* irq_handler: notes the kick, acknowledges the interrupt.
Handler(s) ==
    /\ nokick' = [nokick EXCEPT ![s] = FALSE]
    /\ ipi' = [ipi EXCEPT ![s] = FALSE]

\* Mutant: the flag is tested, and the core sleeps, with interrupts enabled.
Masked_Never(s) == FALSE
Masked(s) == poll[s] = "wait"

Interrupt(s) ==
    /\ ipi[s] /\ ~Masked(s)
    /\ Handler(s)
    /\ UNCHANGED <<pc, poll, chan, epts, rpc, service, bounds>>

\* A pending interrupt ends the sleep; it is taken as soon as it is enabled.
Wake(s) ==
    /\ poll[s] = "wait" /\ ipi[s]
    /\ Handler(s)
    /\ PollAt(s, "test")
    /\ UNCHANGED <<pc, chan, epts, rpc, service, bounds>>

\* remoteproc_get_notification, down to the first rpmsg_virtio_get_rx_buffer.
Drain(s) ==
    /\ poll[s] = "drain"
    /\ PollAt(s, IF chan[s] = <<>> THEN "no" ELSE "cb")
    /\ UNCHANGED <<pc, hw, chan, epts, rpc, service, bounds>>

\* Mutant: the loop takes another message without looking whether there is one.
More_Assumed(s) == TRUE
More(s) == Tail(chan[s]) # <<>>

\* The end of the loop of rpmsg_virtio_rx_callback: the buffer goes back, and
\* the peer is told when there is no other message.
NextBuffer(s) ==
    /\ poll[s] = "ret"
    /\ chan' = [chan EXCEPT ![s] = Tail(@)]
    /\ IF More(s)
         THEN PollAt(s, "cb") /\ UNCHANGED ipi
         ELSE PollAt(s, "no") /\ ipi' = [ipi EXCEPT ![Peer(s)] = TRUE]
    /\ UNCHANGED <<pc, nokick, epts, rpc, service, bounds>>

(***************************************************************************)
(* Callbacks, run for the message at the head of the queue.                *)
(***************************************************************************)
Received(s, kinds) == poll[s] = "cb" /\ Head(chan[s]).kind \in kinds

\* rpmsg_virtio_ns_callback, NS_CREATE: an endpoint waiting for the service is
\* bound; there is no ns_bind_cb.
NsCreate(s) ==
    /\ Received(s, {"create"})
    /\ bound' = [bound EXCEPT ![s] = @ \/ (ns[s] /\ open[s])]
    /\ PollAt(s, "ret")
    /\ UNCHANGED <<pc, hw, chan, ns, open, rpc, service, bounds>>

\* A message for an endpoint that is gone is dropped.
Dropped(s) ==
    /\ poll[s] = "cb"
    /\ CASE Head(chan[s]).kind = "create" -> FALSE
         [] Head(chan[s]).kind = "destroy" -> ~(ns[s] /\ open[s])
         [] OTHER -> ~open[s]
    /\ PollAt(s, "ret")
    /\ UNCHANGED <<pc, hw, chan, epts, rpc, service, bounds>>

\* NS_DESTROY at the service: its ns_unbind_cb, rpmsg_service_unbind, does not
\* look at its argument.
ServerUnbind ==
    /\ Received("server", {"destroy"}) /\ ns["server"] /\ open["server"]
    /\ bound' = [bound EXCEPT !["server"] = FALSE]
    /\ Destroy("server")
    /\ ept_deleted' = TRUE
    /\ PollAt("server", "ret")
    /\ UNCHANGED <<pc, nokick, ns, rpc, executed, err_cnt, request_termination, bounds>>

\* NS_DESTROY at the client: rpmsg_service_unbind of rpmsg_retarget.c is given
\* the name service endpoint and takes it for the one in its rpmsg_rpc_data.
\* rpmsg_destroy_ept unregisters the name service, silently since its address is
\* a reserved one; ept_destroyed and nacked are written, and shutdown_cb is
\* called, beyond its end: the core goes on or is lost.
ClientUnbind ==
    /\ Received("client", {"destroy"}) /\ ns["client"] /\ open["client"]
    /\ bound' = [bound EXCEPT !["client"] = FALSE]
    /\ ns' = [ns EXCEPT !["client"] = FALSE]
    /\ \/ PollAt("client", "ret") /\ UNCHANGED pc
       \/ PollAt("client", "no") /\ Goto("client", "lost")
    /\ UNCHANGED <<hw, chan, open, rpc, service, bounds>>

\* rpmsg_rpc_ept_cb: the answer goes to the buffer of the call, if there is one,
\* and releases the caller. On TERM, which the service here never sends, the
\* endpoint is destroyed and the caller is not released.
RpcCallback ==
    LET m == Head(chan["client"])
        term == m.kind = "term"
    IN  /\ Received("client", {"answer", "term"}) /\ open["client"]
        /\ bound' = [bound EXCEPT !["client"] = TRUE]
        /\ IF term THEN Destroy("client") ELSE Quiet /\ UNCHANGED open
        /\ resp' = IF term \/ respbuf = 0 THEN resp ELSE [id |-> m.id, val |-> m.val]
        /\ nacked' = (term /\ nacked)
        /\ PollAt("client", "ret")
        /\ UNCHANGED <<pc, nokick, ns, respbuf, id, calls, result, service, bounds>>

\* handle_open, handle_close, handle_read, handle_write: execute the call, then
\* send its answer.
\* Mutant: a call whose answer could not be sent is handled again.
Answer_Retried(m) ==
    /\ executed' = [executed EXCEPT ![m.val] = @ + 1]
    /\ UNCHANGED err_cnt
    /\ \/ Post("server", Message("answer", m.id, m.val)) /\ PollAt("server", "ret")
          /\ UNCHANGED faults
       \/ NoBuffer /\ UNCHANGED poll

Answer(m) ==
    /\ executed' = [executed EXCEPT ![m.val] = @ + 1]
    /\ PollAt("server", "ret")
    /\ \/ Post("server", Message("answer", m.id, m.val)) /\ UNCHANGED <<faults, err_cnt>>
       \/ NoBuffer /\ err_cnt' = err_cnt + 1

\* rpmsg_endpoint_cb and handle_rpc of the service.
ServeCall ==
    /\ Received("server", {"call"}) /\ open["server"]
    /\ Answer(Head(chan["server"]))
    /\ bound' = [bound EXCEPT !["server"] = TRUE]
    /\ UNCHANGED <<pc, nokick, ns, open, rpc, request_termination, ept_deleted, signals>>

ServeTerm ==
    /\ Received("server", {"term"}) /\ open["server"]
    /\ request_termination' = TRUE
    /\ bound' = [bound EXCEPT !["server"] = TRUE]
    /\ PollAt("server", "ret")
    /\ UNCHANGED <<pc, hw, chan, ns, open, rpc, executed, err_cnt, ept_deleted, bounds>>

(***************************************************************************)
(* The service: app() of rpc_demod.c.                                      *)
(***************************************************************************)
\* rpmsg_create_ept: registers the endpoint and announces the service; without
\* a buffer for the announcement it is unregistered again.
CreateEpt(s, ok, failed) ==
    /\ At(s, "start")
    /\ \/ /\ open' = [open EXCEPT ![s] = TRUE] /\ Post(s, NsMsg("create"))
          /\ Goto(s, ok) /\ UNCHANGED faults
       \/ NoBuffer /\ Goto(s, failed) /\ UNCHANGED open
    /\ UNCHANGED <<poll, nokick, ns, bound, rpc, service, signals>>

ServerStart == CreateEpt("server", "serve", "exited")

ServerPoll ==
    /\ At("server", "serve")
    /\ Goto("server", "check") /\ PollAt("server", "test")
    /\ UNCHANGED <<hw, chan, epts, rpc, service, bounds>>

\* After each poll: an error, the end of the endpoint or a termination request
\* ends the service.
\* Mutant: only the termination request is looked at.
MustExit_TermOnly == err_cnt > 0 \/ request_termination
MustExit == err_cnt > 0 \/ ept_deleted \/ request_termination

ServerCheck ==
    /\ At("server", "check")
    /\ Goto("server", IF MustExit THEN "ending" ELSE "serve")
    /\ UNCHANGED <<poll, hw, chan, epts, rpc, service, bounds>>

\* terminate_rpc_app, on the way out and from exit_action_handler; the latter
\* leaves ept_deleted as it was, and the loop goes on.
terminate_rpc_app == IF ept_deleted THEN Quiet /\ UNCHANGED open ELSE Destroy("server")

ServerExit ==
    /\ At("server", "ending")
    /\ terminate_rpc_app
    /\ Goto("server", "exited")
    /\ UNCHANGED <<poll, nokick, ns, bound, rpc, service, bounds>>

Signal ==
    /\ signals < MaxSignals /\ signals' = signals + 1
    /\ pc["server"] \in {"serve", "check", "ending"}
    /\ terminate_rpc_app
    /\ UNCHANGED <<pc, poll, nokick, ns, bound, rpc, service, faults>>

(***************************************************************************)
(* The program: app() of rpc_demo.c and the calls it makes.                *)
(***************************************************************************)
\* rpmsg_rpc_init: creates the endpoint, then polls until it is bound.
ClientStart == CreateEpt("client", "bind", "exited")

ClientBind ==
    /\ At("client", "bind")
    /\ IF Sendable("client")
         THEN Goto("client", "run") /\ UNCHANGED poll
         ELSE PollAt("client", "test") /\ UNCHANGED pc
    /\ UNCHANGED <<hw, chan, epts, rpc, service, bounds>>

\* _open, _read, _write and _close up to rpmsg_rpc_send, which notes the buffer
\* for the answer and that there is none yet.
Call(i) ==
    /\ At("client", "run") /\ calls < MaxCalls
    /\ calls' = calls + 1 /\ id' = i
    /\ resp' = Empty /\ respbuf' = calls + 1 /\ nacked' = TRUE
    /\ Goto("client", "send")
    /\ UNCHANGED <<poll, hw, chan, epts, result, service, bounds>>

\* The call returns to the program; the buffer is gone, respbuf still points to it.
Return(v) ==
    /\ result' = [result EXCEPT ![calls] = v]
    /\ Goto("client", "run")

\* rpmsg_send in rpmsg_rpc_send.
SendCall ==
    /\ At("client", "send")
    /\ \/ /\ Sendable("client")
          /\ Post("client", Message("call", id, calls))
          /\ Goto("client", "wait") /\ UNCHANGED <<result, faults>>
       \/ Sendable("client") /\ NoBuffer /\ Return(EINVAL)
       \/ ~Sendable("client") /\ Quiet /\ UNCHANGED faults /\ Return(EINVAL)
    /\ UNCHANGED <<poll, nokick, epts, nacked, respbuf, resp, id, calls, service, signals>>

\* The loop of rpmsg_rpc_send, and the end of the system call: the buffer is
\* looked at as soon as the flag was found clear.
Acked == ~nacked

AwaitAnswer ==
    /\ At("client", "wait") /\ ~Acked
    /\ PollAt("client", "test") /\ nacked' = TRUE
    /\ UNCHANGED <<pc, hw, chan, epts, respbuf, resp, id, calls, result, service, bounds>>

TakeAnswer ==
    /\ At("client", "wait") /\ Acked
    /\ nacked' = TRUE
    /\ Return(IF resp.id = id THEN resp.val ELSE EINVAL)
    /\ UNCHANGED <<poll, hw, chan, epts, respbuf, resp, id, calls, service, bounds>>

\* The program asks the service to end, without waiting for an answer.
SendTerm ==
    /\ At("client", "run")
    /\ respbuf' = 0 /\ nacked' = TRUE
    /\ \/ Sendable("client") /\ Post("client", Message("term", "none", 0)) /\ UNCHANGED faults
       \/ Sendable("client") /\ NoBuffer
       \/ ~Sendable("client") /\ Quiet /\ UNCHANGED faults
    /\ Goto("client", "release")
    /\ UNCHANGED <<poll, nokick, epts, resp, id, calls, result, service, signals>>

\* rpmsg_rpc_release; ept_destroyed is 0, see ClientUnbind.
Release ==
    /\ At("client", "release")
    /\ Destroy("client")
    /\ respbuf' = 0
    /\ Goto("client", "released")
    /\ UNCHANGED <<poll, nokick, ns, bound, nacked, resp, id, calls, result, service, bounds>>

(***************************************************************************)
(* Specification.                                                          *)
(***************************************************************************)
PollStep(s) ==
    TestFlag(s) \/ Wake(s) \/ Drain(s) \/ NextBuffer(s) \/ NsCreate(s) \/ Dropped(s)

Server ==
    \/ PollStep("server") \/ ServerUnbind \/ ServeCall \/ ServeTerm
    \/ ServerStart \/ ServerPoll \/ ServerCheck \/ ServerExit

Client ==
    \/ PollStep("client") \/ ClientUnbind \/ RpcCallback
    \/ ClientStart \/ ClientBind \/ (\E i \in Syscalls : Call(i)) \/ SendCall
    \/ AwaitAnswer \/ TakeAnswer \/ SendTerm \/ Release

Next == Server \/ Client \/ Signal \/ \E s \in Sides : Interrupt(s)

\* Both cores run, and interrupts are delivered; nothing is assumed of faults
\* and signals.
Spec ==
    /\ Init /\ [][Next]_vars
    /\ WF_vars(Server) /\ WF_vars(Client)
    /\ \A s \in Sides : WF_vars(Interrupt(s))

(***************************************************************************)
(* Correctness.                                                            *)
(***************************************************************************)
\* Types, and where a core can be inside platform_poll: the client polls only
\* while it binds or waits for an answer, the service only inside its loop.
TypeOK ==
    /\ pc["client"] \in {"start", "bind", "run", "send", "wait", "release", "released",
                          "exited", "lost"}
    /\ pc["server"] \in {"start", "serve", "check", "ending", "exited"}
    /\ poll \in [Sides -> {"no", "test", "wait", "drain", "cb", "ret"}]
    /\ poll["client"] # "no" => pc["client"] \in {"bind", "wait"}
    /\ poll["server"] # "no" => pc["server"] = "check"
    /\ \A s \in Sides : poll[s] \in {"cb", "ret"} => chan[s] # <<>>
    /\ {nokick, ipi, ns, open, bound} \subseteq [Sides -> BOOLEAN]
    /\ nacked \in BOOLEAN /\ respbuf \in 0..MaxCalls /\ calls \in 0..MaxCalls
    /\ resp.val \in 0..MaxCalls /\ {resp.id, id} \subseteq Syscalls \cup {"none"}
    /\ DOMAIN result = CallNumbers /\ DOMAIN executed = CallNumbers
    /\ err_cnt \in 0..MaxFaults /\ faults \in 0..MaxFaults /\ signals \in 0..MaxSignals

\* The redirected calls keep the promise of RpcService: an answer is the call's
\* own, no call is executed twice, and a call that returned an error was not
\* executed, whatever was lost and whoever left in between.
Service == INSTANCE RpcService
    WITH busy <- pc["client"] \in {"send", "wait", "lost"} /\ calls > 0 /\ result[calls] = NoResult
ImplementsService == Service!Spec

\* A call is answered, or the client has been told that the service is gone: no
\* kick is lost between the test of ipi_nokick and the sleep of platform_poll.
Told == ~ns["client"]
AnswerOrFarewell == (pc["client"] = "wait") ~> (pc["client"] # "wait" \/ Told)

\* What rpmsg_retarget.h says of rpmsg_rpc_send: "it will return". A call does
\* return, also when the service goes away under it.
CallsReturn == (pc["client"] = "wait") ~> (pc["client"] # "wait")

\* When the program is done the service ends too, by the termination request or,
\* if that was lost, by the client's farewell; unless a signal took its endpoint
\* away before, after which nothing can end its loop.
ServerEnds == (pc["client"] = "released") ~> (pc["server"] = "exited" \/ signals > 0)
================================================================================
