---------------------------- MODULE RpcProxyProofs ----------------------------
(***************************************************************************)
(* Theorems about RpcProxy, for any number of calls, faults and signals    *)
(* and any set of system calls: the types, and that the redirected calls   *)
(* implement RpcService.                                                   *)
(***************************************************************************)
EXTENDS RpcProxy, SequenceTheorems, TLAPS

Kinds == {"create", "destroy", "call", "term", "answer"}
Ids == Syscalls \cup {"none"}
Messages == [kind : Kinds, id : Ids, val : 0..MaxCalls]
ClientLabels == {"start", "bind", "run", "send", "wait", "release", "released", "exited", "lost"}
ServerLabels == {"start", "serve", "check", "ending", "exited"}

(***************************************************************************)
(* The type invariant in inductive form: the variables as functions, the   *)
(* messages of the channel, and no more errors counted than buffers were   *)
(* missing.                                                                *)
(***************************************************************************)
ControlTypes ==
    /\ pc \in [Sides -> ClientLabels \cup ServerLabels]
    /\ poll \in [Sides -> {"no", "test", "wait", "drain", "cb", "ret"}]
    /\ pc["client"] \in ClientLabels
    /\ pc["server"] \in ServerLabels
    /\ poll["client"] # "no" => pc["client"] \in {"bind", "wait"}
    /\ poll["server"] # "no" => pc["server"] = "check"

ChannelTypes ==
    /\ chan \in [Sides -> Seq(Messages)]
    /\ \A s \in Sides : poll[s] \in {"cb", "ret"} => chan[s] # <<>>

FlagTypes ==
    /\ nokick \in [Sides -> BOOLEAN] /\ ipi \in [Sides -> BOOLEAN]
    /\ ns \in [Sides -> BOOLEAN] /\ open \in [Sides -> BOOLEAN] /\ bound \in [Sides -> BOOLEAN]
    /\ nacked \in BOOLEAN

DataTypes ==
    /\ respbuf \in 0..MaxCalls /\ calls \in 0..MaxCalls
    /\ resp \in [id : Ids, val : 0..MaxCalls] /\ id \in Ids
    /\ result \in [CallNumbers -> Int]
    /\ executed \in [CallNumbers -> Nat]
    /\ err_cnt \in Nat /\ faults \in 0..MaxFaults /\ err_cnt <= faults
    /\ signals \in 0..MaxSignals

TypeInv == ControlTypes /\ ChannelTypes /\ FlagTypes /\ DataTypes

(***************************************************************************)
(* The ledger of calls and answers. A message is unseen until the callback *)
(* for it has run: platform_poll removes it from the queue after that.     *)
(***************************************************************************)
Unseen(s, k) ==
    {i \in 1..Len(chan[s]) : chan[s][i].kind = k /\ (i = 1 => poll[s] # "ret")}

\* The one call on its way is the last, and has not been executed.
CallUnderWay ==
    \A i \in Unseen("server", "call") :
      /\ chan["server"][i].val = calls /\ chan["server"][i].id = id
      /\ calls \in CallNumbers /\ executed[calls] = 0
      /\ pc["client"] \in {"wait", "lost"}
      /\ \A j \in Unseen("server", "call") : i = j

\* The one answer on its way is that to the last call, which has been executed.
AnswerUnderWay ==
    \A i \in Unseen("client", "answer") :
      /\ chan["client"][i].val = calls /\ chan["client"][i].id = id
      /\ calls \in CallNumbers /\ executed[calls] = 1
      /\ pc["client"] \in {"wait", "lost"} /\ nacked
      /\ \A j \in Unseen("client", "answer") : i = j

NoTerm == \A i \in 1..Len(chan["client"]) : chan["client"][i].kind # "term"

\* The client is released only by the answer to its call.
Released ==
    ~nacked => /\ pc["client"] \in {"wait", "lost"}
               /\ calls \in CallNumbers /\ executed[calls] = 1
               /\ resp.id = id /\ resp.val = calls

\* What the position of the client says of its last call.
LastCall ==
    /\ pc["client"] \in {"start", "bind", "exited"} => calls = 0
    /\ pc["client"] \in {"send", "wait"} => calls \in CallNumbers /\ respbuf = calls
    /\ pc["client"] = "send" => executed[calls] = 0
    /\ pc["client"] \in {"send", "wait", "lost"} /\ calls \in CallNumbers
         => result[calls] = NoResult

FutureCalls == \A n \in CallNumbers : n > calls => executed[n] = 0 /\ result[n] = NoResult

Ledger == CallUnderWay /\ AnswerUnderWay /\ NoTerm /\ Released /\ LastCall /\ FutureCalls

\* Before rpmsg_rpc_init every variable of client and server has its type.
LEMMA TypeInit == Init => TypeInv
BY ProxyAssumption DEF Init, TypeInv, ControlTypes, ChannelTypes, FlagTypes, DataTypes, Sides,
     CallNumbers, Messages, ClientLabels, ServerLabels, Ids, Empty, NoResult

\* Posting a message leaves the channels sequences of messages, and empties none.
LEMMA PostTypes ==
    ASSUME TypeInv, NEW s \in Sides, NEW m \in Messages, Post(s, m)
    PROVE  /\ chan' \in [Sides -> Seq(Messages)] /\ ipi' \in [Sides -> BOOLEAN]
           /\ \A r \in Sides : chan[r] # <<>> => chan'[r] # <<>>
<1>1. Peer(s) \in Sides
  BY DEF Peer, Sides
<1>2. chan \in [Sides -> Seq(Messages)] /\ ipi \in [Sides -> BOOLEAN]
  BY DEF TypeInv, ChannelTypes, FlagTypes
<1>3. chan[Peer(s)] \in Seq(Messages)
  BY <1>1, <1>2
<1>4. Append(chan[Peer(s)], m) \in Seq(Messages) /\ Append(chan[Peer(s)], m) # <<>>
  BY <1>3, AppendProperties
<1> QED BY <1>1, <1>2, <1>4 DEF Post

\* The messages that are sent are messages.
LEMMA Sent ==
    ASSUME TypeInv, NEW k \in Kinds
    PROVE  NsMsg(k) \in Messages /\ Message(k, id, calls) \in Messages
           /\ Message(k, "none", 0) \in Messages
BY ProxyAssumption DEF TypeInv, DataTypes, NsMsg, Message, Messages, Ids

\* Destroying an endpoint at most posts its farewell.
LEMMA DestroyTypes ==
    ASSUME TypeInv, NEW s \in Sides, Destroy(s)
    PROVE  /\ chan' \in [Sides -> Seq(Messages)] /\ ipi' \in [Sides -> BOOLEAN]
           /\ open' \in [Sides -> BOOLEAN]
           /\ \A r \in Sides : chan[r] # <<>> => chan'[r] # <<>>
<1>1. open' \in [Sides -> BOOLEAN]
  BY DEF TypeInv, FlagTypes, Destroy
<1>2. NsMsg("destroy") \in Messages
  BY Sent DEF Kinds
<1>3. CASE Post(s, NsMsg("destroy"))
  BY <1>1, <1>2, <1>3, PostTypes
<1>4. CASE Quiet
  BY <1>1, <1>4 DEF Quiet, TypeInv, FlagTypes, ChannelTypes
<1> QED BY <1>3, <1>4 DEF Destroy

\* The message a callback runs for is a message.
LEMMA HeadTypes ==
    ASSUME TypeInv, NEW s \in Sides, poll[s] \in {"cb", "ret"}
    PROVE  /\ Head(chan[s]) \in Messages /\ Tail(chan[s]) \in Seq(Messages)
           /\ Head(chan[s]) = chan[s][1] /\ 1 \in 1..Len(chan[s])
<1>1. chan[s] \in Seq(Messages) /\ chan[s] # <<>>
  BY DEF TypeInv, ChannelTypes
<1> QED BY <1>1, HeadTailProperties, EmptySeq

\* Every step of the client, the server or the interrupts keeps the types.
LEMMA TypeStep == ASSUME TypeInv, [Next]_vars PROVE TypeInv'
<1> USE ProxyAssumption DEF TypeInv, hw, epts, rpc, service, bounds
<1>1. ASSUME NEW s \in Sides, TestFlag(s) PROVE TypeInv'
  <2>1. ControlTypes'
    BY <1>1 DEF ControlTypes, TestFlag, PollAt, Goto, At, Sides, ClientLabels, ServerLabels
  <2>2. ChannelTypes' /\ FlagTypes'
    BY <1>1 DEF ControlTypes, ChannelTypes, FlagTypes, TestFlag, PollAt, At, Handler
  <2>3. DataTypes'
    BY <1>1 DEF DataTypes, TestFlag, CallNumbers, NoBuffer
  <2> QED BY <2>1, <2>2, <2>3
<1>2. ASSUME NEW s \in Sides, Interrupt(s) PROVE TypeInv'
  <2>1. ControlTypes'
    BY <1>2 DEF ControlTypes, Interrupt, PollAt, Goto, At, Sides, ClientLabels, ServerLabels
  <2>2. ChannelTypes' /\ FlagTypes'
    BY <1>2 DEF ControlTypes, ChannelTypes, FlagTypes, Interrupt, PollAt, At, Handler
  <2>3. DataTypes'
    BY <1>2 DEF DataTypes, Interrupt, CallNumbers, NoBuffer
  <2> QED BY <2>1, <2>2, <2>3
<1>3. ASSUME NEW s \in Sides, Wake(s) PROVE TypeInv'
  <2>1. ControlTypes'
    BY <1>3 DEF ControlTypes, Wake, PollAt, Goto, At, Sides, ClientLabels, ServerLabels
  <2>2. ChannelTypes' /\ FlagTypes'
    BY <1>3 DEF ControlTypes, ChannelTypes, FlagTypes, Wake, PollAt, At, Handler
  <2>3. DataTypes'
    BY <1>3 DEF DataTypes, Wake, CallNumbers, NoBuffer
  <2> QED BY <2>1, <2>2, <2>3
<1>4. ASSUME NEW s \in Sides, Drain(s) PROVE TypeInv'
  <2>1. ControlTypes'
    BY <1>4 DEF ControlTypes, Drain, PollAt, Goto, At, Sides, ClientLabels, ServerLabels
  <2>2. ChannelTypes' /\ FlagTypes'
    BY <1>4 DEF ControlTypes, ChannelTypes, FlagTypes, Drain, PollAt, At, Handler
  <2>3. DataTypes'
    BY <1>4 DEF DataTypes, Drain, CallNumbers, NoBuffer
  <2> QED BY <2>1, <2>2, <2>3
<1>5. ASSUME NEW s \in Sides, NextBuffer(s) PROVE TypeInv'
  <2>1. ControlTypes'
    BY <1>5 DEF ControlTypes, NextBuffer, PollAt, Goto, At, Sides, ClientLabels, ServerLabels
  <2>2. ChannelTypes' /\ FlagTypes'
    <3>1. Tail(chan[s]) \in Seq(Messages)
      BY <1>5, HeadTypes DEF NextBuffer
    <3>2. chan' \in [Sides -> Seq(Messages)] /\ chan' = [chan EXCEPT ![s] = Tail(chan[s])]
      BY <1>5, <3>1 DEF NextBuffer, ChannelTypes
    <3>3. \A r \in Sides : poll'[r] \in {"cb", "ret"} => chan'[r] # <<>>
      BY <1>5, <3>2 DEF NextBuffer, ChannelTypes, ControlTypes, PollAt, More
    <3> QED BY <1>5, <3>2, <3>3 DEF NextBuffer, ChannelTypes, FlagTypes
  <2>3. DataTypes'
    BY <1>5 DEF DataTypes, NextBuffer, CallNumbers, NoBuffer
  <2> QED BY <2>1, <2>2, <2>3
<1>6. ASSUME NEW s \in Sides, NsCreate(s) PROVE TypeInv'
  <2>1. ControlTypes'
    BY <1>6 DEF ControlTypes, NsCreate, Received, PollAt, Goto, At, Sides, ClientLabels,
        ServerLabels
  <2>2. ChannelTypes' /\ FlagTypes'
    BY <1>6 DEF ControlTypes, ChannelTypes, FlagTypes, NsCreate, Received, PollAt, At, Handler
  <2>3. DataTypes'
    BY <1>6 DEF DataTypes, NsCreate, CallNumbers, NoBuffer
  <2> QED BY <2>1, <2>2, <2>3
<1>7. ASSUME NEW s \in Sides, Dropped(s) PROVE TypeInv'
  <2>1. ControlTypes'
    BY <1>7 DEF ControlTypes, Dropped, PollAt, Goto, At, Sides, ClientLabels, ServerLabels
  <2>2. ChannelTypes' /\ FlagTypes'
    BY <1>7 DEF ControlTypes, ChannelTypes, FlagTypes, Dropped, PollAt, At, Handler
  <2>3. DataTypes'
    BY <1>7 DEF DataTypes, Dropped, CallNumbers, NoBuffer
  <2> QED BY <2>1, <2>2, <2>3
<1>8. ASSUME ServerUnbind PROVE TypeInv'
  <2>1. ControlTypes'
    BY <1>8 DEF ControlTypes, ServerUnbind, Received, PollAt, Goto, At, Sides, ClientLabels,
        ServerLabels
  <2>2. ChannelTypes' /\ FlagTypes'
    BY <1>8, PostTypes, Sent, DestroyTypes DEF ControlTypes, ChannelTypes, FlagTypes,
        ServerUnbind, Received, PollAt, At, Sides, Kinds, NoBuffer, Quiet
  <2>3. DataTypes'
    BY <1>8 DEF DataTypes, ServerUnbind, CallNumbers, NoBuffer
  <2> QED BY <2>1, <2>2, <2>3
<1>9. ASSUME ServeCall PROVE TypeInv'
  <2>1. ControlTypes'
    BY <1>9 DEF ControlTypes, ServeCall, Answer, Received, PollAt, Goto, At, Sides, ClientLabels,
        ServerLabels
  <2>2. ChannelTypes' /\ FlagTypes'
    <3> DEFINE m == Head(chan["server"])
    <3>1. Message("answer", m.id, m.val) \in Messages
      BY <1>9, HeadTypes DEF ServeCall, Received, Sides, Message, Messages, Kinds
    <3> HIDE DEF m
    <3>2. /\ chan' \in [Sides -> Seq(Messages)] /\ ipi' \in [Sides -> BOOLEAN]
          /\ \A r \in Sides : chan[r] # <<>> => chan'[r] # <<>>
      BY <1>9, <3>1, PostTypes DEF ServeCall, Answer, NoBuffer, Quiet, ChannelTypes, FlagTypes,
          Sides, m
    <3> QED BY <1>9, <3>2 DEF ServeCall, Answer, Received, PollAt, ChannelTypes, ControlTypes,
                 FlagTypes, Sides
  <2>3. DataTypes'
    <3>1. executed' \in [CallNumbers -> Nat]
      <4> DEFINE v == Head(chan["server"]).val
      <4>1. executed' = [executed EXCEPT ![v] = executed[v] + 1]
        BY <1>9 DEF ServeCall, Answer
      <4> HIDE DEF v
      <4>2. \A n \in CallNumbers : executed'[n] \in Nat
        BY <4>1 DEF DataTypes
      <4> QED BY <4>1, <4>2 DEF DataTypes
    <3>2. err_cnt' \in Nat /\ faults' \in 0..MaxFaults /\ err_cnt' <= faults'
      BY <1>9 DEF DataTypes, ServeCall, Answer, NoBuffer
    <3> QED BY <1>9, <3>1, <3>2 DEF DataTypes, ServeCall
  <2> QED BY <2>1, <2>2, <2>3
<1>10. ASSUME ServeTerm PROVE TypeInv'
  <2>1. ControlTypes'
    BY <1>10 DEF ControlTypes, ServeTerm, Received, PollAt, Goto, At, Sides, ClientLabels,
        ServerLabels
  <2>2. ChannelTypes' /\ FlagTypes'
    BY <1>10 DEF ControlTypes, ChannelTypes, FlagTypes, ServeTerm, Received, PollAt, At, Handler
  <2>3. DataTypes'
    BY <1>10 DEF DataTypes, ServeTerm, CallNumbers, NoBuffer
  <2> QED BY <2>1, <2>2, <2>3
<1>11. ASSUME ServerStart PROVE TypeInv'
  <2>1. ControlTypes'
    BY <1>11 DEF ControlTypes, ServerStart, CreateEpt, PollAt, Goto, At, Sides, ClientLabels,
        ServerLabels
  <2>2. ChannelTypes' /\ FlagTypes'
    BY <1>11, PostTypes, Sent, DestroyTypes DEF ControlTypes, ChannelTypes, FlagTypes,
        ServerStart, CreateEpt, PollAt, At, Sides, Kinds, NoBuffer, Quiet
  <2>3. DataTypes'
    BY <1>11 DEF DataTypes, ServerStart, CreateEpt, CallNumbers, NoBuffer
  <2> QED BY <2>1, <2>2, <2>3
<1>12. ASSUME ServerPoll PROVE TypeInv'
  <2>1. ControlTypes'
    BY <1>12 DEF ControlTypes, ServerPoll, PollAt, Goto, At, Sides, ClientLabels, ServerLabels
  <2>2. ChannelTypes' /\ FlagTypes'
    BY <1>12 DEF ControlTypes, ChannelTypes, FlagTypes, ServerPoll, PollAt, At, Handler
  <2>3. DataTypes'
    BY <1>12 DEF DataTypes, ServerPoll, CallNumbers, NoBuffer
  <2> QED BY <2>1, <2>2, <2>3
<1>13. ASSUME ServerCheck PROVE TypeInv'
  <2>1. ControlTypes'
    BY <1>13 DEF ControlTypes, ServerCheck, PollAt, Goto, At, Sides, ClientLabels, ServerLabels
  <2>2. ChannelTypes' /\ FlagTypes'
    BY <1>13 DEF ControlTypes, ChannelTypes, FlagTypes, ServerCheck, PollAt, At, Handler
  <2>3. DataTypes'
    BY <1>13 DEF DataTypes, ServerCheck, CallNumbers, NoBuffer
  <2> QED BY <2>1, <2>2, <2>3
<1>14. ASSUME ServerExit PROVE TypeInv'
  <2>1. ControlTypes'
    BY <1>14 DEF ControlTypes, ServerExit, terminate_rpc_app, PollAt, Goto, At, Sides,
        ClientLabels, ServerLabels
  <2>2. ChannelTypes' /\ FlagTypes'
    BY <1>14, PostTypes, Sent, DestroyTypes DEF ControlTypes, ChannelTypes, FlagTypes, ServerExit,
        terminate_rpc_app, PollAt, At, Sides, Kinds, NoBuffer, Quiet
  <2>3. DataTypes'
    BY <1>14 DEF DataTypes, ServerExit, terminate_rpc_app, CallNumbers, NoBuffer
  <2> QED BY <2>1, <2>2, <2>3
<1>15. ASSUME ClientUnbind PROVE TypeInv'
  <2>1. ControlTypes'
    BY <1>15 DEF ControlTypes, ClientUnbind, Received, PollAt, Goto, At, Sides, ClientLabels,
        ServerLabels
  <2>2. ChannelTypes' /\ FlagTypes'
    BY <1>15 DEF ControlTypes, ChannelTypes, FlagTypes, ClientUnbind, Received, PollAt, At, Handler
  <2>3. DataTypes'
    BY <1>15 DEF DataTypes, ClientUnbind, CallNumbers, NoBuffer
  <2> QED BY <2>1, <2>2, <2>3
<1>16. ASSUME RpcCallback PROVE TypeInv'
  <2>1. ControlTypes'
    BY <1>16 DEF ControlTypes, RpcCallback, Received, PollAt, Goto, At, Sides, ClientLabels,
        ServerLabels
  <2>2. ChannelTypes' /\ FlagTypes'
    BY <1>16, PostTypes, Sent, DestroyTypes DEF ControlTypes, ChannelTypes, FlagTypes,
        RpcCallback, Received, PollAt, At, Sides, Kinds, NoBuffer, Quiet
  <2>3. DataTypes'
    <3>1. Head(chan["client"]) \in Messages
      BY <1>16, HeadTypes DEF RpcCallback, Received, Sides
    <3>2. resp' \in [id : Ids, val : 0..MaxCalls]
      BY <1>16, <3>1 DEF DataTypes, RpcCallback, Messages
    <3> QED BY <1>16, <3>2 DEF DataTypes, RpcCallback
  <2> QED BY <2>1, <2>2, <2>3
<1>17. ASSUME ClientStart PROVE TypeInv'
  <2>1. ControlTypes'
    BY <1>17 DEF ControlTypes, ClientStart, CreateEpt, PollAt, Goto, At, Sides, ClientLabels,
        ServerLabels
  <2>2. ChannelTypes' /\ FlagTypes'
    BY <1>17, PostTypes, Sent, DestroyTypes DEF ControlTypes, ChannelTypes, FlagTypes,
        ClientStart, CreateEpt, PollAt, At, Sides, Kinds, NoBuffer, Quiet
  <2>3. DataTypes'
    BY <1>17 DEF DataTypes, ClientStart, CreateEpt, CallNumbers, NoBuffer
  <2> QED BY <2>1, <2>2, <2>3
<1>18. ASSUME ClientBind PROVE TypeInv'
  <2>1. ControlTypes'
    BY <1>18 DEF ControlTypes, ClientBind, PollAt, Goto, At, Sides, ClientLabels, ServerLabels
  <2>2. ChannelTypes' /\ FlagTypes'
    BY <1>18 DEF ControlTypes, ChannelTypes, FlagTypes, ClientBind, PollAt, At, Handler
  <2>3. DataTypes'
    BY <1>18 DEF DataTypes, ClientBind, CallNumbers, NoBuffer
  <2> QED BY <2>1, <2>2, <2>3
<1>19. ASSUME NEW i \in Syscalls, Call(i) PROVE TypeInv'
  <2>1. ControlTypes'
    BY <1>19 DEF ControlTypes, Call, PollAt, Goto, At, Sides, ClientLabels, ServerLabels
  <2>2. ChannelTypes' /\ FlagTypes'
    BY <1>19 DEF ControlTypes, ChannelTypes, FlagTypes, Call, PollAt, At, Handler
  <2>3. DataTypes'
    <3>1. resp' \in [id : Ids, val : 0..MaxCalls]
      BY <1>19 DEF Call, Empty, Ids
    <3> QED BY <1>19, <3>1 DEF DataTypes, Call, Ids
  <2> QED BY <2>1, <2>2, <2>3
<1>20. ASSUME SendCall PROVE TypeInv'
  <2>1. ControlTypes'
    BY <1>20 DEF ControlTypes, SendCall, Return, PollAt, Goto, At, Sides, ClientLabels, ServerLabels
  <2>2. ChannelTypes' /\ FlagTypes'
    BY <1>20, PostTypes, Sent, DestroyTypes DEF ControlTypes, ChannelTypes, FlagTypes, SendCall,
        Return, PollAt, At, Sides, Kinds, NoBuffer, Quiet
  <2>3. DataTypes'
    <3>1. result' \in [CallNumbers -> Int] /\ faults' \in 0..MaxFaults /\ faults <= faults'
      BY <1>20 DEF DataTypes, SendCall, Return, NoBuffer, EINVAL
    <3> QED BY <1>20, <3>1 DEF DataTypes, SendCall
  <2> QED BY <2>1, <2>2, <2>3
<1>21. ASSUME AwaitAnswer PROVE TypeInv'
  <2>1. ControlTypes'
    BY <1>21 DEF ControlTypes, AwaitAnswer, PollAt, Goto, At, Sides, ClientLabels, ServerLabels
  <2>2. ChannelTypes' /\ FlagTypes'
    BY <1>21 DEF ControlTypes, ChannelTypes, FlagTypes, AwaitAnswer, PollAt, At, Handler
  <2>3. DataTypes'
    BY <1>21 DEF DataTypes, AwaitAnswer, CallNumbers, NoBuffer
  <2> QED BY <2>1, <2>2, <2>3
<1>22. ASSUME TakeAnswer PROVE TypeInv'
  <2>1. ControlTypes'
    BY <1>22 DEF ControlTypes, TakeAnswer, Return, PollAt, Goto, At, Sides, ClientLabels,
        ServerLabels
  <2>2. ChannelTypes' /\ FlagTypes'
    BY <1>22 DEF ControlTypes, ChannelTypes, FlagTypes, TakeAnswer, Return, PollAt, At, Handler
  <2>3. DataTypes'
    <3>1. result' \in [CallNumbers -> Int]
      <4>1. (IF resp.id = id THEN resp.val ELSE EINVAL) \in Int
        BY DEF DataTypes, EINVAL
      <4> QED BY <1>22, <4>1 DEF DataTypes, TakeAnswer, Return
    <3> QED BY <1>22, <3>1 DEF DataTypes, TakeAnswer
  <2> QED BY <2>1, <2>2, <2>3
<1>23. ASSUME SendTerm PROVE TypeInv'
  <2>1. ControlTypes'
    BY <1>23 DEF ControlTypes, SendTerm, PollAt, Goto, At, Sides, ClientLabels, ServerLabels
  <2>2. ChannelTypes' /\ FlagTypes'
    BY <1>23, PostTypes, Sent, DestroyTypes DEF ControlTypes, ChannelTypes, FlagTypes, SendTerm,
        PollAt, At, Sides, Kinds, NoBuffer, Quiet
  <2>3. DataTypes'
    BY <1>23 DEF DataTypes, SendTerm, CallNumbers, NoBuffer
  <2> QED BY <2>1, <2>2, <2>3
<1>24. ASSUME Release PROVE TypeInv'
  <2>1. ControlTypes'
    BY <1>24 DEF ControlTypes, Release, PollAt, Goto, At, Sides, ClientLabels, ServerLabels
  <2>2. ChannelTypes' /\ FlagTypes'
    BY <1>24, PostTypes, Sent, DestroyTypes DEF ControlTypes, ChannelTypes, FlagTypes, Release,
        PollAt, At, Sides, Kinds, NoBuffer, Quiet
  <2>3. DataTypes'
    BY <1>24 DEF DataTypes, Release, CallNumbers, NoBuffer
  <2> QED BY <2>1, <2>2, <2>3
<1>25. ASSUME Signal PROVE TypeInv'
  <2>1. ControlTypes'
    BY <1>25 DEF ControlTypes, Signal, terminate_rpc_app, PollAt, Goto, At, Sides, ClientLabels,
        ServerLabels
  <2>2. ChannelTypes' /\ FlagTypes'
    BY <1>25, PostTypes, Sent, DestroyTypes DEF ControlTypes, ChannelTypes, FlagTypes, Signal,
        terminate_rpc_app, PollAt, At, Sides, Kinds, NoBuffer, Quiet
  <2>3. DataTypes'
    BY <1>25 DEF DataTypes, Signal, terminate_rpc_app, CallNumbers, NoBuffer
  <2> QED BY <2>1, <2>2, <2>3
<1>99. CASE UNCHANGED vars
  BY <1>99 DEF vars, ControlTypes, ChannelTypes, FlagTypes, DataTypes
<1> QED BY <1>1, <1>2, <1>3, <1>4, <1>5, <1>6, <1>7, <1>8, <1>9, <1>10, <1>11, <1>12, <1>13,
    <1>14, <1>15, <1>16, <1>17, <1>18, <1>19, <1>20, <1>21, <1>22, <1>23, <1>24, <1>25, <1>99
    DEF Next, Server, Client, PollStep, Sides

\* Types, and where a core can be inside platform_poll, in every reachable state:
\* the client is in platform_poll only while it binds or waits, the service only
\* in its loop, and callbacks run only for a message that is there.
THEOREM ProxyTyped == Spec => []TypeOK
<1>1. TypeInv => TypeOK
  <2>1. TypeInv => {nokick, ipi, ns, open, bound} \subseteq [Sides -> BOOLEAN]
    BY DEF TypeInv, FlagTypes
  <2>2. TypeInv => err_cnt \in 0..MaxFaults /\ {resp.id, id} \subseteq Syscalls \cup {"none"}
    BY ProxyAssumption DEF TypeInv, DataTypes, Ids
  <2> QED BY <2>1, <2>2 DEF TypeInv, ControlTypes, ChannelTypes, FlagTypes, DataTypes, TypeOK,
               ClientLabels, ServerLabels
<1> QED BY <1>1, TypeInit, TypeStep, PTL DEF Spec

(***************************************************************************)
(* Steps that bring no call and no answer on its way: what is unseen       *)
(* afterwards was unseen before, at the same place or one further back.    *)
(***************************************************************************)
NoNew(s) ==
    /\ \E d \in {0, 1} : \A k \in {"call", "answer"} : \A i \in Unseen(s, k)' :
         i + d \in Unseen(s, k) /\ chan'[s][i] = chan[s][i + d]
    /\ \A i \in 1..Len(chan'[s]) :
         \/ chan'[s][i].kind # "term" \/ s = "server"
         \/ \E j \in 1..Len(chan[s]) : chan[s][j].kind = "term"

\* The channel is left alone, and at most its head is seen.
LEMMA SameNoNew ==
    ASSUME NEW s \in Sides, chan'[s] = chan[s], poll[s] = "ret" => poll'[s] = "ret"
    PROVE  NoNew(s)
<1>1. \A k \in {"call", "answer"} : \A i \in Unseen(s, k)' :
        i + 0 \in Unseen(s, k) /\ chan'[s][i] = chan[s][i + 0]
  BY DEF Unseen
<1> QED BY <1>1 DEF NoNew

\* What is posted is neither a call nor an answer.
LEMMA PostNoNew ==
    ASSUME TypeInv, NEW s \in Sides, NEW m, chan'[s] = Append(chan[s], m),
           m.kind \in {"create", "destroy", "term"}, m.kind = "term" => s = "server",
           poll[s] = "ret" => poll'[s] = "ret"
    PROVE  NoNew(s)
<1>1. chan[s] \in Seq(Messages)
  BY DEF TypeInv, ChannelTypes
<1>2. /\ Len(chan'[s]) = Len(chan[s]) + 1 /\ Len(chan[s]) \in Nat
      /\ chan'[s][Len(chan[s]) + 1] = m
      /\ \A i \in 1..Len(chan[s]) : chan'[s][i] = chan[s][i]
  BY <1>1
<1>3. \A k \in {"call", "answer"} : \A i \in Unseen(s, k)' :
        i + 0 \in Unseen(s, k) /\ chan'[s][i] = chan[s][i + 0]
  BY <1>2 DEF Unseen
<1>4. \A i \in 1..Len(chan'[s]) :
         \/ chan'[s][i].kind # "term" \/ s = "server"
         \/ \E j \in 1..Len(chan[s]) : chan[s][j].kind = "term"
  BY <1>2
<1> QED BY <1>3, <1>4 DEF NoNew

\* The head, which has been seen, is removed.
LEMMA TailNoNew ==
    ASSUME TypeInv, NEW s \in Sides, chan'[s] = Tail(chan[s]), poll[s] = "ret"
    PROVE  NoNew(s)
<1>1. chan[s] \in Seq(Messages) /\ chan[s] # <<>>
  BY DEF TypeInv, ChannelTypes
<1>2. /\ Len(chan'[s]) = Len(chan[s]) - 1 /\ Len(chan[s]) \in Nat
      /\ \A i \in 1..Len(chan'[s]) : chan'[s][i] = chan[s][i + 1]
  BY <1>1
<1>3. \A k \in {"call", "answer"} : \A i \in Unseen(s, k)' :
        i + 1 \in Unseen(s, k) /\ chan'[s][i] = chan[s][i + 1]
  BY <1>2 DEF Unseen
<1>4. \A i \in 1..Len(chan'[s]) :
         \/ chan'[s][i].kind # "term" \/ s = "server"
         \/ \E j \in 1..Len(chan[s]) : chan[s][j].kind = "term"
  BY <1>2
<1> QED BY <1>3, <1>4 DEF NoNew

\* The client moves, and no call is issued, fails or is answered.
Moves ==
    {<<"start", "bind">>, <<"start", "exited">>, <<"bind", "run">>, <<"run", "release">>,
     <<"release", "released">>, <<"wait", "lost">>, <<"bind", "lost">>}

\* A step that only moves the client and brings nothing new keeps the ledger.
LEMMA LedgerFrame ==
    ASSUME TypeInv, Ledger, NoNew("client"), NoNew("server"),
           UNCHANGED <<nacked, resp, id, calls, result, executed>>,
           pc'["client"] = pc["client"] \/ <<pc["client"], pc'["client"]>> \in Moves,
           respbuf' = respbuf \/ pc'["client"] \notin {"send", "wait"}
    PROVE  Ledger'
<1> USE DEF Ledger
<1>0. pc["client"] \in {"wait", "lost"} => pc'["client"] \in {"wait", "lost"}
  BY DEF Moves
<1>1. CallUnderWay'
  <2>1. PICK d \in {0, 1} : \A i \in Unseen("server", "call")' :
          i + d \in Unseen("server", "call") /\ chan'["server"][i] = chan["server"][i + d]
    BY DEF NoNew
  <2>2. Unseen("server", "call")' \subseteq Int
    BY DEF Unseen
  <2> QED BY <1>0, <2>1, <2>2 DEF CallUnderWay
<1>2. AnswerUnderWay'
  <2>1. PICK d \in {0, 1} : \A i \in Unseen("client", "answer")' :
          i + d \in Unseen("client", "answer") /\ chan'["client"][i] = chan["client"][i + d]
    BY DEF NoNew
  <2>2. Unseen("client", "answer")' \subseteq Int
    BY DEF Unseen
  <2> QED BY <1>0, <2>1, <2>2 DEF AnswerUnderWay
<1>3. NoTerm'
  BY DEF NoTerm, NoNew
<1>4. Released'
  BY <1>0 DEF Released
<1>5. LastCall'
  BY ProxyAssumption DEF LastCall, Moves, CallNumbers
<1>6. FutureCalls'
  BY DEF FutureCalls
<1> QED BY <1>1, <1>2, <1>3, <1>4, <1>5, <1>6

SeenStays == \A r \in Sides : poll[r] = "ret" => poll'[r] = "ret"
NothingNew == NoNew("client") /\ NoNew("server")

\* A step that posts nothing brings no call and no answer under way.
LEMMA QuietNoNew == ASSUME SeenStays, UNCHANGED chan PROVE NothingNew
BY SameNoNew DEF SeenStays, Sides, NothingNew

\* An announcement, a farewell or the client's termination request is no call and no answer.
LEMMA MessageNoNew ==
    ASSUME TypeInv, SeenStays, NEW s \in Sides, NEW m, Post(s, m),
           m.kind \in {"create", "destroy"} \/ (s = "client" /\ m.kind = "term")
    PROVE  NothingNew
<1>1. chan' = [chan EXCEPT ![Peer(s)] = Append(chan[Peer(s)], m)]
  BY DEF Post
<1>2. CASE s = "client"
  <2>1. chan'["server"] = Append(chan["server"], m) /\ chan'["client"] = chan["client"]
    BY <1>1, <1>2 DEF TypeInv, ChannelTypes, Sides, Peer
  <2> QED BY <1>2, <2>1, PostNoNew, SameNoNew DEF SeenStays, Sides, NothingNew
<1>3. CASE s = "server"
  <2>1. chan'["client"] = Append(chan["client"], m) /\ chan'["server"] = chan["server"]
    BY <1>1, <1>3 DEF TypeInv, ChannelTypes, Sides, Peer
  <2> QED BY <1>3, <2>1, PostNoNew, SameNoNew DEF SeenStays, Sides, NothingNew
<1> QED BY <1>2, <1>3 DEF Sides

\* rpmsg_destroy_ept posts a farewell or nothing.
LEMMA DestroyNoNew ==
    ASSUME TypeInv, SeenStays, NEW s \in Sides, Destroy(s)
    PROVE  NothingNew
<1>1. NsMsg("destroy").kind = "destroy"
  BY DEF NsMsg, Message
<1>2. CASE Post(s, NsMsg("destroy"))
  BY <1>1, <1>2, MessageNoNew
<1>3. CASE Quiet
  BY <1>3, QuietNoNew DEF Quiet
<1> QED BY <1>2, <1>3 DEF Destroy

\* The steps that neither issue, execute, answer nor fail a call: they bring no
\* call and no answer on its way, and move the client only before its first
\* call, after its last, or out of the program.
Bookkeeping ==
    /\ NothingNew
    /\ UNCHANGED <<nacked, resp, id, calls, result, executed>>
    /\ pc'["client"] = pc["client"] \/ <<pc["client"], pc'["client"]>> \in Moves
    /\ respbuf' = respbuf \/ pc'["client"] \notin {"send", "wait"}

OtherStep ==
    \/ \E s \in Sides : Interrupt(s) \/ PollStep(s)
    \/ ServerUnbind \/ ServeTerm \/ ServerStart \/ ServerPoll \/ ServerCheck \/ ServerExit
    \/ Signal \/ ClientUnbind \/ ClientStart \/ ClientBind \/ AwaitAnswer \/ SendTerm \/ Release
    \/ UNCHANGED vars

\* The steps that neither send a call, execute one nor take an answer leave the ledger as it is.
LEMMA OtherSteps == ASSUME TypeInv, Ledger, OtherStep PROVE Bookkeeping
<1> USE DEF hw, epts, rpc, service, bounds
<1>1. ASSUME NEW s \in Sides, TestFlag(s) PROVE Bookkeeping
  <2>1. SeenStays
    BY <1>1 DEF SeenStays, TestFlag, PollAt, At, TypeInv, ControlTypes, Sides
  <2>2. NothingNew
    BY <1>1, <2>1, QuietNoNew DEF TestFlag
  <2> QED BY <1>1, <2>2 DEF TestFlag, Bookkeeping, Moves, Goto, Return, At, Ledger, Released,
      Acked, TypeInv, ControlTypes, FlagTypes, Sides
<1>2. ASSUME NEW s \in Sides, Interrupt(s) PROVE Bookkeeping
  <2>1. SeenStays
    BY <1>2 DEF SeenStays, Interrupt, PollAt, At, TypeInv, ControlTypes, Sides
  <2>2. NothingNew
    BY <1>2, <2>1, QuietNoNew DEF Interrupt
  <2> QED BY <1>2, <2>2 DEF Interrupt, Bookkeeping, Moves, Goto, Return, At, Ledger, Released,
      Acked, TypeInv, ControlTypes, FlagTypes, Sides
<1>3. ASSUME NEW s \in Sides, Wake(s) PROVE Bookkeeping
  <2>1. SeenStays
    BY <1>3 DEF SeenStays, Wake, PollAt, At, TypeInv, ControlTypes, Sides
  <2>2. NothingNew
    BY <1>3, <2>1, QuietNoNew DEF Wake
  <2> QED BY <1>3, <2>2 DEF Wake, Bookkeeping, Moves, Goto, Return, At, Ledger, Released, Acked,
      TypeInv, ControlTypes, FlagTypes, Sides
<1>4. ASSUME NEW s \in Sides, Drain(s) PROVE Bookkeeping
  <2>1. SeenStays
    BY <1>4 DEF SeenStays, Drain, PollAt, At, TypeInv, ControlTypes, Sides
  <2>2. NothingNew
    BY <1>4, <2>1, QuietNoNew DEF Drain
  <2> QED BY <1>4, <2>2 DEF Drain, Bookkeeping, Moves, Goto, Return, At, Ledger, Released, Acked,
      TypeInv, ControlTypes, FlagTypes, Sides
<1>5. ASSUME NEW s \in Sides, NextBuffer(s) PROVE Bookkeeping
  <2>1. NoNew(s)
    BY <1>5, TailNoNew DEF NextBuffer, TypeInv, ChannelTypes
  <2>2. \A r \in Sides \ {s} : NoNew(r)
    BY <1>5, SameNoNew DEF NextBuffer, PollAt, TypeInv, ChannelTypes, ControlTypes
  <2>3. NothingNew
    BY <2>1, <2>2 DEF NothingNew, Sides
  <2> QED BY <1>5, <2>3 DEF NextBuffer, Bookkeeping
<1>6. ASSUME NEW s \in Sides, NsCreate(s) PROVE Bookkeeping
  <2>1. SeenStays
    BY <1>6 DEF SeenStays, NsCreate, Received, PollAt, At, TypeInv, ControlTypes, Sides
  <2>2. NothingNew
    BY <1>6, <2>1, QuietNoNew DEF NsCreate
  <2> QED BY <1>6, <2>2 DEF NsCreate, Bookkeeping, Moves, Goto, Return, At, Ledger, Released,
      Acked, TypeInv, ControlTypes, FlagTypes, Sides, Received
<1>7. ASSUME NEW s \in Sides, Dropped(s) PROVE Bookkeeping
  <2>1. SeenStays
    BY <1>7 DEF SeenStays, Dropped, PollAt, At, TypeInv, ControlTypes, Sides
  <2>2. NothingNew
    BY <1>7, <2>1, QuietNoNew DEF Dropped
  <2> QED BY <1>7, <2>2 DEF Dropped, Bookkeeping, Moves, Goto, Return, At, Ledger, Released,
      Acked, TypeInv, ControlTypes, FlagTypes, Sides
<1>8. ASSUME ServerUnbind PROVE Bookkeeping
  <2>1. SeenStays
    BY <1>8 DEF SeenStays, ServerUnbind, Received, PollAt, At, TypeInv, ControlTypes, Sides
  <2>2. NothingNew
    BY <1>8, <2>1, DestroyNoNew, QuietNoNew DEF ServerUnbind, Quiet, Sides
  <2> QED BY <1>8, <2>2 DEF ServerUnbind, Bookkeeping, Moves, Goto, Return, At, Ledger, Released,
      Acked, TypeInv, ControlTypes, FlagTypes, Sides, Received
<1>9. ASSUME ServeTerm PROVE Bookkeeping
  <2>1. SeenStays
    BY <1>9 DEF SeenStays, ServeTerm, Received, PollAt, At, TypeInv, ControlTypes, Sides
  <2>2. NothingNew
    BY <1>9, <2>1, QuietNoNew DEF ServeTerm
  <2> QED BY <1>9, <2>2 DEF ServeTerm, Bookkeeping, Moves, Goto, Return, At, Ledger, Released,
      Acked, TypeInv, ControlTypes, FlagTypes, Sides, Received
<1>10. ASSUME ServerStart PROVE Bookkeeping
  <2>1. SeenStays
    BY <1>10 DEF SeenStays, ServerStart, CreateEpt, PollAt, At, TypeInv, ControlTypes, Sides
  <2>2. NothingNew
    <3>1. NsMsg("create").kind = "create" /\ Message("term", "none", 0).kind = "term"
      BY DEF NsMsg, Message
    <3> QED BY <1>10, <2>1, <3>1, MessageNoNew, QuietNoNew DEF ServerStart, CreateEpt, NoBuffer,
        Quiet, Sides
  <2> QED BY <1>10, <2>2 DEF ServerStart, CreateEpt, Bookkeeping, Moves, Goto, Return, At, Ledger,
      Released, Acked, TypeInv, ControlTypes, FlagTypes, Sides
<1>11. ASSUME ServerPoll PROVE Bookkeeping
  <2>1. SeenStays
    BY <1>11 DEF SeenStays, ServerPoll, PollAt, At, TypeInv, ControlTypes, Sides
  <2>2. NothingNew
    BY <1>11, <2>1, QuietNoNew DEF ServerPoll
  <2> QED BY <1>11, <2>2 DEF ServerPoll, Bookkeeping, Moves, Goto, Return, At, Ledger, Released,
      Acked, TypeInv, ControlTypes, FlagTypes, Sides
<1>12. ASSUME ServerCheck PROVE Bookkeeping
  <2>1. SeenStays
    BY <1>12 DEF SeenStays, ServerCheck, PollAt, At, TypeInv, ControlTypes, Sides
  <2>2. NothingNew
    BY <1>12, <2>1, QuietNoNew DEF ServerCheck
  <2> QED BY <1>12, <2>2 DEF ServerCheck, Bookkeeping, Moves, Goto, Return, At, Ledger, Released,
      Acked, TypeInv, ControlTypes, FlagTypes, Sides
<1>13. ASSUME ServerExit PROVE Bookkeeping
  <2>1. SeenStays
    BY <1>13 DEF SeenStays, ServerExit, terminate_rpc_app, PollAt, At, TypeInv, ControlTypes, Sides
  <2>2. NothingNew
    BY <1>13, <2>1, DestroyNoNew, QuietNoNew DEF ServerExit, terminate_rpc_app, Quiet, Sides
  <2> QED BY <1>13, <2>2 DEF ServerExit, terminate_rpc_app, Bookkeeping, Moves, Goto, Return, At,
      Ledger, Released, Acked, TypeInv, ControlTypes, FlagTypes, Sides
<1>14. ASSUME Signal PROVE Bookkeeping
  <2>1. SeenStays
    BY <1>14 DEF SeenStays, Signal, terminate_rpc_app, PollAt, At, TypeInv, ControlTypes, Sides
  <2>2. NothingNew
    BY <1>14, <2>1, DestroyNoNew, QuietNoNew DEF Signal, terminate_rpc_app, Quiet, Sides
  <2> QED BY <1>14, <2>2 DEF Signal, terminate_rpc_app, Bookkeeping, Moves, Goto, Return, At,
      Ledger, Released, Acked, TypeInv, ControlTypes, FlagTypes, Sides
<1>15. ASSUME ClientUnbind PROVE Bookkeeping
  <2>1. SeenStays
    BY <1>15 DEF SeenStays, ClientUnbind, Received, PollAt, At, TypeInv, ControlTypes, Sides
  <2>2. NothingNew
    BY <1>15, <2>1, QuietNoNew DEF ClientUnbind
  <2> QED BY <1>15, <2>2 DEF ClientUnbind, Bookkeeping, Moves, Goto, Return, At, Ledger, Released,
      Acked, TypeInv, ControlTypes, FlagTypes, Sides, Received
<1>16. ASSUME ClientStart PROVE Bookkeeping
  <2>1. SeenStays
    BY <1>16 DEF SeenStays, ClientStart, CreateEpt, PollAt, At, TypeInv, ControlTypes, Sides
  <2>2. NothingNew
    <3>1. NsMsg("create").kind = "create" /\ Message("term", "none", 0).kind = "term"
      BY DEF NsMsg, Message
    <3> QED BY <1>16, <2>1, <3>1, MessageNoNew, QuietNoNew DEF ClientStart, CreateEpt, NoBuffer,
        Quiet, Sides
  <2> QED BY <1>16, <2>2 DEF ClientStart, CreateEpt, Bookkeeping, Moves, Goto, Return, At, Ledger,
      Released, Acked, TypeInv, ControlTypes, FlagTypes, Sides
<1>17. ASSUME ClientBind PROVE Bookkeeping
  <2>1. SeenStays
    BY <1>17 DEF SeenStays, ClientBind, PollAt, At, TypeInv, ControlTypes, Sides
  <2>2. NothingNew
    BY <1>17, <2>1, QuietNoNew DEF ClientBind
  <2> QED BY <1>17, <2>2 DEF ClientBind, Bookkeeping, Moves, Goto, Return, At, Ledger, Released,
      Acked, TypeInv, ControlTypes, FlagTypes, Sides
<1>18. ASSUME AwaitAnswer PROVE Bookkeeping
  <2>1. SeenStays
    BY <1>18 DEF SeenStays, AwaitAnswer, PollAt, At, TypeInv, ControlTypes, Sides
  <2>2. NothingNew
    BY <1>18, <2>1, QuietNoNew DEF AwaitAnswer
  <2> QED BY <1>18, <2>2 DEF AwaitAnswer, Bookkeeping, Moves, Goto, Return, At, Ledger, Released,
      Acked, TypeInv, ControlTypes, FlagTypes, Sides
<1>19. ASSUME SendTerm PROVE Bookkeeping
  <2>1. SeenStays
    BY <1>19 DEF SeenStays, SendTerm, PollAt, At, TypeInv, ControlTypes, Sides
  <2>2. NothingNew
    <3>1. NsMsg("create").kind = "create" /\ Message("term", "none", 0).kind = "term"
      BY DEF NsMsg, Message
    <3> QED BY <1>19, <2>1, <3>1, MessageNoNew, QuietNoNew DEF SendTerm, NoBuffer, Quiet, Sides
  <2> QED BY <1>19, <2>2 DEF SendTerm, Bookkeeping, Moves, Goto, Return, At, Ledger, Released,
      Acked, TypeInv, ControlTypes, FlagTypes, Sides
<1>20. ASSUME Release PROVE Bookkeeping
  <2>1. SeenStays
    BY <1>20 DEF SeenStays, Release, PollAt, At, TypeInv, ControlTypes, Sides
  <2>2. NothingNew
    BY <1>20, <2>1, DestroyNoNew, QuietNoNew DEF Release, Quiet, Sides
  <2> QED BY <1>20, <2>2 DEF Release, Bookkeeping, Moves, Goto, Return, At, Ledger, Released,
      Acked, TypeInv, ControlTypes, FlagTypes, Sides
<1>99. ASSUME UNCHANGED vars PROVE Bookkeeping
  <2>1. NothingNew
    BY <1>99, QuietNoNew DEF vars, SeenStays
  <2> QED BY <1>99, <2>1 DEF vars, Bookkeeping
<1> QED BY <1>1, <1>2, <1>3, <1>4, <1>5, <1>6, <1>7, <1>8, <1>9, <1>10, <1>11, <1>12, <1>13,
    <1>14, <1>15, <1>16, <1>17, <1>18, <1>19, <1>20, <1>99 DEF OtherStep, PollStep
(***************************************************************************)
(* The five steps of a call.                                               *)
(***************************************************************************)
\* A step that leaves the channels alone brings nothing on its way.
LEMMA SameUnseen ==
    ASSUME SeenStays, UNCHANGED chan, NEW s \in Sides, NEW k
    PROVE  Unseen(s, k)' \subseteq Unseen(s, k)
BY DEF Unseen, SeenStays

\* A new call begins: nothing of an earlier one is on its way.
LEMMA CallKeeps ==
    ASSUME TypeInv, Ledger, NEW i \in Syscalls, Call(i)
    PROVE  Ledger' /\ Service!Issue
<1> USE DEF hw, epts, rpc, service, bounds
<1>1. /\ pc["client"] = "run" /\ pc'["client"] = "send" /\ UNCHANGED <<poll, chan>>
      /\ calls < MaxCalls /\ calls' = calls + 1 /\ respbuf' = calls + 1 /\ nacked'
      /\ UNCHANGED <<executed, result>>
  BY DEF Call, At, Goto, TypeInv, ControlTypes, Sides
<1>2. calls' \in CallNumbers /\ calls \in Nat
  BY <1>1, ProxyAssumption DEF TypeInv, DataTypes, CallNumbers
<1>3. Unseen("server", "call") = {} /\ Unseen("client", "answer") = {}
  BY <1>1 DEF Ledger, CallUnderWay, AnswerUnderWay
<1>4. Unseen("server", "call")' = {} /\ Unseen("client", "answer")' = {}
  BY <1>1, <1>3, SameUnseen DEF SeenStays, Sides
<1>5. executed[calls'] = 0 /\ result[calls'] = NoResult
  BY <1>1, <1>2 DEF Ledger, FutureCalls
<1>6. CallUnderWay' /\ AnswerUnderWay'
  BY <1>4 DEF CallUnderWay, AnswerUnderWay
<1>7. NoTerm' /\ Released'
  BY <1>1 DEF Ledger, NoTerm, Released
<1>8. LastCall'
  BY <1>1, <1>2, <1>5 DEF LastCall
<1>9. FutureCalls'
  BY <1>1, <1>2 DEF Ledger, FutureCalls, CallNumbers
<1>10. Service!Issue
  BY <1>1, <1>2, <1>5 DEF Service!Issue
<1> QED BY <1>6, <1>7, <1>8, <1>9, <1>10 DEF Ledger

\* A call goes on its way, or fails without having been executed.
LEMMA SendCallKeeps ==
    ASSUME TypeInv, Ledger, SendCall
    PROVE  Ledger' /\ (Service!Fail \/ UNCHANGED Service!svcVars)
<1> USE DEF hw, epts, rpc, service, bounds
<1>1. /\ pc["client"] = "send" /\ poll' = poll
      /\ UNCHANGED <<nacked, respbuf, resp, id, calls, executed>>
  BY DEF SendCall, At
<1>2. /\ calls \in CallNumbers /\ respbuf = calls /\ executed[calls] = 0 /\ nacked
      /\ result[calls] = NoResult
  BY <1>1 DEF Ledger, LastCall, Released, TypeInv, FlagTypes
<1>3. Unseen("server", "call") = {} /\ Unseen("client", "answer") = {}
  BY <1>1 DEF Ledger, CallUnderWay, AnswerUnderWay
<1>4. CASE Post("client", Message("call", id, calls)) /\ Goto("client", "wait") /\ UNCHANGED result
  <2> DEFINE q == chan["server"]
             m == Message("call", id, calls)
  <2>1. pc'["client"] = "wait" /\ chan'["server"] = Append(q, m) /\ chan'["client"] = chan["client"]
    BY <1>4 DEF Post, Goto, Peer, Sides, TypeInv, ControlTypes, ChannelTypes
  <2>2. m.kind = "call" /\ m.id = id /\ m.val = calls /\ q \in Seq(Messages)
    BY DEF Message, TypeInv, ChannelTypes, Sides
  <2> HIDE DEF m, q
  <2>3. /\ Len(Append(q, m)) = Len(q) + 1 /\ Len(q) \in Nat
        /\ Append(q, m)[Len(q) + 1] = m
        /\ \A i \in 1..Len(q) : Append(q, m)[i] = q[i]
    BY <2>2
  <2>4. Unseen("server", "call")' \subseteq {Len(q) + 1}
    BY <1>1, <1>3, <2>1, <2>3 DEF Unseen, q
  <2>5. Unseen("client", "answer")' = {}
    BY <1>1, <1>3, <2>1 DEF Unseen
  <2>6. CallUnderWay'
    BY <1>1, <1>2, <2>1, <2>2, <2>3, <2>4 DEF CallUnderWay
  <2>7. AnswerUnderWay' /\ NoTerm' /\ Released'
    BY <1>1, <1>2, <2>1, <2>5 DEF AnswerUnderWay, Ledger, NoTerm, Released
  <2>8. LastCall' /\ FutureCalls'
    BY <1>1, <1>2, <1>4, <2>1 DEF LastCall, Ledger, FutureCalls
  <2>9. UNCHANGED Service!svcVars
    BY <1>1, <1>4, <2>1 DEF Service!svcVars
  <2> QED BY <2>6, <2>7, <2>8, <2>9 DEF Ledger
<1>5. CASE Return(EINVAL) /\ Quiet
  <2>1. /\ pc'["client"] = "run" /\ UNCHANGED chan
        /\ result' = [result EXCEPT ![calls] = EINVAL]
    BY <1>5 DEF Return, Goto, Quiet, Sides, TypeInv, ControlTypes
  <2>2. Unseen("server", "call")' = {} /\ Unseen("client", "answer")' = {}
    BY <1>1, <1>3, <2>1, SameUnseen DEF SeenStays, Sides
  <2>3. CallUnderWay' /\ AnswerUnderWay' /\ NoTerm' /\ Released' /\ LastCall'
    BY <1>1, <1>2, <2>1, <2>2 DEF CallUnderWay, AnswerUnderWay, Ledger, NoTerm, Released, LastCall
  <2>4. FutureCalls'
    BY <1>1, <1>2, <2>1 DEF Ledger, FutureCalls, CallNumbers, TypeInv, DataTypes
  <2>5. Service!Fail
    BY <1>1, <1>2, <2>1 DEF Service!Fail, CallNumbers
  <2> QED BY <2>3, <2>4, <2>5 DEF Ledger
<1> QED BY <1>4, <1>5 DEF SendCall, NoBuffer

\* The service executes the call on its way, for the first time, and puts the
\* answer on its way or, without a buffer, gives it up.
LEMMA ServeCallKeeps ==
    ASSUME TypeInv, Ledger, ServeCall
    PROVE  Ledger' /\ Service!Execute
<1> USE DEF hw, epts, rpc, service, bounds
<1> DEFINE m == Head(chan["server"])
<1>1. /\ poll["server"] = "cb" /\ m.kind = "call" /\ poll' = [poll EXCEPT !["server"] = "ret"]
      /\ executed' = [executed EXCEPT ![m.val] = @ + 1]
      /\ UNCHANGED <<pc, nacked, respbuf, resp, id, calls, result>>
  BY DEF ServeCall, Received, Answer, PollAt
<1>2. m = chan["server"][1] /\ 1 \in Unseen("server", "call")
  BY <1>1, HeadTypes DEF Unseen, Sides
<1>3. /\ m.val = calls /\ m.id = id /\ calls \in CallNumbers /\ executed[calls] = 0
      /\ pc["client"] \in {"wait", "lost"} /\ Unseen("server", "call") = {1}
  BY <1>2 DEF Ledger, CallUnderWay
<1>4. executed' = [executed EXCEPT ![calls] = 1] /\ executed'[calls] = 1
  <2>1. executed' = [executed EXCEPT ![calls] = executed[calls] + 1]
    BY <1>1, <1>3
  <2> QED BY <2>1, <1>3 DEF TypeInv, DataTypes
<1>5. Unseen("client", "answer") = {} /\ nacked
  BY <1>3 DEF Ledger, AnswerUnderWay, Released, TypeInv, FlagTypes
<1>6. poll'["server"] = "ret" /\ poll'["client"] = poll["client"]
  BY <1>1 DEF TypeInv, ControlTypes, Sides
<1>7. LastCall'
  BY <1>1, <1>3 DEF Ledger, LastCall
<1>8. FutureCalls'
  BY <1>1, <1>3, <1>4 DEF Ledger, FutureCalls, TypeInv, DataTypes, CallNumbers
<1>9. Released'
  BY <1>1, <1>5 DEF Released
<1>10. Service!Execute
  <2>1. calls > 0 /\ result[calls] = NoResult
    BY <1>3 DEF Ledger, LastCall, CallNumbers
  <2>2. UNCHANGED <<pc, calls, result>>
    BY <1>1
  <2> QED BY <1>3, <1>4, <2>1, <2>2 DEF Service!Execute
<1>11. chan'["server"] = chan["server"]
  BY DEF ServeCall, Answer, Post, NoBuffer, Quiet, Peer, TypeInv, ChannelTypes, Sides
<1>12. Unseen("server", "call")' = {}
  BY <1>3, <1>6, <1>11 DEF Unseen
<1>13. CallUnderWay'
  BY <1>12 DEF CallUnderWay
<1>14. AnswerUnderWay' /\ NoTerm'
  <2>1. CASE Post("server", Message("answer", m.id, m.val))
    <3> DEFINE q == chan["client"]
               a == Message("answer", m.id, m.val)
    <3>1. chan'["client"] = Append(q, a) /\ q \in Seq(Messages)
      BY <2>1 DEF Post, Peer, Sides, TypeInv, ChannelTypes
    <3>2. a.kind = "answer" /\ a.id = id /\ a.val = calls
      BY <1>3 DEF Message
    <3> HIDE DEF a, q
    <3>3. /\ Len(Append(q, a)) = Len(q) + 1 /\ Len(q) \in Nat
          /\ Append(q, a)[Len(q) + 1] = a
          /\ \A i \in 1..Len(q) : Append(q, a)[i] = q[i]
      BY <3>1
    <3>4. Unseen("client", "answer")' \subseteq {Len(q) + 1}
      BY <1>5, <1>6, <3>1, <3>3 DEF Unseen, q
    <3>5. AnswerUnderWay'
      BY <1>1, <1>3, <1>4, <1>5, <3>1, <3>2, <3>3, <3>4 DEF AnswerUnderWay
    <3>6. NoTerm'
      BY <3>1, <3>2, <3>3 DEF Ledger, NoTerm, q
    <3> QED BY <3>5, <3>6
  <2>2. CASE Quiet
    <3>1. Unseen("client", "answer")' = {}
      BY <2>2, <1>5, <1>6 DEF Unseen, Quiet
    <3> QED BY <3>1, <2>2 DEF AnswerUnderWay, Ledger, NoTerm, Quiet
  <2> QED BY <2>1, <2>2 DEF ServeCall, Answer, NoBuffer
<1> QED BY <1>7, <1>8, <1>9, <1>10, <1>13, <1>14 DEF Ledger

\* The answer on its way is put into the buffer of the call that waits for it.
LEMMA RpcCallbackKeeps ==
    ASSUME TypeInv, Ledger, RpcCallback
    PROVE  Ledger' /\ UNCHANGED Service!svcVars
<1> USE DEF hw, epts, rpc, service, bounds
<1> DEFINE m == Head(chan["client"])
<1>1. m = chan["client"][1] /\ 1 \in 1..Len(chan["client"])
  BY HeadTypes DEF RpcCallback, Received, Sides
<1>2. m.kind = "answer"
  BY <1>1 DEF RpcCallback, Received, Ledger, NoTerm
<1>3. 1 \in Unseen("client", "answer")
  BY <1>1, <1>2 DEF Unseen, RpcCallback, Received
<1>4. /\ m.val = calls /\ m.id = id /\ calls \in CallNumbers /\ executed[calls] = 1
      /\ pc["client"] \in {"wait", "lost"} /\ Unseen("client", "answer") = {1}
  BY <1>1, <1>3 DEF Ledger, AnswerUnderWay
<1>5. pc["client"] = "wait" /\ respbuf = calls /\ respbuf # 0
  BY <1>4 DEF RpcCallback, Received, TypeInv, ControlTypes, Ledger, LastCall, CallNumbers
<1>6. /\ resp' = [id |-> id, val |-> calls] /\ UNCHANGED chan
      /\ UNCHANGED <<pc, respbuf, id, calls, result, executed>>
      /\ poll' = [poll EXCEPT !["client"] = "ret"]
  BY <1>2, <1>4, <1>5 DEF RpcCallback, Quiet, PollAt
<1>7. poll'["client"] = "ret" /\ SeenStays
  BY <1>6 DEF TypeInv, ControlTypes, Sides, SeenStays
<1>8. Unseen("client", "answer")' = {}
  BY <1>4, <1>6, <1>7 DEF Unseen
<1>9. Unseen("server", "call")' = {}
  <2>1. Unseen("server", "call") = {}
    BY <1>4 DEF Ledger, CallUnderWay
  <2> QED BY <2>1, <1>6, <1>7, SameUnseen DEF Sides
<1>10. CallUnderWay' /\ AnswerUnderWay'
  BY <1>8, <1>9 DEF CallUnderWay, AnswerUnderWay
<1>11. Released'
  BY <1>4, <1>5, <1>6 DEF Released
<1>12. NoTerm' /\ LastCall' /\ FutureCalls'
  BY <1>6 DEF Ledger, NoTerm, LastCall, FutureCalls
<1>13. UNCHANGED Service!svcVars
  BY <1>6 DEF Service!svcVars
<1> QED BY <1>10, <1>11, <1>12, <1>13 DEF Ledger

\* The call returns what its own execution answered.
LEMMA TakeAnswerKeeps ==
    ASSUME TypeInv, Ledger, TakeAnswer
    PROVE  Ledger' /\ Service!Answer
<1> USE DEF hw, epts, rpc, service, bounds
<1>1. /\ pc["client"] = "wait" /\ ~nacked /\ pc'["client"] = "run" /\ nacked'
      /\ result' = [result EXCEPT ![calls] = IF resp.id = id THEN resp.val ELSE EINVAL]
      /\ UNCHANGED <<poll, chan, respbuf, resp, id, calls, executed>>
  BY DEF TakeAnswer, At, Acked, Return, Goto, TypeInv, ControlTypes, Sides
<1>2. /\ calls \in CallNumbers /\ executed[calls] = 1 /\ result' = [result EXCEPT ![calls] = calls]
      /\ result[calls] = NoResult
  BY <1>1 DEF Ledger, Released, LastCall
<1>3. Unseen("server", "call") = {} /\ Unseen("client", "answer") = {}
  BY <1>1, <1>2 DEF Ledger, CallUnderWay, AnswerUnderWay
<1>4. Unseen("server", "call")' = {} /\ Unseen("client", "answer")' = {}
  BY <1>1, <1>3, SameUnseen DEF SeenStays, Sides
<1>5. CallUnderWay' /\ AnswerUnderWay' /\ NoTerm' /\ Released' /\ LastCall'
  BY <1>1, <1>4 DEF CallUnderWay, AnswerUnderWay, Ledger, NoTerm, Released, LastCall
<1>6. FutureCalls'
  BY <1>1, <1>2 DEF Ledger, FutureCalls, CallNumbers, TypeInv, DataTypes
<1>7. Service!Answer
  <2>1. calls > 0 /\ UNCHANGED <<calls, executed>>
    BY <1>1, <1>2 DEF CallNumbers
  <2>2. pc["client"] = "wait" /\ pc'["client"] = "run"
    BY <1>1
  <2> QED BY <1>2, <2>1, <2>2 DEF Service!Answer
<1> QED BY <1>5, <1>6, <1>7 DEF Ledger

(***************************************************************************)
(* The refinement.                                                         *)
(***************************************************************************)
\* Initially no call has been made, in the implementation and in the service.
LEMMA ServiceInit == Init => Ledger /\ Service!Init
<1> SUFFICES ASSUME Init PROVE Ledger /\ Service!Init
  OBVIOUS
<1>1. chan["client"] = <<>> /\ chan["server"] = <<>> /\ pc["client"] = "start" /\ calls = 0
  BY DEF Init, Sides
<1>2. Unseen("server", "call") = {} /\ Unseen("client", "answer") = {}
  BY <1>1 DEF Unseen
<1>3. CallUnderWay /\ AnswerUnderWay /\ NoTerm
  BY <1>1, <1>2 DEF CallUnderWay, AnswerUnderWay, NoTerm
<1>4. Released /\ LastCall /\ FutureCalls
  BY <1>1 DEF Init, Released, LastCall, FutureCalls, CallNumbers
<1>5. Service!Init
  BY <1>1 DEF Init, Service!Init, Service!CallNumbers, CallNumbers
<1> QED BY <1>3, <1>4, <1>5 DEF Ledger

\* Every step keeps the ledger and is a step of the service or none.
LEMMA ServiceStep ==
    ASSUME TypeInv, Ledger, [Next]_vars
    PROVE  Ledger' /\ [Service!Next]_(Service!svcVars)
<1>1. CASE \E i \in Syscalls : Call(i)
  BY <1>1, CallKeeps DEF Service!Next
<1>2. CASE SendCall
  BY <1>2, SendCallKeeps DEF Service!Next
<1>3. CASE ServeCall
  BY <1>3, ServeCallKeeps DEF Service!Next
<1>4. CASE RpcCallback
  BY <1>4, RpcCallbackKeeps
<1>5. CASE TakeAnswer
  BY <1>5, TakeAnswerKeeps DEF Service!Next
<1>6. CASE OtherStep
  <2>1. Bookkeeping
    BY <1>6, OtherSteps
  <2>2. Ledger'
    BY <2>1, LedgerFrame DEF Bookkeeping, NothingNew
  <2>3. UNCHANGED Service!svcVars
    <3>1. UNCHANGED <<calls, result, executed>>
      BY <2>1 DEF Bookkeeping
    <3>2. <<pc["client"], pc'["client"]>> = <<"bind", "lost">> => calls = 0
      BY DEF Ledger, LastCall
    <3>3. \/ pc["client"] \in {"send", "wait", "lost"} <=> pc'["client"] \in {"send", "wait", "lost"}
          \/ calls = 0
      BY <2>1, <3>2 DEF Bookkeeping, Moves
    <3> QED BY <3>1, <3>3 DEF Service!svcVars
  <2> QED BY <2>2, <2>3
<1> QED BY <1>1, <1>2, <1>3, <1>4, <1>5, <1>6 DEF Next, Server, Client, OtherStep, Sides

\* rpmsg_rpc_send and the service of rpc_demod.c keep the promise of RpcService
\* for every number of calls, lost buffers and signals: an answer is the call's
\* own, no call is executed twice, and a call that failed was not executed.
THEOREM ProxyImplementsService == Spec => ImplementsService
<1>1. Spec => [](TypeInv /\ Ledger)
  BY TypeInit, TypeStep, ServiceInit, ServiceStep, PTL DEF Spec
<1> QED BY <1>1, ServiceInit, ServiceStep, PTL DEF Spec, ImplementsService, Service!Spec

===============================================================================
