----------------------------- MODULE AdapterRpc -----------------------------
(***************************************************************************)
(* Commands to an out-of-process adapter: send_command() and _on_response() *)
(* of AdapterProxy (infrastructure/adapter_proxy.py), the broker, and       *)
(* _on_message() of ProcessAdapterBase (adapters/process_base.py).          *)
(*                                                                         *)
(* A correlation id stands for its request: uuid4 ids are taken as unique.  *)
(* A message published with QoS 1 is sent again after a reconnect when the  *)
(* broker had not acknowledged it; the latest one is taken to be the one    *)
(* not acknowledged.  Sessions are clean: a reconnect drops what the broker *)
(* held for the client, and its subscriptions; the adapter subscribes again *)
(* in _on_connect(), the server's client does not.                          *)
(***************************************************************************)
EXTENDS Naturals, Sequences

CONSTANTS
  Clients,        \* threads of the server that send commands
  Requests,       \* correlation ids
  MaxLinkFaults,  \* bound: reconnects and crashes
  NoRequest, NoAnswer

Outcomes == {"ok", "error"}
Response == Requests \X Outcomes

ASSUME AdapterRpcAssumption ==
  /\ MaxLinkFaults \in Nat
  /\ NoRequest \notin Requests
  /\ NoAnswer \notin Outcomes \union {"timeout"}

VARIABLES
  issued,       \* history: requests made
  corr, stage,  \* per client: its correlation id and where in send_command() it is
  pending,      \* _pending: ids with a waiting future
  future,       \* result set on each request's future
  returned,     \* what send_command() returned or raised
  network,      \* the server's MQTT thread lives
  looked,       \* _on_response(): the response in hand and whether a future was found
  deaf,         \* the server's client reconnected: its subscriptions are gone
  commands, responses,      \* on their way through the broker
  lastCommand, lastResponse,\* published, perhaps not acknowledged
  adapter,      \* the adapter process: "up", "stopping", "down"
  performed,    \* history: outcomes of each request at the adapter
  linkFaults

proxyVars == <<issued, corr, stage, pending, future, returned>>
networkVars == <<network, looked, deaf>>
wireVars == <<commands, responses, lastCommand, lastResponse>>
adapterRpcVars ==
  <<proxyVars, networkVars, wireVars, adapter, performed, linkFaults>>

Nothing == <<NoRequest, "none", FALSE>>

AdapterRpcTypeOK ==
  /\ issued \subseteq Requests /\ pending \subseteq issued
  /\ corr \in [Clients -> issued \union {NoRequest}]
  /\ stage \in [Clients -> {"idle", "publish", "wait", "leave"}]
  /\ future \in [Requests -> Outcomes \union {NoAnswer}]
  /\ returned \in [Requests -> Outcomes \union {NoAnswer, "timeout"}]
  /\ network \in BOOLEAN /\ deaf \in BOOLEAN
  /\ looked \in {Nothing} \union (issued \X Outcomes \X BOOLEAN)
  /\ commands \in Seq(issued) /\ lastCommand \in issued \union {NoRequest}
  /\ responses \in Seq(issued \X Outcomes)
  /\ lastResponse \in (issued \X Outcomes) \union {<<NoRequest, "none">>}
  /\ adapter \in {"up", "stopping", "down"}
  /\ performed \in [Requests -> SUBSET Outcomes]
  /\ linkFaults \in 0..MaxLinkFaults

AdapterRpcInit ==
  /\ issued = {} /\ pending = {}
  /\ corr = [c \in Clients |-> NoRequest]
  /\ stage = [c \in Clients |-> "idle"]
  /\ future = [r \in Requests |-> NoAnswer]
  /\ returned = [r \in Requests |-> NoAnswer]
  /\ network = TRUE /\ deaf = FALSE /\ looked = Nothing
  /\ commands = <<>> /\ responses = <<>>
  /\ lastCommand = NoRequest /\ lastResponse = <<NoRequest, "none">>
  /\ adapter \in {"up", "down"}
  /\ performed = [r \in Requests |-> {}]
  /\ linkFaults = 0

----------------------------------------------------------------------------
(* send_command()                                                          *)

\* The future is registered under _pending_lock.
Register(c, r) ==
  /\ stage[c] = "idle" /\ r \notin issued
  /\ issued' = issued \union {r}
  /\ corr' = [corr EXCEPT ![c] = r]
  /\ stage' = [stage EXCEPT ![c] = "publish"]
  /\ pending' = pending \union {r}
  /\ UNCHANGED <<future, returned, networkVars, wireVars, adapter, performed,
                 linkFaults>>

\* A command reaches the session of an adapter that is connected.
Routed(r) == IF adapter = "down" THEN commands ELSE Append(commands, r)

PublishCommand(c) ==
  /\ stage[c] = "publish"
  /\ stage' = [stage EXCEPT ![c] = "wait"]
  /\ commands' = Routed(corr[c])
  /\ lastCommand' = corr[c]
  /\ UNCHANGED <<issued, corr, pending, future, returned, networkVars, responses,
                 lastResponse, adapter, performed, linkFaults>>

EndWait(c, result) ==
  /\ returned' = [returned EXCEPT ![corr[c]] = result]
  /\ stage' = [stage EXCEPT ![c] = "leave"]
  /\ UNCHANGED <<issued, corr, pending, future, networkVars, wireVars, adapter,
                 performed, linkFaults>>

\* future.result() returns, or raises TimeoutError after COMMAND_TIMEOUT_S.
ReturnResult(c) ==
  stage[c] = "wait" /\ future[corr[c]] # NoAnswer /\ EndWait(c, future[corr[c]])
TimeOut(c) ==
  stage[c] = "wait" /\ future[corr[c]] = NoAnswer /\ EndWait(c, "timeout")

\* Mutant of Leave: a timed-out call leaves its future registered.
LeaveOnResult(c) ==
  /\ stage[c] = "leave"
  /\ pending' = IF returned[corr[c]] = "timeout" THEN pending ELSE pending \ {corr[c]}
  /\ corr' = [corr EXCEPT ![c] = NoRequest]
  /\ stage' = [stage EXCEPT ![c] = "idle"]
  /\ UNCHANGED <<issued, future, returned, networkVars, wireVars, adapter, performed,
                 linkFaults>>

\* The finally clause.
Leave(c) ==
  /\ stage[c] = "leave"
  /\ pending' = pending \ {corr[c]}
  /\ corr' = [corr EXCEPT ![c] = NoRequest]
  /\ stage' = [stage EXCEPT ![c] = "idle"]
  /\ UNCHANGED <<issued, future, returned, networkVars, wireVars, adapter, performed,
                 linkFaults>>

----------------------------------------------------------------------------
(* _on_response(), on the server's MQTT thread                             *)

\* Mutant of LookUp: a response answers whoever is waiting.
LookUpAnyone ==
  /\ network /\ looked = Nothing /\ responses # <<>>
  /\ \E r \in pending : looked' = <<r, Head(responses)[2], TRUE>>
  /\ responses' = Tail(responses)
  /\ UNCHANGED <<proxyVars, network, deaf, commands, lastCommand, lastResponse, adapter,
                 performed, linkFaults>>

\* The future is looked up under _pending_lock ...
LookUp ==
  /\ network /\ looked = Nothing /\ responses # <<>>
  /\ looked' = <<Head(responses)[1], Head(responses)[2], Head(responses)[1] \in pending>>
  /\ responses' = Tail(responses)
  /\ UNCHANGED <<proxyVars, network, deaf, commands, lastCommand, lastResponse, adapter,
                 performed, linkFaults>>

\* Mutant of Resolve: set_result() on a future that is done raises
\* InvalidStateError, which ends the MQTT thread.
ResolveTwice ==
  /\ network /\ looked # Nothing
  /\ looked' = Nothing
  /\ network' = ~(looked[3] /\ future[looked[1]] # NoAnswer)
  /\ future' = IF looked[3] THEN [future EXCEPT ![looked[1]] = looked[2]] ELSE future
  /\ UNCHANGED <<issued, corr, stage, pending, returned, deaf, wireVars, adapter,
                 performed, linkFaults>>

\* ... and resolved outside it, unless it is done already.
Resolve ==
  /\ network /\ looked # Nothing
  /\ looked' = Nothing
  /\ future' = IF looked[3] /\ future[looked[1]] = NoAnswer
                 THEN [future EXCEPT ![looked[1]] = looked[2]] ELSE future
  /\ UNCHANGED <<issued, corr, stage, pending, returned, network, deaf, wireVars,
                 adapter, performed, linkFaults>>

----------------------------------------------------------------------------
(* The adapter process                                                     *)

\* Outside its process nothing hears a response the server is deaf to.
Heard(response) == IF deaf THEN responses ELSE Append(responses, response)

\* _on_message(): handle_command(), whose exception is an error response,
\* then the response.
HandleCommand(o) ==
  /\ adapter # "down" /\ commands # <<>>
  /\ performed' = [performed EXCEPT ![Head(commands)] = @ \union {o}]
  /\ responses' = Heard(<<Head(commands), o>>)
  /\ lastResponse' = <<Head(commands), o>>
  /\ commands' = Tail(commands)
  /\ \/ adapter' = adapter
     \/ o = "ok" /\ adapter' = "stopping"     \* "restart" and "shutdown"
  /\ UNCHANGED <<proxyVars, networkVars, lastCommand, linkFaults>>

\* run() has returned: _shutdown().
StopAdapter ==
  /\ adapter = "stopping"
  /\ adapter' = "down" /\ commands' = <<>>
  /\ UNCHANGED <<proxyVars, networkVars, responses, lastCommand, lastResponse,
                 performed, linkFaults>>

\* systemd starts it again.
StartAdapter ==
  /\ adapter = "down"
  /\ adapter' = "up" /\ lastResponse' = <<NoRequest, "none">>
  /\ UNCHANGED <<proxyVars, networkVars, commands, responses, lastCommand, performed,
                 linkFaults>>

----------------------------------------------------------------------------
(* Faults                                                                  *)

Fault == linkFaults < MaxLinkFaults /\ linkFaults' = linkFaults + 1

CrashAdapter ==
  /\ Fault /\ adapter # "down"
  /\ adapter' = "down" /\ commands' = <<>>
  /\ UNCHANGED <<proxyVars, networkVars, responses, lastCommand, lastResponse,
                 performed>>

ReconnectAdapter ==
  /\ Fault /\ adapter # "down"
  /\ commands' = <<>>
  /\ responses' \in {responses} \union
       {Heard(response) : response \in {lastResponse} \ {<<NoRequest, "none">>}}
  /\ UNCHANGED <<proxyVars, networkVars, lastCommand, lastResponse, adapter, performed>>

ReconnectServer ==
  /\ Fault
  /\ deaf' = TRUE /\ responses' = <<>>
  /\ commands' \in {commands} \union {Routed(r) : r \in {lastCommand} \ {NoRequest}}
  /\ UNCHANGED <<proxyVars, network, looked, lastCommand, lastResponse, adapter,
                 performed>>

----------------------------------------------------------------------------
AdapterRpcNext ==
  \/ \E c \in Clients :
       \/ \E r \in Requests : Register(c, r)
       \/ PublishCommand(c) \/ ReturnResult(c) \/ TimeOut(c) \/ Leave(c)
  \/ LookUp \/ Resolve
  \/ \E o \in Outcomes : HandleCommand(o)
  \/ StopAdapter \/ StartAdapter
  \/ CrashAdapter \/ ReconnectAdapter \/ ReconnectServer

\* A thread in send_command() keeps running, and result(timeout) ends.
AdapterRpcFairness ==
  \A c \in Clients :
    WF_adapterRpcVars(PublishCommand(c) \/ ReturnResult(c) \/ TimeOut(c) \/ Leave(c))

AdapterRpcSpec ==
  AdapterRpcInit /\ [][AdapterRpcNext]_adapterRpcVars /\ AdapterRpcFairness

----------------------------------------------------------------------------
(* Properties                                                              *)

rpcRequest == [r \in Requests |->
  IF r \notin issued THEN "idle"
  ELSE IF returned[r] = NoAnswer THEN "asked"
  ELSE IF returned[r] = "timeout" THEN "abandoned" ELSE "answered"]
rpcAnswer == [r \in Requests |->
  IF returned[r] \in Outcomes THEN returned[r] ELSE NoAnswer]

Promise == INSTANCE Rpc WITH request <- rpcRequest, answer <- rpcAnswer

\* send_command() keeps its promise whatever the order in which late,
\* repeated and lost commands and responses meet timeouts: every call ends,
\* and a result it returns is one the adapter produced for this request.
CommandsKeepPromise == Promise!Spec /\ Promise!Live

\* Whichever way calls end, the pending table holds the calls in progress and
\* nothing else, and no response ends the MQTT thread that all proxies share,
\* repeated or late as it may be (_on_response's done() check).
NoPendingLeak == network /\ pending = {corr[c] : c \in {c \in Clients : stage[c] # "idle"}}
=============================================================================
