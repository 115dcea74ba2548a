-------------------------- MODULE AdapterRpcProofs --------------------------
(***************************************************************************)
(* What AdapterRpc promises for every set of clients and requests and any  *)
(* number of faults: its types, the table of pending calls, and that it    *)
(* implements Rpc; and the types of the adapter's health (AdapterHealth).  *)
(***************************************************************************)
EXTENDS AdapterRpc, AdapterHealth, FiniteSetTheorems, SequenceTheorems, TLAPS

\* A client that is in a call has a request of its own to publish.
InCall == \A c \in Clients : stage[c] # "idle" => corr[c] \in issued

LEMMA InitType == AdapterRpcInit => AdapterRpcTypeOK /\ InCall
<1> SUFFICES ASSUME AdapterRpcInit PROVE AdapterRpcTypeOK /\ InCall
  OBVIOUS
<1>1. linkFaults \in 0..MaxLinkFaults
  BY AdapterRpcAssumption DEF AdapterRpcInit, AdapterRpcAssumption
<1>2. commands \in Seq(issued) /\ responses \in Seq(issued \X Outcomes)
  BY DEF AdapterRpcInit
<1> QED
  BY <1>1, <1>2 DEF AdapterRpcInit, AdapterRpcTypeOK, InCall

LEMMA ClientType ==
  ASSUME AdapterRpcTypeOK, InCall, NEW c \in Clients,
         \/ \E r \in Requests : Register(c, r)
         \/ PublishCommand(c) \/ ReturnResult(c) \/ TimeOut(c) \/ Leave(c)
  PROVE  AdapterRpcTypeOK' /\ InCall'
<1> USE DEF AdapterRpcTypeOK, InCall, networkVars, wireVars, Nothing
<1>1. CASE \E r \in Requests : Register(c, r)
  <2> PICK r \in Requests : Register(c, r)
    BY <1>1
  <2>1. issued \subseteq issued' /\ issued' \subseteq Requests
    BY DEF Register
  <2>2. commands' \in Seq(issued') /\ responses' \in Seq(issued' \X Outcomes)
    BY <2>1 DEF Register
  <2> QED
    BY <2>1, <2>2 DEF Register
<1>2. CASE PublishCommand(c)
  <2>1. commands' \in Seq(issued)
    BY <1>2 DEF PublishCommand, Routed
  <2> QED
    BY <1>2, <2>1 DEF PublishCommand
<1>3. CASE ReturnResult(c)
  BY <1>3 DEF ReturnResult, EndWait
<1>4. CASE TimeOut(c)
  BY <1>4 DEF TimeOut, EndWait
<1>5. CASE Leave(c)
  BY <1>5 DEF Leave
<1> QED
  BY <1>1, <1>2, <1>3, <1>4, <1>5

LEMMA ProxyType ==
  ASSUME AdapterRpcTypeOK, InCall, LookUp \/ Resolve
  PROVE  AdapterRpcTypeOK' /\ InCall'
<1> USE DEF AdapterRpcTypeOK, InCall, proxyVars, wireVars, Nothing
<1>1. CASE LookUp
  <2>1. Head(responses) \in issued \X Outcomes /\ responses' \in Seq(issued \X Outcomes)
    BY <1>1, HeadTailProperties DEF LookUp
  <2> DEFINE r == Head(responses)[1]
             known == r \in pending
  <2>2. r \in issued /\ Head(responses)[2] \in Outcomes /\ known \in BOOLEAN
    BY <2>1
  <2>3. looked' = <<r, Head(responses)[2], known>>
    BY <1>1 DEF LookUp
  <2> HIDE DEF r, known
  <2>4. looked' \in issued \X Outcomes \X BOOLEAN
    BY <2>2, <2>3
  <2> QED
    BY <1>1, <2>1, <2>4 DEF LookUp
<1>2. CASE Resolve
  <2>1. looked \in issued \X Outcomes \X BOOLEAN
    BY <1>2 DEF Resolve
  <2>2. future' \in [Requests -> Outcomes \union {NoAnswer}]
    BY <1>2, <2>1 DEF Resolve
  <2> QED
    BY <1>2, <2>2 DEF Resolve
<1> QED
  BY <1>1, <1>2

LEMMA AdapterType ==
  ASSUME AdapterRpcTypeOK, InCall,
         (\E o \in Outcomes : HandleCommand(o)) \/ StopAdapter \/ StartAdapter
  PROVE  AdapterRpcTypeOK' /\ InCall'
<1> USE DEF AdapterRpcTypeOK, InCall, proxyVars, networkVars, Nothing
<1>1. CASE \E o \in Outcomes : HandleCommand(o)
  <2> PICK o \in Outcomes : HandleCommand(o)
    BY <1>1
  <2>1. Head(commands) \in issued /\ commands' \in Seq(issued)
    BY HeadTailProperties DEF HandleCommand
  <2>2. responses' \in Seq(issued \X Outcomes)
    BY <2>1 DEF HandleCommand, Heard
  <2> QED
    BY <2>1, <2>2 DEF HandleCommand
<1>2. CASE StopAdapter
  <2>1. commands' \in Seq(issued)
    BY <1>2 DEF StopAdapter
  <2> QED
    BY <1>2, <2>1 DEF StopAdapter
<1>3. CASE StartAdapter
  BY <1>3 DEF StartAdapter
<1> QED
  BY <1>1, <1>2, <1>3

LEMMA FaultType ==
  ASSUME AdapterRpcTypeOK, InCall, CrashAdapter \/ ReconnectAdapter \/ ReconnectServer
  PROVE  AdapterRpcTypeOK' /\ InCall'
<1> USE DEF AdapterRpcTypeOK, InCall, proxyVars, networkVars, Nothing
<1>1. linkFaults' \in 0..MaxLinkFaults
  BY AdapterRpcAssumption
  DEF CrashAdapter, ReconnectAdapter, ReconnectServer, Fault, AdapterRpcAssumption
<1>2. CASE CrashAdapter
  <2>1. commands' \in Seq(issued)
    BY <1>2 DEF CrashAdapter
  <2> QED
    BY <1>1, <1>2, <2>1 DEF CrashAdapter
<1>3. CASE ReconnectAdapter
  <2>1. commands' \in Seq(issued)
    BY <1>3 DEF ReconnectAdapter
  <2>2. \A m \in issued \X Outcomes : Heard(m) \in Seq(issued \X Outcomes)
    BY DEF Heard
  <2>3. responses' \in Seq(issued \X Outcomes)
    BY <1>3, <2>2 DEF ReconnectAdapter
  <2> QED
    BY <1>1, <1>3, <2>1, <2>3 DEF ReconnectAdapter
<1>4. CASE ReconnectServer
  <2>3. \A r \in issued : Routed(r) \in Seq(issued)
    BY DEF Routed
  <2>1. commands' \in Seq(issued)
    BY <1>4, <2>3 DEF ReconnectServer
  <2>2. responses' \in Seq(issued \X Outcomes)
    BY <1>4 DEF ReconnectServer
  <2> QED
    BY <1>1, <1>4, <2>1, <2>2 DEF ReconnectServer
<1> QED
  BY <1>2, <1>3, <1>4

LEMMA NextType ==
  ASSUME AdapterRpcTypeOK, InCall, [AdapterRpcNext]_adapterRpcVars
  PROVE  AdapterRpcTypeOK' /\ InCall'
<1>1. CASE AdapterRpcNext
  BY <1>1, ClientType, ProxyType, AdapterType, FaultType DEF AdapterRpcNext
<1>2. CASE UNCHANGED adapterRpcVars
  BY <1>2 DEF adapterRpcVars, proxyVars, networkVars, wireVars, AdapterRpcTypeOK, InCall,
              Nothing
<1> QED
  BY <1>1, <1>2

\* The variables of AdapterRpc keep their types.
THEOREM RpcTypeCorrect == AdapterRpcSpec => []AdapterRpcTypeOK
<1> QED
  BY InitType, NextType, PTL DEF AdapterRpcSpec

----------------------------------------------------------------------------
(* The table of pending calls                                              *)

\* Two calls in progress are for two requests.
OneCallEach ==
  \A c, d \in Clients :
     stage[c] # "idle" /\ stage[d] # "idle" /\ corr[c] = corr[d] => c = d

Tidy == OneCallEach /\ NoPendingLeak

LEMMA InitTidy == AdapterRpcInit => Tidy
  BY DEF AdapterRpcInit, Tidy, OneCallEach, NoPendingLeak

\* A call adds its request when it begins and takes it away when it ends, which
\* is no other call's.
LEMMA ClientTidy ==
  ASSUME AdapterRpcTypeOK, InCall, Tidy, NEW c \in Clients,
         \/ \E r \in Requests : Register(c, r)
         \/ PublishCommand(c) \/ ReturnResult(c) \/ TimeOut(c) \/ Leave(c)
  PROVE  Tidy'
<1> USE DEF Tidy, OneCallEach, NoPendingLeak, networkVars
<1>0. corr \in [Clients -> issued \union {NoRequest}]
      /\ stage \in [Clients -> {"idle", "publish", "wait", "leave"}]
  BY DEF AdapterRpcTypeOK
<1>1. CASE \E r \in Requests : Register(c, r)
  BY <1>0, <1>1 DEF Register, InCall
<1>2. CASE PublishCommand(c)
  BY <1>0, <1>2 DEF PublishCommand
<1>3. CASE ReturnResult(c) \/ TimeOut(c)
  <2>1. stage[c] = "wait" /\ stage' = [stage EXCEPT ![c] = "leave"]
        /\ UNCHANGED <<corr, pending, network>>
    BY <1>3 DEF ReturnResult, TimeOut, EndWait
  <2>2. \A d \in Clients : stage'[d] # "idle" <=> stage[d] # "idle"
    BY <1>0, <2>1
  <2> QED
    BY <2>1, <2>2
<1>4. CASE Leave(c)
  BY <1>0, <1>4 DEF Leave
<1> QED
  BY <1>1, <1>2, <1>3, <1>4

LEMMA OthersTidy ==
  ASSUME Tidy,
         \/ LookUp \/ Resolve \/ \E o \in Outcomes : HandleCommand(o)
         \/ StopAdapter \/ StartAdapter
         \/ CrashAdapter \/ ReconnectAdapter \/ ReconnectServer
  PROVE  Tidy'
  BY DEF Tidy, OneCallEach, NoPendingLeak, LookUp, Resolve, HandleCommand, StopAdapter,
         StartAdapter, CrashAdapter, ReconnectAdapter, ReconnectServer, proxyVars,
         networkVars

\* Whichever way calls of send_command() end (adapter_proxy.py), its table holds
\* the calls in progress and nothing else.
THEOREM NoPendingLeakAlways == AdapterRpcSpec => []NoPendingLeak
<1>1. AdapterRpcTypeOK /\ InCall /\ Tidy /\ [AdapterRpcNext]_adapterRpcVars => Tidy'
  <2> SUFFICES ASSUME AdapterRpcTypeOK, InCall, Tidy, [AdapterRpcNext]_adapterRpcVars
               PROVE  Tidy'
    OBVIOUS
  <2>1. CASE AdapterRpcNext
    BY <2>1, ClientTidy, OthersTidy DEF AdapterRpcNext
  <2>2. CASE UNCHANGED adapterRpcVars
    BY <2>2 DEF adapterRpcVars, proxyVars, networkVars, Tidy, OneCallEach, NoPendingLeak
  <2> QED
    BY <2>1, <2>2
<1>2. Tidy => NoPendingLeak
  BY DEF Tidy
<1> QED
  BY InitType, NextType, InitTidy, <1>1, <1>2, PTL DEF AdapterRpcSpec

----------------------------------------------------------------------------
(* The refinement of Rpc                                                   *)

\* A call that waits has returned nothing, nor has one that was never made.
Unreturned ==
  /\ \A r \in Requests \ issued : returned[r] = NoAnswer
  /\ \A c \in Clients : stage[c] \in {"publish", "wait"} => returned[corr[c]] = NoAnswer

\* The outcome in a message about a request is one the adapter produced for it.
Earned(message) == message[2] \in performed[message[1]]

\* What is on its way, in hand or set on a future was earned.
Truthful ==
  /\ \A i \in DOMAIN responses : Earned(responses[i])
  /\ lastResponse # <<NoRequest, "none">> => Earned(lastResponse)
  /\ looked # Nothing => Earned(looked)
  /\ \A r \in Requests : future[r] # NoAnswer => future[r] \in performed[r]

Kept == AdapterRpcTypeOK /\ InCall /\ Tidy /\ Unreturned /\ Truthful

LEMMA InitKept == AdapterRpcInit => Unreturned /\ Truthful
  BY DEF AdapterRpcInit, Unreturned, Truthful, Earned, Nothing

LEMMA ClientKept ==
  ASSUME Kept, NEW c \in Clients,
         \/ \E r \in Requests : Register(c, r)
         \/ PublishCommand(c) \/ ReturnResult(c) \/ TimeOut(c) \/ Leave(c)
  PROVE  Unreturned' /\ Truthful'
<1>0. /\ corr \in [Clients -> issued \union {NoRequest}]
      /\ stage \in [Clients -> {"idle", "publish", "wait", "leave"}]
      /\ returned \in [Requests -> Outcomes \union {NoAnswer, "timeout"}]
      /\ issued \subseteq Requests
  BY DEF Kept, AdapterRpcTypeOK
<1>1. Truthful'
  <2>1. UNCHANGED <<responses, lastResponse, looked, future, performed>>
    BY DEF Register, PublishCommand, ReturnResult, TimeOut, Leave, EndWait, networkVars,
           wireVars
  <2> QED
    BY <2>1 DEF Kept, Truthful, Earned, Nothing
<1>2. Unreturned'
  <2> USE <1>0 DEF Kept, Unreturned, Tidy, OneCallEach, InCall
  <2>1. CASE \E r \in Requests : Register(c, r)
    BY <2>1 DEF Register
  <2>2. CASE PublishCommand(c)
    BY <2>2 DEF PublishCommand
  <2>3. CASE ReturnResult(c) \/ TimeOut(c)
    <3>1. PICK result : EndWait(c, result) /\ stage[c] = "wait"
      BY <2>3 DEF ReturnResult, TimeOut
    <3>2. \A d \in Clients : stage'[d] \in {"publish", "wait"} =>
            d # c /\ stage[d] = stage'[d] /\ corr[d] # corr[c]
      BY <3>1 DEF EndWait
    <3> QED
      BY <3>1, <3>2 DEF EndWait
  <2>4. CASE Leave(c)
    BY <2>4 DEF Leave
  <2> QED
    BY <2>1, <2>2, <2>3, <2>4
<1> QED
  BY <1>1, <1>2

LEMMA AppendedMember ==
  ASSUME NEW S, NEW s \in Seq(S), NEW m \in S
  PROVE  \A i \in DOMAIN Append(s, m) :
           (i \in DOMAIN s /\ Append(s, m)[i] = s[i]) \/ Append(s, m)[i] = m
  OBVIOUS

\* A message that is published is behind those that are on their way.
LEMMA MailAppended ==
  ASSUME responses \in Seq(issued \X Outcomes), NEW m \in issued \X Outcomes,
         responses' \in {responses, Append(responses, m)}
  PROVE  \A i \in DOMAIN responses' :
           (i \in DOMAIN responses /\ responses'[i] = responses[i]) \/ responses'[i] = m
<1> DEFINE Mail == issued \X Outcomes
<1>1. responses \in Seq(Mail) /\ m \in Mail
  OBVIOUS
<1> HIDE DEF Mail
<1> QED
  BY <1>1, AppendedMember

LEMMA OthersKept ==
  ASSUME Kept,
         \/ LookUp \/ Resolve \/ \E o \in Outcomes : HandleCommand(o)
         \/ StopAdapter \/ StartAdapter
         \/ CrashAdapter \/ ReconnectAdapter \/ ReconnectServer
  PROVE  Unreturned' /\ Truthful'
<1>1. Unreturned'
  <2>1. UNCHANGED <<issued, corr, stage, returned>>
    BY DEF LookUp, Resolve, HandleCommand, StopAdapter, StartAdapter, CrashAdapter,
           ReconnectAdapter, ReconnectServer, proxyVars
  <2> QED
    BY <2>1 DEF Kept, Unreturned
<1>2. Truthful'
  <2> USE DEF Kept, Truthful, Earned, AdapterRpcTypeOK
  <2>1. CASE LookUp
    <3>1. responses # <<>> /\ responses' = Tail(responses)
          /\ looked' = <<responses[1][1], responses[1][2], responses[1][1] \in pending>>
          /\ UNCHANGED <<lastResponse, future, performed>>
      BY <2>1 DEF LookUp, proxyVars
    <3>2. Earned(responses[1])
      BY <3>1
    <3>3. Earned(looked')
      BY <3>1, <3>2
    <3>4. \A i \in DOMAIN responses' : i + 1 \in DOMAIN responses /\ responses'[i] = responses[i + 1]
      BY <3>1
    <3> QED
      BY <3>1, <3>3, <3>4
  <2>2. CASE Resolve
    BY <2>2 DEF Resolve, wireVars, Nothing
  <2>3. CASE \E o \in Outcomes : HandleCommand(o)
    <3> PICK o \in Outcomes : HandleCommand(o)
      BY <2>3
    <3>1. Head(commands) \in Requests
      BY DEF HandleCommand
    <3>2. \A r \in Requests : performed[r] \subseteq performed'[r]
      BY <3>1 DEF HandleCommand
    <3>3. o \in performed'[Head(commands)]
      BY <3>1 DEF HandleCommand
    <3>4. UNCHANGED <<looked, future>> /\ lastResponse' = <<Head(commands), o>>
          /\ responses' \in {responses, Append(responses, lastResponse')}
      BY DEF HandleCommand, Heard, proxyVars, networkVars
    <3>5. responses \in Seq(issued \X Outcomes) /\ <<Head(commands), o>> \in issued \X Outcomes
      BY DEF HandleCommand
    <3>6. \A i \in DOMAIN responses' :
            \/ i \in DOMAIN responses /\ responses'[i] = responses[i]
            \/ responses'[i] = lastResponse'
      BY <3>4, <3>5, MailAppended
    <3>7. Earned(lastResponse)'
      BY <3>3, <3>4
    <3>8. \A m \in issued \X Outcomes : Earned(m) => m[2] \in performed'[m[1]]
      BY <3>2
    <3>9. \A i \in DOMAIN responses : responses[i] \in issued \X Outcomes
      BY <3>5
    <3>10. (\A i \in DOMAIN responses : Earned(responses[i]))'
      BY <3>6, <3>7, <3>8, <3>9
    <3>11. (looked # Nothing => Earned(looked))'
      BY <3>2, <3>4 DEF Nothing
    <3>12. (\A r \in Requests : future[r] # NoAnswer => future[r] \in performed[r])'
      BY <3>2, <3>4
    <3> QED
      BY <3>7, <3>10, <3>11, <3>12
  <2>4. CASE StopAdapter \/ StartAdapter \/ CrashAdapter
    BY <2>4 DEF StopAdapter, StartAdapter, CrashAdapter, proxyVars, networkVars, Nothing
  <2>5. CASE ReconnectAdapter
    <3>1. UNCHANGED <<looked, future, performed, lastResponse>>
      BY <2>5 DEF ReconnectAdapter, proxyVars, networkVars
    <3>2. responses' = responses \/ (lastResponse # <<NoRequest, "none">>
                                     /\ responses' = Append(responses, lastResponse))
      BY <2>5 DEF ReconnectAdapter, Heard
    <3>3. responses \in Seq(issued \X Outcomes)
          /\ (lastResponse # <<NoRequest, "none">> => lastResponse \in issued \X Outcomes)
      OBVIOUS
    <3>4. \A i \in DOMAIN responses' :
            \/ i \in DOMAIN responses /\ responses'[i] = responses[i]
            \/ lastResponse # <<NoRequest, "none">> /\ responses'[i] = lastResponse
      BY <3>2, <3>3, MailAppended
    <3> QED
      BY <3>1, <3>4 DEF Nothing
  <2>6. CASE ReconnectServer
    <3>1. UNCHANGED <<looked, future, performed, lastResponse>> /\ DOMAIN responses' = {}
      BY <2>6 DEF ReconnectServer, proxyVars
    <3> QED
      BY <3>1 DEF Nothing
  <2> QED
    BY <2>1, <2>2, <2>3, <2>4, <2>5, <2>6
<1> QED
  BY <1>1, <1>2

LEMMA KeptAlways == AdapterRpcSpec => []Kept
<1>1. AdapterRpcInit => Kept
  BY InitType, InitTidy, InitKept DEF Kept
<1>2. Kept /\ [AdapterRpcNext]_adapterRpcVars => Kept'
  <2> SUFFICES ASSUME Kept, [AdapterRpcNext]_adapterRpcVars PROVE Kept'
    OBVIOUS
  <2>1. AdapterRpcTypeOK' /\ InCall'
    BY NextType DEF Kept
  <2>2. Tidy'
    <3>1. CASE AdapterRpcNext
      BY <3>1, ClientTidy, OthersTidy DEF AdapterRpcNext, Kept
    <3> QED
      BY <3>1 DEF Kept, adapterRpcVars, proxyVars, networkVars, Tidy, OneCallEach,
                  NoPendingLeak
  <2>3. Unreturned' /\ Truthful'
    <3>1. CASE AdapterRpcNext
      BY <3>1, ClientKept, OthersKept DEF AdapterRpcNext
    <3>2. CASE UNCHANGED adapterRpcVars
      BY <3>2 DEF adapterRpcVars, proxyVars, networkVars, wireVars, Kept, Unreturned,
                  Truthful, Earned, Nothing
    <3> QED
      BY <3>1, <3>2
  <2> QED
    BY <2>1, <2>2, <2>3 DEF Kept
<1> QED
  BY <1>1, <1>2, PTL DEF AdapterRpcSpec

\* What the proxy does is what the promise allows: a call asks, a result
\* answers, a timeout abandons, the adapter performs, and all else is silent.
LEMMA StepRefines ==
  ASSUME Kept, AdapterRpcNext
  PROVE  Promise!Next \/ UNCHANGED Promise!rpcVars
<1>0. /\ corr \in [Clients -> issued \union {NoRequest}] /\ issued \subseteq Requests
      /\ future \in [Requests -> Outcomes \union {NoAnswer}]
      /\ returned \in [Requests -> Outcomes \union {NoAnswer, "timeout"}]
      /\ performed \in [Requests -> SUBSET Outcomes] /\ commands \in Seq(issued)
      /\ NoAnswer \notin Outcomes \union {"timeout"} /\ "timeout" \notin Outcomes
  BY AdapterRpcAssumption DEF Kept, AdapterRpcTypeOK, AdapterRpcAssumption, Outcomes
<1>1. ASSUME NEW c \in Clients, NEW r \in Requests, Register(c, r) PROVE Promise!Ask(r)
  <2>1. r \notin issued /\ issued' = issued \union {r} /\ UNCHANGED <<returned, performed>>
    BY <1>1 DEF Register
  <2>2. returned[r] = NoAnswer
    BY <2>1 DEF Kept, Unreturned
  <2>3. rpcRequest' = [rpcRequest EXCEPT ![r] = "asked"]
    BY <2>1, <2>2 DEF rpcRequest
  <2>4. rpcRequest[r] = "idle" /\ rpcAnswer' = rpcAnswer
    BY <2>1 DEF rpcRequest, rpcAnswer
  <2> QED
    BY <2>1, <2>3, <2>4 DEF Promise!Ask
<1>2. ASSUME NEW c \in Clients, NEW result, EndWait(c, result), stage[c] = "wait"
      PROVE  /\ corr[c] \in issued /\ returned[corr[c]] = NoAnswer
             /\ returned' = [returned EXCEPT ![corr[c]] = result]
             /\ UNCHANGED <<issued, performed>>
  BY <1>2 DEF EndWait, Kept, InCall, Unreturned
<1>3. ASSUME NEW c \in Clients, ReturnResult(c)
      PROVE  Promise!Answer(corr[c], future[corr[c]])
  <2>1. EndWait(c, future[corr[c]]) /\ stage[c] = "wait" /\ future[corr[c]] # NoAnswer
    BY <1>3 DEF ReturnResult
  <2>2. /\ corr[c] \in issued /\ returned[corr[c]] = NoAnswer
        /\ returned' = [returned EXCEPT ![corr[c]] = future[corr[c]]]
        /\ UNCHANGED <<issued, performed>>
    BY <1>2, <2>1
  <2>3. future[corr[c]] \in performed[corr[c]] /\ future[corr[c]] \in Outcomes
    BY <1>0, <2>1, <2>2 DEF Kept, Truthful
  <2>4. rpcRequest[corr[c]] = "asked"
        /\ rpcRequest' = [rpcRequest EXCEPT ![corr[c]] = "answered"]
    BY <1>0, <2>2, <2>3 DEF rpcRequest
  <2>5. rpcAnswer' = [rpcAnswer EXCEPT ![corr[c]] = future[corr[c]]]
    BY <1>0, <2>2, <2>3 DEF rpcAnswer
  <2> QED
    BY <2>2, <2>3, <2>4, <2>5 DEF Promise!Answer
<1>4. ASSUME NEW c \in Clients, TimeOut(c) PROVE Promise!Abandon(corr[c])
  <2>1. EndWait(c, "timeout") /\ stage[c] = "wait"
    BY <1>4 DEF TimeOut
  <2>2. /\ corr[c] \in issued /\ returned[corr[c]] = NoAnswer
        /\ returned' = [returned EXCEPT ![corr[c]] = "timeout"]
        /\ UNCHANGED <<issued, performed>>
    BY <1>2, <2>1
  <2>3. rpcRequest[corr[c]] = "asked"
        /\ rpcRequest' = [rpcRequest EXCEPT ![corr[c]] = "abandoned"]
    BY <1>0, <2>2 DEF rpcRequest
  <2>4. rpcAnswer' = rpcAnswer
    BY <1>0, <2>2 DEF rpcAnswer
  <2> QED
    BY <2>2, <2>3, <2>4 DEF Promise!Abandon
<1>5. ASSUME NEW o \in Outcomes, HandleCommand(o) PROVE Promise!Perform(Head(commands), o)
  <2>1. Head(commands) \in issued
    BY <1>0, <1>5 DEF HandleCommand
  <2>2. performed' = [performed EXCEPT ![Head(commands)] = @ \union {o}]
        /\ UNCHANGED <<issued, returned>>
    BY <1>5 DEF HandleCommand, proxyVars
  <2>3. rpcRequest[Head(commands)] # "idle"
    BY <1>0, <2>1 DEF rpcRequest
  <2>4. UNCHANGED <<rpcRequest, rpcAnswer>>
    BY <2>2 DEF rpcRequest, rpcAnswer
  <2> QED
    BY <2>2, <2>3, <2>4 DEF Promise!Perform
<1>6. ASSUME \/ \E c \in Clients : PublishCommand(c) \/ Leave(c)
             \/ LookUp \/ Resolve \/ StopAdapter \/ StartAdapter
             \/ CrashAdapter \/ ReconnectAdapter \/ ReconnectServer
      PROVE  UNCHANGED Promise!rpcVars
  <2>1. UNCHANGED <<issued, returned, performed>>
    BY <1>6 DEF PublishCommand, Leave, LookUp, Resolve, StopAdapter, StartAdapter,
                CrashAdapter, ReconnectAdapter, ReconnectServer, proxyVars
  <2> QED
    BY <2>1 DEF Promise!rpcVars, rpcRequest, rpcAnswer
<1>7. /\ \A c \in Clients : stage[c] # "idle" => corr[c] \in Requests
      /\ \A o \in Outcomes : HandleCommand(o) => Head(commands) \in Requests
      /\ \A c \in Clients : ReturnResult(c) => future[corr[c]] \in Outcomes /\ stage[c] # "idle"
      /\ \A c \in Clients : TimeOut(c) => stage[c] # "idle"
  BY <1>0 DEF Kept, InCall, HandleCommand, ReturnResult, TimeOut
<1>8. CASE \E c \in Clients, r \in Requests : Register(c, r)
  BY <1>1, <1>8 DEF Promise!Next
<1>9. CASE \E c \in Clients : ReturnResult(c) \/ TimeOut(c)
  BY <1>3, <1>4, <1>7, <1>9 DEF Promise!Next
<1>10. CASE \E o \in Outcomes : HandleCommand(o)
  BY <1>5, <1>7, <1>10 DEF Promise!Next
<1> QED
  BY <1>6, <1>8, <1>9, <1>10 DEF AdapterRpcNext

\* send_command() (adapter_proxy.py) implements the promise, but for its being
\* fulfilled in time: a result it returns is one the adapter produced for this
\* request, whatever comes late, twice or never.
THEOREM PromiseKept == AdapterRpcSpec => Promise!Spec
<1>1. AdapterRpcInit => Promise!Init
  BY DEF AdapterRpcInit, Promise!Init, rpcRequest, rpcAnswer, Outcomes
<1>2. Kept /\ [AdapterRpcNext]_adapterRpcVars => [Promise!Next]_(Promise!rpcVars)
  <2>1. UNCHANGED adapterRpcVars => UNCHANGED Promise!rpcVars
    BY DEF adapterRpcVars, proxyVars, Promise!rpcVars, rpcRequest, rpcAnswer
  <2> QED
    BY <2>1, StepRefines
<1> QED
  BY KeptAlways, <1>1, <1>2, PTL DEF AdapterRpcSpec, Promise!Spec

-----------------------------------------------------------------------------
(* The types of the adapter's health.                                      *)

\* The types of AdapterHealth; wills and restarts are bounded by the faults.
HealthFlags ==
  /\ linked \in BOOLEAN /\ beating \in BOOLEAN /\ retainedBeat \in BOOLEAN
  /\ subscribed \in BOOLEAN /\ online \in BOOLEAN
HealthStates ==
  /\ adapterProcess \in {"down", "up", "stopping", "leaving"}
  /\ wills \in 0..healthFaults /\ healthFaults \in 0..MaxHealthFaults
  /\ retained \in {"none", "online", "offline"}
  /\ channel \in Seq(Message)
  /\ beatAge \in {"never", "fresh", "stale"}

\* What a broker hands a new subscriber are messages.
LEMMA RetainedTyped == ASSUME NEW S \in SUBSET Message
               PROVE  SetToSeqs(S) \subseteq Seq(Message)
<1>1. Cardinality(S) \in Nat
  <2>1. Message = (({} \union {"online"}) \union {"offline"}) \union {"beat"}
    BY DEF Message
  <2>2. IsFiniteSet({} \union {"online"})
    BY FS_EmptySet, FS_AddElement
  <2>3. IsFiniteSet(({} \union {"online"}) \union {"offline"})
    BY <2>2, FS_AddElement
  <2>4. IsFiniteSet(Message)
    BY <2>1, <2>3, FS_AddElement
  <2> QED BY <2>4, FS_Subset, FS_CardinalityType
<1>2. ASSUME NEW f \in SetToSeqs(S) PROVE f \in Seq(Message)
  <2>1. f \in [1..Cardinality(S) -> Message]
    BY <1>2 DEF SetToSeqs
  <2> QED BY <1>1, <2>1, SeqDef
<1> QED BY <1>2

\* AdapterHealth begins, goes on and is well typed.
LEMMA HealthTypes ==
  /\ HealthInit => HealthFlags /\ HealthStates
  /\ HealthFlags /\ HealthStates /\ [HealthNext]_healthVars => (HealthFlags /\ HealthStates)'
  /\ HealthFlags /\ HealthStates => HealthTypeOK
<1>0. MaxHealthFaults \in Nat
  BY HealthAssumption DEF HealthAssumption
<1>1. HealthInit => HealthFlags
  BY DEF HealthInit, HealthFlags
<1>2. HealthInit => HealthStates
  BY <1>0, EmptySeq DEF HealthInit, HealthStates
<1>3. ASSUME HealthFlags, [HealthNext]_healthVars PROVE HealthFlags'
  <2> USE DEF HealthFlags, processVars, brokerVars, proxyHealth
  <2>1. CASE StartProcess \/ BeginHeartbeat \/ PublishHeartbeat \/ StopProcess \/ SayOffline
    BY <1>3, <2>1, Zenon
       DEF StartProcess, BeginHeartbeat, PublishHeartbeat, StopProcess, SayOffline, PublishStatus
  <2>2. CASE LeaveBroker \/ RelinkProcess \/ CrashProcess \/ LoseLink \/ PublishOldWill
    BY <1>3, <2>2, Zenon
       DEF LeaveBroker, RelinkProcess, CrashProcess, LoseLink, PublishOldWill, PublishStatus
  <2>3. CASE DeafenServer \/ RestartServer \/ BecomeStale \/ UNCHANGED healthVars
    BY <1>3, <2>3, Zenon DEF DeafenServer, RestartServer, BecomeStale, healthVars
  <2>4. CASE HearAdapter
    BY <1>3, <2>4, Zenon DEF HearAdapter, OnStatus, OnHeartbeat
  <2> QED BY <1>3, <2>1, <2>2, <2>3, <2>4 DEF HealthNext, Heartbeat, Leaving
<1>4. ASSUME HealthStates, [HealthNext]_healthVars PROVE HealthStates'
  <2> USE DEF HealthStates, processVars, brokerVars, proxyHealth
  <2>0. ASSUME NEW m \in Message, Reach(m) PROVE channel' \in Seq(Message)
    BY <1>4, <2>0, AppendProperties DEF Reach
  <2>1. /\ "beat" \in Message /\ "offline" \in Message /\ "online" \in Message
    BY DEF Message
  <2>2. ASSUME NEW s \in {"online", "offline"}, PublishStatus(s)
        PROVE  retained' \in {"none", "online", "offline"} /\ channel' \in Seq(Message)
    BY <2>0, <2>1, <2>2 DEF PublishStatus
  <2>3. CASE StartProcess \/ BeginHeartbeat \/ SayOffline \/ LeaveBroker \/ RelinkProcess
    BY <1>4, <2>2, <2>3
       DEF StartProcess, BeginHeartbeat, SayOffline, LeaveBroker, RelinkProcess
  <2>4. CASE PublishHeartbeat
    BY <1>4, <2>0, <2>1, <2>4 DEF PublishHeartbeat
  <2>5. CASE StopProcess \/ CrashProcess \/ LoseLink
    BY <1>0, <1>4, <2>5 DEF StopProcess, CrashProcess, LoseLink, HealthFault
  <2>6. CASE PublishOldWill
    BY <1>0, <1>4, <2>2, <2>6 DEF PublishOldWill
  <2>7. CASE DeafenServer
    BY <1>0, <1>4, <2>7, EmptySeq DEF DeafenServer, HealthFault
  <2>8. CASE RestartServer
    <3>1. RetainedMessages \subseteq Message
      BY <1>4 DEF RetainedMessages, Message
    <3>2. channel' \in Seq(Message)
      BY <2>8, <3>1, RetainedTyped DEF RestartServer
    <3> QED BY <1>0, <1>4, <2>8, <3>2 DEF RestartServer, HealthFault
  <2>9. CASE HearAdapter
    <3>1. channel # << >> /\ channel' = Tail(channel)
      BY <2>9 DEF HearAdapter, OnStatus, OnHeartbeat
    <3>2. channel' \in Seq(Message)
      BY <1>4, <3>1, HeadTailProperties
    <3> QED BY <1>4, <2>9, <3>2 DEF HearAdapter, OnStatus, OnHeartbeat
  <2>10. CASE BecomeStale \/ UNCHANGED healthVars
    BY <1>4, <2>10 DEF BecomeStale, healthVars
  <2> QED BY <1>4, <2>3, <2>4, <2>5, <2>6, <2>7, <2>8, <2>9, <2>10 DEF HealthNext, Heartbeat, Leaving
<1>5. HealthFlags /\ HealthStates => HealthTypeOK
  BY <1>0 DEF HealthFlags, HealthStates, HealthTypeOK
<1> QED BY <1>1, <1>2, <1>3, <1>4, <1>5
=============================================================================
