-------------------------------- MODULE Rpc --------------------------------
(***************************************************************************)
(* What a caller of a remote command is promised (AdapterProxy.send_command *)
(* and its docstring): the call ends, either with a result the adapter      *)
(* really produced for this very request or with TimeoutError; after a      *)
(* TimeoutError the command may nevertheless be performed, even later, and  *)
(* it may be performed more than once.                                      *)
(***************************************************************************)
CONSTANTS Requests, Outcomes, NoAnswer

VARIABLES request, performed, answer
rpcVars == <<request, performed, answer>>

Init ==
  /\ request = [r \in Requests |-> "idle"]
  /\ performed = [r \in Requests |-> {}]
  /\ answer = [r \in Requests |-> NoAnswer]

Ask(r) ==
  /\ request[r] = "idle"
  /\ request' = [request EXCEPT ![r] = "asked"]
  /\ UNCHANGED <<performed, answer>>

Perform(r, o) ==
  /\ request[r] # "idle"
  /\ performed' = [performed EXCEPT ![r] = @ \union {o}]
  /\ UNCHANGED <<request, answer>>

Answer(r, o) ==
  /\ request[r] = "asked" /\ o \in performed[r]
  /\ request' = [request EXCEPT ![r] = "answered"]
  /\ answer' = [answer EXCEPT ![r] = o]
  /\ UNCHANGED performed

Abandon(r) ==
  /\ request[r] = "asked"
  /\ request' = [request EXCEPT ![r] = "abandoned"]
  /\ UNCHANGED <<performed, answer>>

Next ==
  \E r \in Requests :
    Ask(r) \/ Abandon(r) \/ \E o \in Outcomes : Perform(r, o) \/ Answer(r, o)

Spec == Init /\ [][Next]_rpcVars

\* Every call returns: it is answered or abandoned.
Live == \A r \in Requests :
          WF_rpcVars(Abandon(r) \/ \E o \in Outcomes : Answer(r, o))
=============================================================================
