----------------------------- MODULE McpServer -----------------------------
(***************************************************************************)
(* The MCP process (src/adapters/chatgpt-web/mcp-server.ts) in front of    *)
(* the Turn Broker: every MCP request claims the turn, works or makes one  *)
(* tool call, and settles its activity.  Each of these is a call of        *)
(* callTurnBroker over its own socket, so the broker handles them in any   *)
(* order, also after the caller gave up (timeout, abort, lost reply).      *)
(*                                                                         *)
(* A request is named by its activityId, and so is the call it makes.      *)
(* Only the native contract is modelled: a Zero Risk claim may also wait   *)
(* inside the broker, which TurnBroker covers.                             *)
(***************************************************************************)
EXTENDS TurnBroker

CONSTANTS
  Turn,       \* the turn whose token the requests carry
  MaxFaults   \* bound of the model on calls whose caller gives up

ASSUME TurnAssumption == Turn \in Tokens
ASSUME RequestAssumption == Calls = Activities
ASSUME FaultAssumption == MaxFaults \in Nat

VARIABLES
  awaiting,  \* what the request waits for: the reply to a broker call, or nothing
  network,   \* broker calls that were written and not handled yet
  faults     \* how many callers gave up so far

mcpVars == <<awaiting, network, faults>>

BrokerCalls == {"claim", "invoke", "release", "settle", "resettle"}

McpTypeOK ==
  /\ awaiting \in [Activities -> BrokerCalls \cup {"idle", "action", "done"}]
  /\ network \subseteq BrokerCalls \X Activities
  /\ faults \in 0 .. MaxFaults

McpInit ==
  /\ awaiting = [a \in Activities |-> "idle"]
  /\ network = {}
  /\ faults = 0

-----------------------------------------------------------------------------
\* callTurnBroker: connect, write the request, wait.
Send(a, call) ==
  /\ awaiting' = [awaiting EXCEPT ![a] = call]
  /\ network' = network \cup {<<call, a>>}

\* The broker reads the request; only a caller that still waits learns the answer.
Handle(a, call, next) ==
  /\ <<call, a>> \in network
  /\ IF awaiting[a] # call
     THEN /\ network' = network \ {<<call, a>>}
          /\ UNCHANGED awaiting
     ELSE /\ awaiting' = [awaiting EXCEPT ![a] = next]
          /\ network' = (network \ {<<call, a>>}) \cup
                        (IF next \in BrokerCalls \ {call} THEN {<<next, a>>} ELSE {})
  /\ UNCHANGED faults

\* Mutant: settling is tried once.
AfterErrorOnce(call) ==
  CASE call = "claim"    -> "settle"
    [] call = "invoke"   -> "release"
    [] call = "release"  -> "settle"
    [] call \in {"settle", "resettle"} -> "done"

(***************************************************************************)
(* What a request does when a broker call ended in an error: a failed      *)
(* claim and a finished action settle the activity; a failed invoke        *)
(* releases the whole binding first; settling is tried twice.              *)
(***************************************************************************)
AfterError(call) ==
  CASE call = "claim"    -> "settle"
    [] call = "invoke"   -> "release"
    [] call = "release"  -> "settle"
    [] call = "settle"   -> "resettle"
    [] call = "resettle" -> "done"

StartRequest(a) ==
  /\ awaiting[a] = "idle"
  /\ Send(a, "claim")
  /\ UNCHANGED <<vars, faults>>

\* Timeout, abort signal or broken connection; the request may or may not have been written.
GiveUp(a) ==
  LET call == awaiting[a]
      next == AfterError(call)
  IN /\ call \in BrokerCalls
     /\ faults < MaxFaults
     /\ faults' = faults + 1
     /\ awaiting' = [awaiting EXCEPT ![a] = next]
     /\ \E written \in {network, network \ {<<call, a>>}} :
          network' = IF next = "done" THEN written ELSE written \cup {<<next, a>>}
     /\ UNCHANGED vars

HandleClaim(a) ==
  \/ /\ ClaimAllowed(Pruned[Turn], a)
     /\ Claim(Turn, a)
     /\ Handle(a, "claim", "action")
  \/ /\ ~ClaimAllowed(Pruned[Turn], a)
     /\ Prune
     /\ Handle(a, "claim", "settle")

\* The claimed action: a local lookup, or a tool call of the turn.
Act(a) ==
  /\ awaiting[a] = "action"
  /\ Send(a, "settle") \/ Send(a, "invoke")
  /\ UNCHANGED <<vars, faults>>

InvokeAllowed(c) == Live(c) /\ c.bound /\ HarnessOpen(c)

HandleInvoke(a) ==
  \/ /\ Invoke(Turn, a)
     /\ Handle(a, "invoke", "invoke")
  \/ /\ ~InvokeAllowed(Pruned[Turn])
     /\ Prune
     /\ Handle(a, "invoke", "release")

\* The promise of the invocation settled and its reply arrives.
InvokeReturns(a) ==
  /\ awaiting[a] = "invoke"
  /\ \/ /\ channels[Turn].outcome[a] \in {"result", "compacted"}
        /\ Send(a, "settle")
     \/ /\ channels[Turn].outcome[a] = "rejected"
        /\ Send(a, "release")
  /\ UNCHANGED <<vars, faults>>

HandleRelease(a) ==
  /\ IF Live(Pruned[Turn]) /\ Pruned[Turn].bound THEN Release(Turn) ELSE Prune
  /\ Handle(a, "release", "settle")

HandleSettle(a) ==
  /\ IF Live(Pruned[Turn]) THEN ActivityComplete(Turn, a) ELSE Prune
  /\ \E call \in {"settle", "resettle"} : Handle(a, call, "done")

HandleCall(a) == HandleClaim(a) \/ HandleInvoke(a) \/ HandleRelease(a) \/ HandleSettle(a)

McpRequestStep(a) ==
  StartRequest(a) \/ Act(a) \/ InvokeReturns(a) \/ GiveUp(a) \/ HandleCall(a)
=============================================================================
