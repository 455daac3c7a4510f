---------------------------- MODULE MetalRuntime ----------------------------
(***************************************************************************)
(* The head's side of distributed dispatch (csrc/runtime/                  *)
(* DistributedMetalRuntime.cpp), composed with the agents it drives, and   *)
(* with other clients of the agents, such as the pings of the cluster      *)
(* manager, each on a connection of its own.                               *)
(*                                                                         *)
(* A dispatch whose inputs are on other nodes throws before it sends       *)
(* anything and is left out.  What is sent to an agent that has gone is    *)
(* lost.                                                                   *)
(***************************************************************************)
EXTENDS Agent

CONSTANTS
  NumNodes,      \* num_nodes_ of the coherence protocol
  HeadConns,     \* the connections of the runtime, one for each agent
  MicroBatches,  \* num_micro_batches of a pipeline
  MaxCalls       \* bound on the calls the application makes

VARIABLES
  head,          \* where the application's thread is in the runtime
  agent_socks,   \* agent_socks_
  todo,          \* responses still to be read, as a sequence of connections
  calls          \* calls made so far

headVars == <<head, agent_socks, todo, calls>>
vars == <<agentVars, headVars>>

Init ==
  /\ AgentInit
  /\ head = "new" /\ agent_socks = {} /\ todo = <<>> /\ calls = 0

\* barrier_all on the head: with other nodes it waits for barrier_count_, which
\* only handle_message raises, and nothing calls that.
barrier_all(then) == head' = IF NumNodes = 1 THEN then ELSE "hung"

ShaderRun == Message("SHADER_RUN", SizeofShaderRun)

\* The socket of an agent that answered in five seconds.  connect_to_agent does
\* not ask how the connect ended, and takes a refused one for a connection.
connect_to_agent(c) ==
  IF main[AgentOf[c]] = "gone" THEN "closed" ELSE "connected"

\* The constructor: agents that do not answer are left out.
Construct ==
  /\ head = "new"
  /\ \E s \in SUBSET HeadConns :
       /\ agent_socks' = s
       /\ at' = [c \in Conns |-> IF c \in s THEN connect_to_agent(c) ELSE at[c]]
  /\ head' = "idle"
  /\ UNCHANGED <<process, cmd, toAgent, toHead, shut, todo, calls>>

\* dispatch_data_parallel: a request to each connected agent in node_work, then
\* their responses.
DispatchDataParallel ==
  /\ head = "idle" /\ calls < MaxCalls
  /\ \E work \in IF NumNodes = 1 THEN SUBSET agent_socks ELSE {{}} :
       /\ toAgent' = [c \in Conns |-> toAgent[c] \o IF c \in work THEN ShaderRun
                                                    ELSE <<>>]
       /\ todo' = SetToSeq(work)
  /\ barrier_all("collect")
  /\ calls' = calls + 1
  /\ UNCHANGED <<process, at, cmd, toHead, shut, agent_socks>>

CollectResponse ==
  /\ head = "collect"
  /\ IF todo = <<>> THEN barrier_all("idle") /\ UNCHANGED <<todo, toHead>>
     ELSE /\ CanRecv(Head(todo))
          /\ Received(Head(todo))
          /\ todo' = Tail(todo)
          /\ UNCHANGED head
  /\ UNCHANGED <<process, at, cmd, toAgent, shut, agent_socks, calls>>

\* dispatch_pipeline with one stage: a request for each micro-batch, as many
\* responses, then sync_all.
DispatchOneStage(c) ==
  /\ head = "idle" /\ calls < MaxCalls
  /\ Sent(c, FlattenSeq([i \in 1 .. MicroBatches |-> ShaderRun]))
  /\ todo' = [i \in 1 .. MicroBatches |-> c]
  /\ head' = "responses"
  /\ calls' = calls + 1
  /\ UNCHANGED <<process, at, cmd, toHead, shut, agent_socks>>

\* transfer_tensor fails.  No catalog has entries of other nodes, so that get
\* throws; from a buffer of this node get copies to a null pointer.
transfer_tensor ==
  \/ UNCHANGED <<head, shut>>
  \/ head' = "gone" /\ shut' = shut \cup agent_socks

\* With more stages, the first transfer_tensor ends the dispatch after one
\* request, whose response is left unread.
DispatchStages(c) ==
  /\ head = "idle" /\ calls < MaxCalls
  /\ Sent(c, ShaderRun)
  /\ calls' = calls + 1
  /\ transfer_tensor
  /\ UNCHANGED <<process, at, cmd, toHead, agent_socks, todo>>

PipelineResponse ==
  /\ head = "responses"
  /\ IF todo = <<>>
     THEN head' = "sync" /\ todo' = SetToSeq(agent_socks) /\ UNCHANGED toHead
     ELSE /\ CanRecv(Head(todo))
          /\ Received(Head(todo))
          /\ todo' = Tail(todo)
          /\ UNCHANGED head
  /\ UNCHANGED <<process, at, cmd, toAgent, shut, agent_socks, calls>>

\* sync_all: agent by agent, the request and its response.
SyncAll ==
  /\ head = "idle" /\ calls < MaxCalls
  /\ head' = "sync"
  /\ todo' = SetToSeq(agent_socks)
  /\ calls' = calls + 1
  /\ UNCHANGED <<agentVars, agent_socks>>

SyncSend ==
  /\ head = "sync"
  /\ IF todo = <<>> THEN barrier_all("idle") /\ UNCHANGED toAgent
     ELSE head' = "syncing" /\ Sent(Head(todo), Message("SHADER_SYNC", 0))
  /\ UNCHANGED <<process, at, cmd, toHead, shut, agent_socks, todo, calls>>

SyncResponse ==
  /\ head = "syncing"
  /\ CanRecv(Head(todo))
  /\ Received(Head(todo))
  /\ todo' = Tail(todo)
  /\ head' = "sync"
  /\ UNCHANGED <<process, at, cmd, toAgent, shut, agent_socks, calls>>

disconnect_agent(c) ==
  /\ Sent(c, Message("SHUTDOWN", 0))
  /\ shut' = shut \cup {c}
  /\ agent_socks' = agent_socks \ {c}

\* The destructor, agent by agent: disconnect_agent erases the entry the loop
\* stands on, so that what follows the first one may be left out.
Destroy ==
  /\ head \in {"idle", "destroy"} /\ agent_socks # {}
  /\ \E c \in agent_socks : disconnect_agent(c)
  /\ head' \in {"destroy", "gone"}
  /\ UNCHANGED <<process, at, cmd, toHead, todo, calls>>

Runtime ==
  \/ Construct \/ DispatchDataParallel \/ CollectResponse
  \/ \E c \in agent_socks : DispatchOneStage(c) \/ DispatchStages(c)
  \/ PipelineResponse \/ SyncAll \/ SyncSend \/ SyncResponse \/ Destroy

-----------------------------------------------------------------------------
(* Any other client: connect, send one request as the protocol has it, and *)
(* close once the response is there or its timeout has run out.  PING is   *)
(* what the heartbeat sender of the cluster manager sends; the senders of  *)
(* the other commands are not part of the repository.                      *)

ClientSend(c) ==
  /\ at[c] = "unused" /\ main[AgentOf[c]] # "gone"
  /\ at' = [at EXCEPT ![c] = "connected"]
  /\ \E k \in Commands : Sent(c, Message(k, PayloadRead(k)))
  /\ UNCHANGED <<process, cmd, toHead, shut, headVars>>

ClientClose(c) ==
  /\ Open(c)
  /\ shut' = shut \cup {c}
  /\ UNCHANGED <<process, at, cmd, toAgent, toHead, headVars>>

Clients == \E c \in Conns \ HeadConns : ClientSend(c) \/ ClientClose(c)

Next == Runtime \/ Clients \/ (AgentStep /\ UNCHANGED headVars)

Spec == Init /\ [][Next]_vars

-----------------------------------------------------------------------------

\* "uint32_t payload_len; // Bytes following the header" (Protocol.hpp): what
\* a sender writes after a header is what the header announces and the agent
\* reads for it, so that whenever handle_connection reads the next header,
\* the stream stands at one.
HeadersInStep ==
  \A c \in Conns :
    at[c] = "header" /\ toAgent[c] # <<>> => AtHeader(toAgent[c])
=============================================================================
