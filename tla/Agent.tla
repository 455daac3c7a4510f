------------------------------- MODULE Agent --------------------------------
(***************************************************************************)
(* The agent process of each worker node (csrc/agent/Agent.cpp): a loop    *)
(* that accepts connections and a detached thread for each, over the       *)
(* regions of the distributed memory manager (csrc/dmem/                   *)
(* DistributedMemoryManager.cpp).                                          *)
(***************************************************************************)
EXTENDS AgentProtocol, FiniteSets

CONSTANTS
  Agents,
  Conns,        \* connections that clients may make
  AgentOf,      \* AgentOf[c]: the agent a connection goes to
  MaxRegions    \* bound on the regions an agent registers

VARIABLES
  g_running,    \* per agent
  main,         \* per agent, where agent_main is: "while", "accept",
                \* "leaving" after the loop, "gone"
  has_dmem,     \* per agent, g_dmem is not null
  next_region,  \* per agent, next_region_id_
  regions,      \* per agent, the ids in regions_ and in the catalog
  at,           \* per connection, where its thread is
  cmd,          \* per connection, the command whose payload is being read
  toAgent,      \* per connection, the bytes on their way to the agent
  toHead,       \* per connection, the responses on their way back
  shut          \* connections closed by the client

process == <<g_running, main, has_dmem, next_region, regions>>
agentVars == <<process, at, cmd, toAgent, toHead, shut>>

AgentInit ==
  /\ g_running = [a \in Agents |-> TRUE]
  /\ main = [a \in Agents |-> "while"]
  /\ has_dmem \in [Agents -> BOOLEAN]
  /\ next_region = [a \in Agents |-> 1]
  /\ regions = [a \in Agents |-> {}]
  /\ at = [c \in Conns |-> "unused"]
  /\ cmd = [c \in Conns |-> "none"]
  /\ toAgent = [c \in Conns |-> <<>>]
  /\ toHead = [c \in Conns |-> <<>>]
  /\ shut = {}

-----------------------------------------------------------------------------

\* The condition of the accept loop.
WhileRunning(a) ==
  /\ main[a] = "while"
  /\ main' = [main EXCEPT ![a] = IF g_running[a] THEN "accept" ELSE "leaving"]
  /\ UNCHANGED <<g_running, has_dmem, next_region, regions, at, cmd, toAgent,
                 toHead, shut>>

\* accept and the detached thread.
Accept(c) ==
  LET a == AgentOf[c]
  IN  /\ at[c] = "connected" /\ main[a] = "accept"
      /\ at' = [at EXCEPT ![c] = "top"]
      /\ main' = [main EXCEPT ![a] = "while"]
      /\ UNCHANGED <<g_running, has_dmem, next_region, regions, cmd, toAgent,
                     toHead, shut>>

\* The process ends, by returning from main or by a crash, and with it the
\* threads and the sockets.
EndProcess(a) ==
  /\ main' = [main EXCEPT ![a] = "gone"]
  /\ at' = [c \in Conns |->
              IF AgentOf[c] = a /\ at[c] # "unused" THEN "closed" ELSE at[c]]

Leave(a) ==
  /\ main[a] = "leaving"
  /\ EndProcess(a)
  /\ UNCHANGED <<g_running, has_dmem, next_region, regions, cmd, toAgent,
                 toHead, shut>>

\* The condition of the loop in handle_connection.
Loop(c) ==
  /\ at[c] = "top"
  /\ at' = [at EXCEPT ![c] = IF g_running[AgentOf[c]] THEN "header"
                             ELSE "closed"]
  /\ UNCHANGED <<process, cmd, toAgent, toHead, shut>>

Respond(c, k, status) ==
  toHead' = [toHead EXCEPT ![c] = @ \o Message(status, PayloadSent(k, status))]

register_region(a) ==
  /\ next_region[a] <= MaxRegions
  /\ next_region' = [next_region EXCEPT ![a] = @ + 1]
  /\ regions' = [regions EXCEPT ![a] = @ \cup {next_region[a]}]

unregister_region(a, r) ==
  /\ regions' = [regions EXCEPT ![a] = @ \ {r}]
  /\ UNCHANGED next_region

\* A command that uses the memory manager where there is none: the agent
\* crashes.
NoMemoryManager(c, k) ==
  /\ k \in {"REGISTER", "DEREGISTER", "STATS"} /\ ~has_dmem[AgentOf[c]]
  /\ EndProcess(AgentOf[c])
  /\ UNCHANGED <<g_running, has_dmem, next_region, regions, toHead>>

\* The case of a command, once its payload has been read.  A REGISTER fails
\* when the address or the length is zero, before the memory manager is used,
\* or when the NIC refuses the region.
Answer(c, k) ==
  LET a == AgentOf[c]
  IN  /\ at' = [at EXCEPT ![c] = "top"]
      /\ g_running' = [g_running EXCEPT ![a] = @ /\ k # "SHUTDOWN"]
      /\ \/ /\ k = "REGISTER" /\ has_dmem[a]
            /\ register_region(a) /\ Respond(c, k, "OK")
         \/ /\ k = "REGISTER" /\ Respond(c, k, "ERR_MEMORY")
            /\ UNCHANGED <<next_region, regions>>
         \/ /\ k = "DEREGISTER" /\ has_dmem[a]
            /\ \E r \in 0 .. MaxRegions : unregister_region(a, r)
            /\ Respond(c, k, "OK")
         \/ /\ k = "SHADER_SYNC" /\ Respond(c, k, "ERR_METAL")
            /\ UNCHANGED <<next_region, regions>>
         \/ /\ k \notin {"REGISTER", "DEREGISTER"}
            /\ k = "STATS" => has_dmem[a]
            /\ Respond(c, k, IF k = "unknown" THEN "ERR_INTERNAL" ELSE "OK")
            /\ UNCHANGED <<next_region, regions>>
      /\ UNCHANGED <<main, has_dmem>>

Handle(c, k) == NoMemoryManager(c, k) \/ Answer(c, k)

ReadHeader(c) ==
  /\ at[c] = "header" /\ BytesIn(toAgent[c]) >= HeaderSize
  /\ toAgent' = [toAgent EXCEPT ![c] = Drop(@, HeaderSize)]
  /\ \E k \in Decoded(toAgent[c]) :
       IF PayloadRead(k) = 0
       THEN Handle(c, k) /\ UNCHANGED cmd
       ELSE /\ at' = [at EXCEPT ![c] = "payload"]
            /\ cmd' = [cmd EXCEPT ![c] = k]
            /\ UNCHANGED <<process, toHead>>
  /\ UNCHANGED shut

ReadPayload(c) ==
  /\ at[c] = "payload" /\ BytesIn(toAgent[c]) >= PayloadRead(cmd[c])
  /\ toAgent' = [toAgent EXCEPT ![c] = Drop(@, PayloadRead(cmd[c]))]
  /\ cmd' = [cmd EXCEPT ![c] = "none"]
  /\ Handle(c, cmd[c])
  /\ UNCHANGED shut

\* recv_all fails: the client has closed and there are not enough bytes.  Where
\* the payload is cut short, the loop tries once more, to the same end.
EndOfStream(c) ==
  /\ c \in shut
  /\ \/ at[c] = "header" /\ BytesIn(toAgent[c]) < HeaderSize
     \/ at[c] = "payload" /\ BytesIn(toAgent[c]) < PayloadRead(cmd[c])
  /\ at' = [at EXCEPT ![c] = "closed"]
  /\ UNCHANGED <<process, cmd, toAgent, toHead, shut>>

AgentStep ==
  \/ \E a \in Agents : WhileRunning(a) \/ Leave(a)
  \/ \E c \in Conns : Accept(c) \/ Loop(c) \/ ReadHeader(c) \/ ReadPayload(c)
                      \/ EndOfStream(c)

-----------------------------------------------------------------------------
(* The client's end of a connection.                                       *)

Open(c) == at[c] \notin {"unused", "closed"} /\ c \notin shut

Sent(c, request) == toAgent' = [toAgent EXCEPT ![c] = @ \o request]

\* recv of a header returns what is there of it, or nothing when the agent has
\* closed.
CanRecv(c) == toHead[c] # <<>> \/ at[c] = "closed"

Received(c) == toHead' = [toHead EXCEPT ![c] = Drop(@, HeaderSize)]
=============================================================================
