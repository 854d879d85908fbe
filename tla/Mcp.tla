--------------------------------- MODULE Mcp ---------------------------------
(***************************************************************************)
(* MCPClient and ARMPMCPBridge (armp_mcp.py): servers are asked for their  *)
(* tools, tools become capabilities of the agent's card, and a request for *)
(* a capability becomes a call of a tool.                                  *)
(*                                                                         *)
(* discover_tools walks over the live dict of servers and awaits the       *)
(* answer of each HTTP server; servers and tools may be registered, and    *)
(* other walks go on, between two answers.  A stdio server is not asked:   *)
(* its own entry is its only tool, and there is no await.                  *)
(***************************************************************************)
EXTENDS Integers, Sequences, SequencesExt

CONSTANTS
  Walkers,        \* coroutines in expose_all_tools
  McpServers,     \* names of servers, which name the tool of a stdio server too
  Urls,           \* base URLs of HTTP servers
  ToolNames,      \* names of tools the servers offer
  Stdio,          \* the URL of a server that is a subprocess
  MaxExposed      \* bound on the length of the card

ASSUME McpAssumption ==
  /\ Stdio \notin Urls
  /\ IsFiniteSet(ToolNames)
  /\ MaxExposed \in Nat

VARIABLES
  servers,    \* the names of _http_clients, in order
  url,        \* url[s] of each of them
  tools,      \* _tools: by name, with the name of a stdio server or the URL
  walk,       \* walk[w]: at which server, of how many, and asked at which URL;
              \* with the tools found so far
  exposed,    \* _tool_capabilities
  cardNames   \* the capabilities that set_capability put on the card

mcpVars == <<servers, url, tools, walk, exposed, cardNames>>

Tool(name, server, where) == [name |-> name, server |-> server, url |-> where]
Nothing == "none"         \* an empty server_name or server_url
Idle == [at |-> 0, of |-> 0, asked |-> Nothing, found |-> <<>>]

McpInit ==
  /\ servers = <<>> /\ url = <<>>
  /\ tools = <<>>
  /\ walk = [w \in Walkers |-> Idle]
  /\ exposed = <<>> /\ cardNames = <<>>
-----------------------------------------------------------------------------
(* Registration                                                            *)

AddServer(s, where) ==
  /\ servers' = IF s \in DOMAIN url THEN servers ELSE Append(servers, s)
  /\ url' = [t \in DOMAIN url \union {s} |-> IF t = s THEN where ELSE url[t]]

PutTool(tool) ==
  tools' = [n \in DOMAIN tools \union {tool.name} |-> IF n = tool.name THEN tool ELSE tools[n]]

RegisterStdioServer(s) ==
  /\ AddServer(s, Stdio)
  /\ PutTool(Tool(s, s, Nothing))
  /\ UNCHANGED <<walk, exposed, cardNames>>

RegisterHttpServer(s, where) ==
  /\ AddServer(s, where)
  /\ UNCHANGED <<tools, walk, exposed, cardNames>>

\* A tool that is neither a server's nor a URL's is called in the process.
RegisterTool(n) ==
  /\ PutTool(Tool(n, Nothing, Nothing))
  /\ UNCHANGED <<servers, url, walk, exposed, cardNames>>
-----------------------------------------------------------------------------
(* discover_tools and expose_all_tools                                     *)

\* Faulty variant: discovered tools are returned and not stored.
LearnNothing(found) == tools' = tools

\* A discovered tool is stored unless there is one of its name.
Learn(found) ==
  tools' = [n \in DOMAIN tools \union {found[i].name : i \in DOMAIN found} |->
              IF n \in DOMAIN tools THEN tools[n]
              ELSE found[CHOOSE i \in DOMAIN found : found[i].name = n]]

\* From the i-th server on, the next one that has to be awaited, or the end.
NextStop(i) ==
  LET stops == {j \in i .. Len(servers) : url[servers[j]] # Stdio} IN
  IF stops = {} THEN Len(servers) + 1 ELSE CHOOSE j \in stops : \A k \in stops : j <= k

\* The tools of the stdio servers in between.
StdioTools(i, j) == [k \in 1 .. j - i |-> tools[servers[i + k - 1]]]

CapabilityOf(tool) ==
  IF tool.server = Nothing THEN <<"mcp", tool.name>> ELSE <<"mcp", tool.server, tool.name>>

\* Each tool goes onto the card and, the last of a name winning, into the table.
Expose(found) ==
  LET caps == [i \in DOMAIN found |-> CapabilityOf(found[i])] IN
  /\ cardNames' = cardNames \o caps
  /\ exposed' = [c \in DOMAIN exposed \union Range(caps) |->
                   IF c \in Range(caps)
                   THEN found[CHOOSE i \in DOMAIN found : caps[i] = c
                                /\ \A j \in DOMAIN found : caps[j] = c => j <= i]
                   ELSE exposed[c]]

\* The walk goes on at the i-th server.  A dict that has grown since the walk
\* began raises, whatever was found.
Proceed(w, i, n, found) ==
  LET stop == NextStop(i)
      more == found \o StdioTools(i, stop) IN
  IF Len(servers) # n
  THEN walk' = [walk EXCEPT ![w] = Idle] /\ UNCHANGED <<exposed, cardNames>>
  ELSE IF stop <= n
  THEN /\ walk' = [walk EXCEPT ![w] = [at |-> stop, of |-> n,
                  asked |-> url[servers[stop]], found |-> more]]
       /\ UNCHANGED <<exposed, cardNames>>
  ELSE /\ Len(cardNames) + Len(more) <= MaxExposed
       /\ walk' = [walk EXCEPT ![w] = Idle]
       /\ Expose(more)

ExposeAllTools(w) ==
  /\ walk[w] = Idle
  /\ Proceed(w, 1, Len(servers), <<>>)
  /\ UNCHANGED <<servers, url, tools>>

\* The HTTP server asked answers with some tools or, on any failure, none.
Answer(w, names) ==
  LET found == [i \in 1 .. Cardinality(names) |->
                  Tool(SetToSeq(names)[i], Nothing, walk[w].asked)] IN
  /\ walk[w] # Idle
  /\ Learn(found)
  /\ Proceed(w, walk[w].at + 1, walk[w].of, walk[w].found \o found)
  /\ UNCHANGED <<servers, url>>

McpNext ==
  \/ \E s \in McpServers : \/ RegisterStdioServer(s)
                          \/ \E where \in Urls : RegisterHttpServer(s, where)
  \/ \E n \in ToolNames : RegisterTool(n)
  \/ \E w \in Walkers : ExposeAllTools(w) \/ \E names \in SUBSET ToolNames : Answer(w, names)

McpSpec == McpInit /\ [][McpNext]_mcpVars
-----------------------------------------------------------------------------
(* handle_tool_call and call_tool.  Only the tool's name is handed on, so  *)
(* that the tool called is the one stored under that name, which may be    *)
(* another server's than the one that was exposed.                         *)

CallTool(n) == IF n \in DOMAIN tools THEN tools[n] ELSE Tool(n, "unknown", "unknown")

HandleToolCall(c) ==
  IF c \in DOMAIN exposed THEN CallTool(exposed[c].name) ELSE Tool("?", "unknown", "unknown")
-----------------------------------------------------------------------------
AnyTool == [name : ToolNames \union McpServers, server : McpServers \union {Nothing},
            url : Urls \union {Nothing}]

McpTypeOK ==
  /\ servers \in Seq(McpServers) /\ IsInjective(servers)
  /\ Range(servers) = DOMAIN url /\ \A s \in DOMAIN url : url[s] \in Urls \union {Stdio}
  /\ \A n \in DOMAIN tools : tools[n] \in AnyTool /\ tools[n].name = n
  /\ \A w \in Walkers : /\ walk[w].found \in Seq(AnyTool)
                        /\ walk[w].at <= walk[w].of
                        /\ walk[w].of <= Len(servers)
  /\ \A c \in DOMAIN exposed : exposed[c] \in AnyTool

(* Whatever is registered, answered and lost while tools are discovered,   *)
(* and also when a walk breaks off because the dict of servers grew: every *)
(* capability on the card is in the bridge's table, and a request for it   *)
(* finds a tool of the name to call (armp_mcp.py:105-122, 317-345).        *)
ExposedIsCallable ==
  \A i \in DOMAIN cardNames : \E n \in DOMAIN tools : HandleToolCall(cardNames[i]) = tools[n]
=============================================================================
