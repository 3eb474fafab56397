---------------------------- MODULE McpSessions ----------------------------
(***************************************************************************)
(* One operation of a plugin adapter (homebot-plugins/src/lib.rs): tool    *)
(* discovery, a health check or a tool call, over a process started for    *)
(* it (local MCP), over Streamable HTTP (remote MCP), or over the fixed    *)
(* REST interface of a memory service.  The server answers, sends a        *)
(* notification first, says nothing, refuses or goes away; the caller may  *)
(* drop the operation at any await.                                        *)
(***************************************************************************)
EXTENDS Naturals

CONSTANTS Kinds,       \* of adapter: "local", "remote", "rest"
          MaxPages,    \* MAX_TOOL_PAGES
          MaxTools     \* MAX_TOOLS

VARIABLES kind, op,
          offered,     \* the server's list: its pages and the tools on each
          at,          \* the answer the adapter waits for, or its outcome
          page,        \* pages read
          tools,       \* tools collected
          line,        \* what the server has sent and nobody has read
          process,     \* a local adapter's child
          performed    \* the server has carried the call out

vars == <<kind, op, offered, at, page, tools, line, process, performed>>

Operations == {"discover", "health", "call"}
Failures == {"protocol", "timeout", "io", "http", "auth", "forbidden", "too_many"}
Outcomes == {"ok", "dropped"} \cup Failures
Waits == {"initialize", "list", "call", "post"}

TypeOK ==
  /\ kind \in Kinds /\ op \in Operations
  /\ offered \in [pages : 1..MaxPages + 1, each : 0..MaxTools]
  /\ at \in {"start", "closing"} \cup Waits \cup Outcomes
  /\ page \in 0..MaxPages /\ tools \in 0..2 * MaxTools
  /\ line \in {"none", "response", "error", "notification", "eof"}
  /\ process \in {"none", "running", "gone"}
  /\ performed \in BOOLEAN

Init ==
  /\ kind \in Kinds /\ op \in Operations
  /\ offered \in [pages : 1..MaxPages + 1, each : 0..MaxTools]
  /\ at = "start" /\ page = 0 /\ tools = 0
  /\ line = "none" /\ process = "none" /\ performed = FALSE

-----------------------------------------------------------------------------
(* The server *)

Answers ==
  /\ at \in Waits /\ line = "none"
  /\ \/ /\ line' = "response"
        /\ performed' = (performed \/ (op = "call" /\ at \in {"call", "post"}))
     \/ /\ line' \in {"error", "eof", "notification"}
        /\ UNCHANGED performed
  /\ UNCHANGED <<kind, op, offered, at, page, tools, process>>

(* It does what it was asked, and its answer is still to come. *)
Performs ==
  /\ at \in {"call", "post"} /\ op = "call" /\ ~performed
  /\ performed' = TRUE
  /\ UNCHANGED <<kind, op, offered, at, page, tools, line, process>>

-----------------------------------------------------------------------------
(* The adapter *)

(* faulty: the child of an operation that fails is left alone. *)
LeftAlone == process

(* kill_on_drop, and SupervisedProcess's own Drop *)
Dropped == IF process = "running" THEN "gone" ELSE process

Returns(outcome) ==
  /\ at' = outcome
  /\ process' = Dropped
  /\ UNCHANGED <<kind, op, offered, page, tools, line, performed>>

Start ==
  /\ at = "start"
  /\ \/ /\ kind = "rest"
        /\ at' = "post" /\ UNCHANGED process
     \/ /\ kind = "remote"
        /\ at' = "initialize" /\ UNCHANGED process
     \/ /\ kind = "local"
        /\ \/ at' = "initialize" /\ process' = "running"
           \/ at' = "io" /\ UNCHANGED process
  /\ UNCHANGED <<kind, op, offered, page, tools, line, performed>>

Takes(next) ==
  /\ line' = "none"
  /\ at' = next
  /\ UNCHANGED <<kind, op, offered, process, performed>>

Initialized ==
  /\ at = "initialize" /\ line = "response"
  /\ Takes(CASE op = "discover" -> "list" [] op = "call" -> "call"
             [] op = "health" -> "closing")
  /\ UNCHANGED <<page, tools>>

(* nextCursor is absent. *)
LastPage == page + 1 = offered.pages
(* The loop has run MAX_TOOL_PAGES times. *)
OutOfPages == page + 1 = MaxPages

Listed ==
  /\ at = "list" /\ line = "response"
  /\ tools' = tools + offered.each
  /\ page' = page + 1
  /\ \/ /\ tools' > MaxTools \/ (OutOfPages /\ ~LastPage)
        /\ line' = "none" /\ at' = "too_many" /\ process' = Dropped
        /\ UNCHANGED <<kind, op, offered, performed>>
     \/ /\ tools' <= MaxTools /\ LastPage
        /\ Takes("closing")
     \/ /\ tools' <= MaxTools /\ ~LastPage /\ ~OutOfPages
        /\ Takes("list")

(* A memory service's tools are fixed; its health stands for them. *)
Called ==
  /\ at \in {"call", "post"} /\ line = "response"
  /\ Takes("closing")
  /\ tools' = IF op = "discover" THEN 2 ELSE tools
  /\ UNCHANGED page

(* validate_response: the first message must be the answer. *)
Misread ==
  /\ at \in Waits /\ kind # "rest" /\ line \in {"error", "notification"}
  /\ Returns("protocol")

Gone ==
  /\ at \in Waits /\ line = "eof"
  /\ Returns(IF kind = "local" THEN "protocol" ELSE "http")

(* The answer of an HTTP server is a status first. *)
Status ==
  /\ at \in Waits /\ kind # "local" /\ line = "error"
  /\ \E s \in {"auth", "forbidden", "http"} : Returns(s)

Timeout ==
  /\ at \in Waits /\ line = "none"
  /\ Returns(IF kind = "local" THEN "timeout" ELSE "http")

(* shutdown waits for the child, or kills it; a call reports its failure. *)
Close ==
  /\ at = "closing"
  /\ \/ Returns("ok")
     \/ kind = "local" /\ op = "call" /\ Returns("io")

CallerDrops ==
  /\ at \in Waits \cup {"closing"}
  /\ Returns("dropped")

Next ==
  \/ Answers \/ Performs
  \/ Start \/ Initialized \/ Listed \/ Called \/ Misread \/ Gone \/ Status
  \/ Timeout \/ Close \/ CallerDrops

Spec == Init /\ [][Next]_vars

-----------------------------------------------------------------------------
(* However an operation ends, no child of it is left; a discovery that     *)
(* succeeds has every tool of every page the server offers, and a call     *)
(* that succeeds has been carried out: what the registry stores for a      *)
(* plugin is never a part of its list.                                     *)
OutcomeHolds ==
  at \in Outcomes =>
    /\ process # "running"
    /\ at = "ok" /\ op = "discover" /\ kind # "rest" =>
         tools = offered.pages * offered.each
    /\ at = "ok" /\ op = "call" => performed

(* The invariant behind it: what each stage of the operation knows.        *)
PagesRead == tools = page * offered.each

StagesKnow ==
  /\ at = "start" => line = "none"
  /\ at \in {"start", "initialize"} => page = 0 /\ tools = 0
  /\ at \in {"initialize", "list", "call"} => kind # "rest"
  /\ at = "list" => op = "discover" /\ page < MaxPages /\ tools <= MaxTools /\ PagesRead
  /\ at = "call" => op = "call"
  /\ at = "post" => kind = "rest"
  /\ at = "closing" => /\ op = "discover" /\ kind # "rest" => PagesRead /\ page = offered.pages
                       /\ op = "call" => performed
  /\ at \in {"call", "post"} /\ op = "call" /\ line = "response" => performed
  /\ at = "start" => process = "none"

McpInv == TypeOK /\ StagesKnow /\ OutcomeHolds
=============================================================================
