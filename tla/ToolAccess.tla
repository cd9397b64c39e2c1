----------------------------- MODULE ToolAccess -----------------------------
(***************************************************************************)
(* The tools agents may call (mcp-handler.ts, policy-mcp.ts, upstream.ts   *)
(* of remote-cli; proxies.ts and workspace-config.ts of common).  One      *)
(* instance per upstream is shared by all calls: it is connected by the    *)
(* first call that needs it, a connection that closes is reconnected in    *)
(* the background, and an instance is given up after too many attempts.    *)
(* A call is followed from its arguments to its answer; it waits for the   *)
(* connection, for the vault, and for the upstream.                        *)
(***************************************************************************)
EXTENDS Integers, FiniteSets, Sequences

CONSTANTS Call, Upstream,
          Configs,        \* readings of config.json: [repos, support]
          Policy,         \* PROXY_REGISTRY: [Upstream -> [allow, approve, access, perUser]]
          Offers,         \* lists of tools an upstream may offer
          Likes,       \* [name -> the names that contain it, or that it contains]
          Users, Inputs,
          IsProduction, MAX_RECONNECT_ATTEMPTS, MaxConns, MaxToolFaults

VARIABLES config,         \* the last good reading of config.json
          instances,      \* [Upstream -> its instance, 0 when there is none]
          upstreamOf,     \* [instance -> its connection]
          conns,          \* every connection made: [up, state, tools]
          chains,         \* reconnections under way: [up, instance, attempt, the connection
                          \* that closed or failed, the connection being made or 0]
          connecting,     \* [Upstream -> the connection being made, 0 when none]
          calls,
          closing,        \* closeAll has run
          toolFaults
toolVars == <<config, instances, upstreamOf, conns, chains, connecting, calls, closing, toolFaults>>

------------------------------------------------------------------------------
\* What config.json and the registry let a repository's agents see.
getRepoUpstreams(repo) == IF repo \in DOMAIN config.repos THEN config.repos[repo] \cap Upstream ELSE {}

getConfiguredUpstreamNames == UNION {getRepoUpstreams(repo) : repo \in DOMAIN config.repos}

classifyTool(up, tool) == IF tool \in Policy[up].allow THEN "allow"
                          ELSE IF tool \in Policy[up].approve THEN "approve" ELSE "hidden"

PolicyDrift(up, tools) == ~(Policy[up].allow \cup Policy[up].approve \subseteq tools)
PolicyOverlap(up) == Policy[up].allow \cap Policy[up].approve # {}

\* Drift is looked at first, and passes in production; overlap is only found without drift.
validatePolicy(up, tools) == IF PolicyDrift(up, tools) THEN IsProduction ELSE ~PolicyOverlap(up)

listVisibleTools(up) == {t \in conns[upstreamOf[instances[up]]].tools : classifyTool(up, t) # "hidden"}

\* The tool named, or the only one whose name is like it.
resolveTool(up, input) ==
    LET tools == listVisibleTools(up)
        like == {t \in tools : t \in Likes[input]}
    IN  IF input \in tools THEN {input} ELSE IF Cardinality(like) = 1 THEN like ELSE {}

checkUserAccess(up, user) ==
    CASE Policy[up].access = "public" -> TRUE
      [] Policy[up].access = "katalon" -> user.email \in config.katalon
      [] Policy[up].access = "support" -> user.email \in config.support

------------------------------------------------------------------------------
ToolInit ==
    /\ config \in Configs
    /\ instances = [u \in Upstream |-> 0]
    /\ upstreamOf = <<>>
    /\ conns = <<>>
    /\ chains = {}
    /\ connecting = [u \in Upstream |-> 0]
    /\ calls = [c \in Call |-> [stage |-> "idle", answer |-> ""]]
    /\ closing = FALSE
    /\ toolFaults = 0

ToolFault == toolFaults < MaxToolFaults /\ toolFaults' = toolFaults + 1

\* connectUpstream: connect and listTools, one connection from its first byte.
connectUpstream(up) == conns' = Append(conns, [up |-> up, state |-> "opening", tools |-> {}])

Answered(c, answer) == calls' = [calls EXCEPT ![c].stage = "answered", ![c].answer = answer]

\* executeMcp, up to the instance it needs: a new connection unless there is an instance,
\* or a connection that another call is waiting for.
executeMcp(c, repo, up, input, user) ==
    /\ calls[c].stage = "idle"
    /\ IF up \notin getRepoUpstreams(repo)
       THEN Answered(c, "unknown upstream") /\ UNCHANGED <<conns, connecting>>
       ELSE /\ calls' = [calls EXCEPT ![c] = [stage |-> "connecting", answer |-> "", up |-> up,
                                              input |-> input, user |-> user, tool |-> ""]]
            /\ IF instances[up] = 0 /\ connecting[up] = 0
               THEN /\ Len(conns) < MaxConns
                    /\ connectUpstream(up)
                    /\ connecting' = [connecting EXCEPT ![up] = Len(conns')]
               ELSE UNCHANGED <<conns, connecting>>
    /\ UNCHANGED <<config, instances, upstreamOf, chains, closing, toolFaults>>

\* connectConfiguredUpstreams, at the start of the process.
connectConfiguredUpstreams(up) ==
    /\ up \in getConfiguredUpstreamNames
    /\ instances[up] = 0 /\ connecting[up] = 0
    /\ conns = <<>>
    /\ connectUpstream(up)
    /\ connecting' = [connecting EXCEPT ![up] = Len(conns')]
    /\ UNCHANGED <<config, instances, upstreamOf, chains, calls, closing, toolFaults>>

\* getInstance: the connection is there.  A list of tools against the policy is a failure
\* that leaves the connection open; everybody who waited learns it.
getInstance(up, tools) ==
    /\ connecting[up] # 0
    /\ conns' = [conns EXCEPT ![connecting[up]] = [up |-> up, state |-> "open", tools |-> tools]]
    /\ connecting' = [connecting EXCEPT ![up] = 0]
    /\ IF validatePolicy(up, tools)
       THEN /\ upstreamOf' = Append(upstreamOf, connecting[up])
            /\ instances' = [instances EXCEPT ![up] = Len(upstreamOf')]
            /\ UNCHANGED calls
       ELSE /\ calls' = [c \in Call |-> IF calls[c].stage = "connecting" /\ calls[c].up = up
                                        THEN [calls[c] EXCEPT !.stage = "answered", !.answer = "failed"]
                                        ELSE calls[c]]
            /\ UNCHANGED <<instances, upstreamOf>>
    /\ UNCHANGED <<config, chains, closing, toolFaults>>

\* Connecting is refused, the connection drops, or listing the tools fails and it stays open.
connectInstanceFails(up, state) ==
    /\ connecting[up] # 0
    /\ ToolFault
    /\ conns' = [conns EXCEPT ![connecting[up]].state = state]
    /\ connecting' = [connecting EXCEPT ![up] = 0]
    /\ calls' = [c \in Call |-> IF calls[c].stage = "connecting" /\ calls[c].up = up
                                THEN [calls[c] EXCEPT !.stage = "answered", !.answer = "failed"]
                                ELSE calls[c]]
    /\ UNCHANGED <<config, instances, upstreamOf, chains, closing>>

\* The timer scheduleReconnect sets for what became of connection "of".
Chain(up, attempt, of) ==
    [up |-> up, instance |-> instances[up], attempt |-> attempt, of |-> of, conn |-> 0]

\* scheduleReconnect: nothing to do without an instance, and an end to it.
scheduleReconnect(up, attempt, of, others) ==
    IF instances[up] = 0 THEN chains' = others /\ UNCHANGED instances
    ELSE IF attempt > MAX_RECONNECT_ATTEMPTS
    THEN chains' = others /\ instances' = [instances EXCEPT ![up] = 0]
    ELSE chains' = others \cup {Chain(up, attempt, of)} /\ UNCHANGED instances

\* A connection closes: client.onclose.
Disconnect(i) ==
    /\ conns[i].state = "open"
    /\ ToolFault
    /\ conns' = [conns EXCEPT ![i].state = "closed"]
    /\ scheduleReconnect(conns[i].up, 1, i, chains)
    /\ UNCHANGED <<config, upstreamOf, connecting, calls, closing>>

\* The timer of a reconnection fires, and connects.
Reconnect(k) ==
    /\ k.conn = 0
    /\ Len(conns) < MaxConns
    /\ connectUpstream(k.up)
    /\ chains' = (chains \ {k}) \cup {[k EXCEPT !.conn = Len(conns')]}
    /\ UNCHANGED <<config, instances, upstreamOf, connecting, calls, closing, toolFaults>>

\* The new connection takes the old one's place; no policy is looked at again.
Reconnected(k, tools) ==
    /\ k.conn # 0
    /\ conns' = [conns EXCEPT ![k.conn] = [up |-> k.up, state |-> "open", tools |-> tools]]
    /\ upstreamOf' = [upstreamOf EXCEPT ![k.instance] = k.conn]
    /\ chains' = chains \ {k}
    /\ UNCHANGED <<config, instances, connecting, calls, closing, toolFaults>>

\* Mutant of ReconnectFails: a failed attempt is the last one.
GivesUpQuietly(k, state) ==
    /\ k.conn # 0
    /\ ToolFault
    /\ conns' = [conns EXCEPT ![k.conn].state = state]
    /\ chains' = chains \ {k}
    /\ UNCHANGED <<config, instances, upstreamOf, connecting, calls, closing>>

\* The next attempt; a connection that dropped while its tools were listed has told
\* scheduleReconnect so already, and starts a reconnection of its own.
ReconnectFails(k, state) ==
    /\ k.conn # 0
    /\ ToolFault
    /\ conns' = [conns EXCEPT ![k.conn].state = state]
    /\ LET told == IF state = "dropped" /\ instances[k.up] # 0 THEN {Chain(k.up, 1, k.conn)} ELSE {}
       IN  scheduleReconnect(k.up, k.attempt + 1, k.conn, (chains \ {k}) \cup told)
    /\ UNCHANGED <<config, upstreamOf, connecting, calls, closing>>

\* The awaited instance is there: the tool is looked up, and who calls is checked.
callTool(c) ==
    /\ calls[c].stage = "connecting"
    /\ instances[calls[c].up] # 0
    /\ LET call == calls[c]
           found == resolveTool(call.up, call.input)
           tool == CHOOSE t \in found : TRUE
       IN  CASE found = {} -> Answered(c, "unknown tool")
             [] found # {} /\ ~checkUserAccess(call.up, call.user) -> Answered(c, "access denied")
             [] found # {} /\ checkUserAccess(call.up, call.user) ->
                  calls' = [calls EXCEPT ![c].tool = tool,
                      ![c].stage = IF Policy[call.up].perUser THEN "vault"
                                   ELSE classifyTool(call.up, tool)]
    /\ UNCHANGED <<config, instances, upstreamOf, conns, chains, connecting, closing, toolFaults>>

\* The caller's own credentials: without them, or without the vault, nothing is called.
LookUpCredentials(c, found) ==
    /\ calls[c].stage = "vault"
    /\ IF calls[c].user.slackId = "" THEN Answered(c, "who are you")
       ELSE IF ~found THEN Answered(c, "enroll or try again")
       ELSE calls' = [calls EXCEPT ![c].stage = classifyTool(calls[c].up, calls[c].tool)]
    /\ UNCHANGED <<config, instances, upstreamOf, conns, chains, connecting, closing, toolFaults>>

\* A tool that people approve is recorded and not called (module Approval goes on from here).
CreateApproval(c) ==
    /\ calls[c].stage = "approve"
    /\ Answered(c, "approval required")
    /\ UNCHANGED <<config, instances, upstreamOf, conns, chains, connecting, closing, toolFaults>>

\* executeUpstreamCall on the connection its instance has at that moment; the instance may
\* have been given up since, but the call still holds it, and an error is an answer.
executeUpstreamCall(c, worked) ==
    /\ calls[c].stage = "allow"
    /\ Answered(c, IF worked THEN "ok" ELSE "failed")
    /\ UNCHANGED <<config, instances, upstreamOf, conns, chains, connecting, closing, toolFaults>>

\* config.json is read again for every call; a bad one leaves the last good reading.
createConfigLoader(next) ==
    /\ config' = next
    /\ UNCHANGED <<instances, upstreamOf, conns, chains, connecting, calls, closing, toolFaults>>

\* closeAll closes every instance's connection; each tells scheduleReconnect it closed.
closeAll ==
    /\ ~closing
    /\ closing' = TRUE
    /\ LET closed == {u \in Upstream : /\ instances[u] # 0
                                       /\ conns[upstreamOf[instances[u]]].state = "open"}
       IN  /\ conns' = [i \in DOMAIN conns |->
                  IF \E u \in closed : i = upstreamOf[instances[u]]
                  THEN [conns[i] EXCEPT !.state = "closed"] ELSE conns[i]]
           /\ chains' = chains \cup {Chain(u, 1, upstreamOf[instances[u]]) : u \in closed}
    /\ UNCHANGED <<config, instances, upstreamOf, connecting, calls, toolFaults>>

ToolNext ==
    \/ \E c \in Call : \/ \E repo \in {"known", "other"}, up \in Upstream, input \in Inputs, user \in Users :
                            executeMcp(c, repo, up, input, user)
                       \/ callTool(c) \/ CreateApproval(c)
                       \/ \E b \in BOOLEAN : LookUpCredentials(c, b) \/ executeUpstreamCall(c, b)
    \/ \E up \in Upstream : \/ connectConfiguredUpstreams(up)
                            \/ \E tools \in Offers : getInstance(up, tools)
                            \/ \E state \in {"refused", "dropped", "open"} : connectInstanceFails(up, state)
    \/ \E k \in chains : \/ Reconnect(k)
                         \/ \E tools \in Offers : Reconnected(k, tools)
                         \/ \E state \in {"refused", "dropped", "open"} : ReconnectFails(k, state)
    \/ \E i \in DOMAIN conns : Disconnect(i)
    \/ \E next \in Configs : createConfigLoader(next)
    \/ closeAll

ToolSpec == ToolInit /\ [][ToolNext]_toolVars

------------------------------------------------------------------------------
\* An upstream whose connection has closed is being reconnected, for as long as calls are
\* given its instance (scheduleReconnect, its retries and its end): no order of closing,
\* failing and being given up leaves a dead connection that nobody repairs.
DeadIsRepaired ==
    \A up \in Upstream :
        (instances[up] # 0 /\ conns[upstreamOf[instances[up]]].state # "open")
        => \E k \in chains : k.up = up /\ k.instance = instances[up]
==============================================================================
