---------------------------- MODULE OutsideTools ----------------------------
(* Tools that reach outside the deployment: searches and rendered pages        *)
(* through one shared Chromium (browser_runtime.py), plain HTTP fetches that    *)
(* fall back on it (tool_external.py, tool_runtime.py), rendered collection     *)
(* pages for the Knowledge Fabric, and the tools of remote MCP servers          *)
(* (mcp_gateway.py, mcp_client.py).                                            *)
(*                                                                            *)
(* Everything runs in one event loop: a step is what happens between two        *)
(* awaits, or a section under _state_lock when nothing outside the lock can     *)
(* see it halfway.  Pages are left out: they belong to one context, and one     *)
(* that was closed is opened again by the next operation.                      *)
EXTENDS Naturals, FiniteSets

CONSTANTS Op,         \* tool calls running at the same time
          NoOp,
          Key,        \* owner and deployment a context is reused for
          Ctx,        \* bound: contexts and browsers ever opened, 1..n
          Permits,    \* max_concurrent_contexts
          MaxHops,    \* _MAX_REDIRECTS
          MaxVersion, \* bound: versions of a remote tool's schema
          MaxCalls    \* bound: tool calls made

ASSUME OutsideAssumption ==
  /\ NoOp \notin Op /\ IsFiniteSet(Op) /\ Ctx \subseteq Nat \ {0}
  /\ {Permits, MaxHops, MaxVersion, MaxCalls} \subseteq Nat

VARIABLES chrome,   \* the browser: its number, whether it is worn out
          dead,     \* browsers that died
          sessions, \* _sessions: the context of each key, 0 if none
          ctx,      \* contexts: their browser, whether open, whether idle too long
          holder,   \* who holds the lock of a context's session
          active,   \* _active_operations
          cleaner,  \* cleanup_idle: the context it is about to close, 0 if none
          stopped,
          op,       \* the tool calls
          launched, opened, calls, \* counters of the bounds
          remote,   \* the version of the schema the MCP server publishes
          offer,  \* _catalog_cache
          allowed,  \* the deployment still grants the tool
          known     \* the fingerprint each model learnt from a discovery

browserVars == <<chrome, dead, sessions, ctx, holder, active, cleaner, stopped, launched, opened>>
mcpVars == <<remote, offer, allowed, known>>
outsideVars == <<browserVars, mcpVars, op, calls>>

NoChrome == [id |-> 0, worn |-> FALSE]
NoCtx == [chrome |-> 0, open |-> FALSE, idle |-> FALSE]
Resting == [pc |-> "idle", kind |-> "none", key |-> "none", ctx |-> 0, sound |-> FALSE,
            waited |-> FALSE, hops |-> 0, from |-> 0, listed |-> 0]

OutsideInit ==
  /\ chrome = NoChrome /\ dead = {} /\ sessions = [k \in Key |-> 0] /\ ctx = [c \in Ctx |-> NoCtx]
  /\ holder = [c \in Ctx |-> NoOp] /\ active = 0 /\ cleaner = 0 /\ stopped = FALSE
  /\ op = [o \in Op |-> Resting] /\ launched = 0 /\ opened = 0 /\ calls = 0
  /\ remote = 1 /\ offer = [version |-> 0, fresh |-> FALSE] /\ allowed = TRUE
  /\ known = [o \in Op |-> 0]

Becomes(o, r) == op' = [op EXCEPT ![o] = r]
Returns(o) == Becomes(o, Resting)

\* _state_lock is free: the cleaner holds it while it closes a context.
StateLockFree == cleaner = 0

----------------------------------------------------------------------------
(* Calls that need the browser *)

\* search_web and search_places, search_images, fetch_page, the collection pages; and the tools that
\* ask an API twice or follow links: weather, Discord's search (once more after 202), files.
BrowserKinds == {"search", "image", "fetch", "collect"}
PlainKinds == {"weather", "messages", "file"}

CallTool(o, kind, k) ==
  /\ op[o].pc = "idle" /\ calls < MaxCalls /\ calls' = calls + 1
  /\ Becomes(o, [Resting EXCEPT !.kind = kind, !.key = k,
                   !.pc = IF kind \in {"image", "collect"} THEN "permit" ELSE "plain"])
  /\ UNCHANGED <<browserVars, mcpVars>>

\* _search_duckduckgo_html answers or is given up; fetch_page_http follows validated redirects.
PlainAnswer(o) == op[o].pc = "plain" /\ Returns(o) /\ UNCHANGED <<browserVars, mcpVars, calls>>

PlainRedirect(o) ==
  /\ op[o].pc = "plain" /\ op[o].kind \in {"fetch", "file"}
  /\ IF op[o].hops < MaxHops THEN Becomes(o, [op[o] EXCEPT !.hops = @ + 1]) ELSE Returns(o)
  /\ UNCHANGED <<browserVars, mcpVars, calls>>

PlainAgain(o) ==
  /\ op[o].pc = "plain" /\ op[o].kind \in {"weather", "messages"} /\ op[o].hops = 0
  /\ Becomes(o, [op[o] EXCEPT !.hops = 1])
  /\ UNCHANGED <<browserVars, mcpVars, calls>>

\* The static search failed, or the fetched text asks for a browser.
PlainFallsBack(o) ==
  /\ op[o].pc = "plain" /\ op[o].kind \in BrowserKinds
  /\ Becomes(o, [op[o] EXCEPT !.pc = "permit", !.hops = 0])
  /\ UNCHANGED <<browserVars, mcpVars, calls>>

Holding == {o \in Op : op[o].pc \in {"ensure", "count", "wait", "use", "leave"}}

TakePermit(o) ==
  /\ op[o].pc = "permit" /\ Cardinality(Holding) < Permits
  /\ Becomes(o, [op[o] EXCEPT !.pc = "ensure"])
  /\ UNCHANGED <<browserVars, mcpVars, calls>>

\* _close_browser_locked
Shut(c) == [c EXCEPT !.open = FALSE]
AllClosed == [c \in Ctx |-> IF \E k \in Key : sessions[k] = c THEN Shut(ctx[c]) ELSE ctx[c]]

Attached == chrome.id \notin dead \cup {0}

\* Mutant: a worn browser is replaced whoever uses it.
RetireWhenWorn == Attached /\ chrome.worn

\* _ensure_browser_locked: a worn browser is replaced only when nobody is counted.
Retire == Attached /\ chrome.worn /\ active = 0

\* What the section under the lock leaves: the browser, the sessions it had and their contexts.
\* A browser that died is replaced without a look at its sessions; a failed launch closes them.
AsItWas == [chrome |-> chrome, sessions |-> sessions, ctx |-> ctx]
Launched(from) == [from EXCEPT !.chrome = [id |-> launched + 1, worn |-> FALSE]]
Cleared == [chrome |-> NoChrome, sessions |-> [k \in Key |-> 0], ctx |-> AllClosed]
Ensured ==
  CASE Attached /\ ~Retire -> {AsItWas}
    [] Retire                 -> {Launched(Cleared), Cleared}
    [] OTHER                  -> {Launched(AsItWas), Cleared}

\* _ensure_session; the context is not marked as used.
EnsureSession(o) ==
  /\ op[o].pc = "ensure" /\ op[o].kind # "collect" /\ StateLockFree
  /\ \E e \in Ensured :
       LET c == e.sessions[op[o].key] IN
       /\ chrome' = e.chrome
       /\ launched' = IF e.chrome.id > launched THEN launched + 1 ELSE launched
       /\ launched' \in Ctx \cup {0}
       /\ \/ e.chrome.id = 0 /\ Returns(o) /\ sessions' = e.sessions /\ ctx' = e.ctx /\ UNCHANGED opened
          \/ /\ e.chrome.id # 0 /\ c # 0
             /\ Becomes(o, [op[o] EXCEPT !.pc = "count", !.ctx = c])
             /\ sessions' = e.sessions /\ ctx' = e.ctx /\ UNCHANGED opened
          \/ /\ e.chrome.id # 0 /\ c = 0 /\ opened + 1 \in Ctx /\ opened' = opened + 1
             /\ Becomes(o, [op[o] EXCEPT !.pc = "count", !.ctx = opened'])
             /\ sessions' = [e.sessions EXCEPT ![op[o].key] = opened']
             /\ ctx' = [e.ctx EXCEPT ![opened'] = [chrome |-> e.chrome.id, open |-> TRUE, idle |-> FALSE]]
  /\ UNCHANGED <<dead, holder, active, cleaner, stopped, mcpVars, calls>>

Sound(c) == ctx[c].open /\ ctx[c].chrome = chrome.id /\ Attached
Waiting(c) == {o \in Op : op[o].pc = "wait" /\ op[o].ctx = c}

\* _page_for: counted, and in the same breath the session's lock if it is free.
Count(o) ==
  /\ op[o].pc = "count" /\ StateLockFree /\ active' = active + 1
  /\ LET c == op[o].ctx IN
     IF holder[c] = NoOp /\ Waiting(c) = {}
     THEN /\ holder' = [holder EXCEPT ![c] = o]
          /\ Becomes(o, [op[o] EXCEPT !.pc = "use", !.sound = Sound(c)])
     ELSE /\ Becomes(o, [op[o] EXCEPT !.pc = "wait"])
          /\ UNCHANGED holder
  /\ UNCHANGED <<chrome, dead, sessions, ctx, cleaner, stopped, launched, opened, mcpVars, calls>>

\* A waiter wakes up some time after the lock was released.
WakeUp(o) ==
  /\ op[o].pc = "wait" /\ holder[op[o].ctx] = NoOp
  /\ holder' = [holder EXCEPT ![op[o].ctx] = o]
  /\ Becomes(o, [op[o] EXCEPT !.pc = "use", !.sound = Sound(op[o].ctx), !.waited = TRUE])
  /\ UNCHANGED <<chrome, dead, sessions, ctx, active, cleaner, stopped, launched, opened, mcpVars, calls>>

\* The page was read: only then are the context and the page marked as used.
PageRead(o) ==
  /\ op[o].pc = "use" /\ op[o].kind # "collect" /\ Sound(op[o].ctx)
  /\ ctx' = [ctx EXCEPT ![op[o].ctx].idle = FALSE]
  /\ holder' = [holder EXCEPT ![op[o].ctx] = NoOp]
  /\ Becomes(o, [op[o] EXCEPT !.pc = "leave"])
  /\ UNCHANGED <<chrome, dead, sessions, active, cleaner, stopped, launched, opened, mcpVars, calls>>

\* _search_web_with_fallback: the first engine failed or showed nothing readable.
NextEngine(o) ==
  /\ op[o].pc = "use" /\ op[o].kind = "search" /\ op[o].hops = 0
  /\ Becomes(o, [op[o] EXCEPT !.hops = 1])
  /\ UNCHANGED <<browserVars, mcpVars, calls>>

\* Navigation failed, or the context or the browser is gone.
PageFailed(o) ==
  /\ op[o].pc = "use" /\ op[o].kind # "collect" /\ (op[o].kind = "search" => op[o].hops = 1)
  /\ holder' = [holder EXCEPT ![op[o].ctx] = NoOp]
  /\ Becomes(o, [op[o] EXCEPT !.pc = "leave"])
  /\ UNCHANGED <<chrome, dead, sessions, ctx, active, cleaner, stopped, launched, opened, mcpVars, calls>>

\* _public_collection_page: counted in the section that ensures the browser; its own context.
EnsureCollection(o) ==
  /\ op[o].pc = "ensure" /\ op[o].kind = "collect" /\ StateLockFree
  /\ \E e \in Ensured :
       /\ chrome' = e.chrome /\ sessions' = e.sessions /\ ctx' = e.ctx
       /\ launched' = IF e.chrome.id > launched THEN launched + 1 ELSE launched
       /\ launched' \in Ctx \cup {0}
       /\ IF e.chrome.id # 0
          THEN active' = active + 1 /\ Becomes(o, [op[o] EXCEPT !.pc = "use", !.from = e.chrome.id, !.sound = TRUE])
          ELSE Returns(o) /\ UNCHANGED active
  /\ UNCHANGED <<dead, holder, cleaner, stopped, opened, mcpVars, calls>>

\* fetch_rendered_collection_page, its responses drained; the one-use context is closed.
CollectionRead(o) ==
  /\ op[o].pc = "use" /\ op[o].kind = "collect" /\ Becomes(o, [op[o] EXCEPT !.pc = "leave"])
  /\ UNCHANGED <<browserVars, mcpVars, calls>>

\* The finally of both: the operation may have been the last one the browser was good for.
Leave(o) ==
  /\ op[o].pc = "leave" /\ StateLockFree
  /\ active' = active - 1
  /\ \E worn \in BOOLEAN : chrome' = [chrome EXCEPT !.worn = chrome.id # 0 /\ (@ \/ worn)]
  /\ Returns(o)
  /\ UNCHANGED <<dead, sessions, ctx, holder, cleaner, stopped, launched, opened, mcpVars, calls>>

----------------------------------------------------------------------------
(* cleanup_idle and the browser's own fate *)

\* A session that is idle and not locked: its pages are closed first, so its context a little later.
CleanSession(k) ==
  /\ StateLockFree /\ ~stopped
  /\ sessions[k] # 0 /\ holder[sessions[k]] = NoOp /\ ctx[sessions[k]].idle
  /\ cleaner' = sessions[k]
  /\ UNCHANGED <<chrome, dead, sessions, ctx, holder, active, stopped, launched, opened, mcpVars, op, calls>>

CleanContext ==
  /\ cleaner # 0 /\ cleaner' = 0
  /\ ctx' = [ctx EXCEPT ![cleaner] = Shut(@)]
  /\ sessions' = [k \in Key |-> IF sessions[k] = cleaner THEN 0 ELSE sessions[k]]
  /\ UNCHANGED <<chrome, dead, holder, active, stopped, launched, opened, mcpVars, op, calls>>

\* The end of cleanup_idle: nobody counted, and worn out, or idle without sessions.
CleanBrowser ==
  /\ StateLockFree /\ ~stopped /\ chrome.id # 0 /\ active = 0
  /\ chrome.worn \/ \A k \in Key : sessions[k] = 0
  /\ chrome' = NoChrome /\ sessions' = [k \in Key |-> 0] /\ ctx' = AllClosed
  /\ UNCHANGED <<dead, holder, active, cleaner, stopped, launched, opened, mcpVars, op, calls>>

\* stop, at shutdown: whoever uses the browser.
StopBrowser ==
  /\ StateLockFree /\ ~stopped /\ stopped' = TRUE
  /\ chrome' = NoChrome /\ sessions' = [k \in Key |-> 0] /\ ctx' = AllClosed
  /\ UNCHANGED <<dead, holder, active, cleaner, launched, opened, mcpVars, op, calls>>

\* Chromium dies, or has lived long enough; a context has not been used for long.
ChromiumDies ==
  /\ Attached /\ dead' = dead \cup {chrome.id}
  /\ UNCHANGED <<chrome, sessions, ctx, holder, active, cleaner, stopped, launched, opened, mcpVars, op, calls>>

Ages(c) ==
  /\ ctx[c].open /\ ~ctx[c].idle /\ ctx' = [ctx EXCEPT ![c].idle = TRUE]
  /\ UNCHANGED <<chrome, dead, sessions, holder, active, cleaner, stopped, launched, opened, mcpVars, op, calls>>

----------------------------------------------------------------------------
(* Tools of a remote MCP server *)

\* discover: from the cache while it is fresh, else the server is asked.
Discover(o) ==
  /\ op[o].pc = "idle" /\ calls < MaxCalls /\ calls' = calls + 1 /\ allowed
  /\ IF offer.fresh
     THEN known' = [known EXCEPT ![o] = offer.version] /\ UNCHANGED op
     ELSE Becomes(o, [Resting EXCEPT !.pc = "list", !.kind = "discover", !.from = remote]) /\ UNCHANGED known
  /\ UNCHANGED <<browserVars, remote, offer, allowed>>

\* invoke, with the fingerprint of an earlier discovery.
Invoke(o) ==
  /\ op[o].pc = "idle" /\ calls < MaxCalls /\ calls' = calls + 1 /\ known[o] # 0
  /\ Becomes(o, [Resting EXCEPT !.pc = "list", !.kind = "invoke", !.from = remote])
  /\ UNCHANGED <<browserVars, mcpVars>>

\* list_tools: what the server publishes when it answers.
Lists(o) ==
  /\ op[o].pc = "list" /\ Becomes(o, [op[o] EXCEPT !.pc = "listed", !.listed = remote])
  /\ UNCHANGED <<browserVars, mcpVars, calls>>

ListFails(o) == op[o].pc = "list" /\ Returns(o) /\ UNCHANGED <<browserVars, mcpVars, calls>>

\* _catalog_for: an invocation always takes the answer it just got.
Entry(o) == op[o].listed

\* _catalog_entry: a tool with a name or a schema the gateway refuses is not there.
Presentable == BOOLEAN

\* The answer is kept, whatever was kept meanwhile; a discovery ends with it, and an invocation
\* goes on only with the fingerprint it was given and in a scope that still holds.
TakeCatalog(o) ==
  /\ op[o].pc = "listed"
  /\ \E there \in Presentable :
       /\ offer' = [version |-> IF there THEN op[o].listed ELSE 0, fresh |-> TRUE]
       /\ IF op[o].kind = "discover"
          THEN known' = [known EXCEPT ![o] = offer'.version] /\ Returns(o)
          ELSE /\ UNCHANGED known
               /\ IF there /\ Entry(o) = known[o] /\ allowed
                  THEN Becomes(o, [op[o] EXCEPT !.pc = "call"]) ELSE Returns(o)
  /\ UNCHANGED <<browserVars, remote, allowed, calls>>

\* call_tool, once: an error or an outcome nobody knows ends the call, and an answer is made a
\* result, its image delivered to the room first.
CallRemote(o) ==
  /\ op[o].pc = "call"
  /\ Returns(o) \/ Becomes(o, [op[o] EXCEPT !.pc = "result"])
  /\ UNCHANGED <<browserVars, mcpVars, calls>>

NormalizeResult(o) == op[o].pc = "result" /\ Returns(o) /\ UNCHANGED <<browserVars, mcpVars, calls>>

\* The server publishes another schema, the cache runs out, the deployment changes its tools.
RemoteChanges ==
  /\ \/ remote < MaxVersion /\ remote' = remote + 1 /\ UNCHANGED <<offer, allowed>>
     \/ offer.fresh /\ offer' = [offer EXCEPT !.fresh = FALSE] /\ UNCHANGED <<remote, allowed>>
     \/ allowed' = ~allowed /\ UNCHANGED <<remote, offer>>
  /\ UNCHANGED <<browserVars, known, op, calls>>

----------------------------------------------------------------------------
BrowserStep ==
  \/ \E o \in Op :
       \/ \E kind \in BrowserKinds \cup PlainKinds, k \in Key : CallTool(o, kind, k)
       \/ PlainAnswer(o) \/ PlainRedirect(o) \/ PlainAgain(o) \/ PlainFallsBack(o)
       \/ TakePermit(o) \/ EnsureSession(o) \/ Count(o) \/ WakeUp(o) \/ PageRead(o)
       \/ NextEngine(o) \/ PageFailed(o)
       \/ EnsureCollection(o) \/ CollectionRead(o) \/ Leave(o)
  \/ \E k \in Key : CleanSession(k)
  \/ CleanContext \/ CleanBrowser \/ StopBrowser \/ ChromiumDies
  \/ \E c \in Ctx : Ages(c)

McpStep ==
  \/ \E o \in Op : Discover(o) \/ Invoke(o) \/ Lists(o) \/ ListFails(o) \/ TakeCatalog(o) \/ CallRemote(o)
                   \/ NormalizeResult(o)
  \/ RemoteChanges

OutsideNext == BrowserStep \/ McpStep

OutsideSpec == OutsideInit /\ [][OutsideNext]_outsideVars

----------------------------------------------------------------------------
Using(o) == op[o].pc = "use"

\* What shared tools keep apart and up to date.  Two calls never use one browser context at the
\* same time, and everybody who is past _page_for's counter is counted once; a context or a browser
\* found in order by a call that did not have to queue for its session stays so until the call
\* leaves it, unless Chromium dies or the runtime is stopped: neither cleanup_idle nor the
\* replacement of a worn browser takes it away (BrowserCapabilityManager).  And a remote MCP tool
\* is called only with a schema the server published after the invocation began, however stale
\* the cached catalog is (McpGateway.invoke).
OutsideKept ==
  /\ active = Cardinality({o \in Op : op[o].pc \in {"wait", "use", "leave"}})
  /\ \A o, p \in Op : o # p /\ Using(o) /\ Using(p) => op[o].ctx = 0 \/ op[o].ctx # op[p].ctx
  /\ \A o \in Op :
       Using(o) /\ op[o].sound /\ ~op[o].waited /\ ~stopped =>
         IF op[o].kind = "collect" THEN op[o].from \in dead \cup {chrome.id}
         ELSE ctx[op[o].ctx].open \/ ctx[op[o].ctx].chrome \in dead
  /\ \A o \in Op : op[o].pc \in {"call", "result"} => known[o] >= op[o].from
=============================================================================
