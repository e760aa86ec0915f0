----------------------------- MODULE ClusterView -----------------------------
(***************************************************************************)
(* How a node's judgement reaches the people who look at it: each agent    *)
(* publishes its snapshot to its own store (internal/server) and posts it  *)
(* to the controller, which keeps one entry per node name                  *)
(* (internal/controller/controller.go).                                    *)
(*                                                                         *)
(* A snapshot is what it says of the node's health. Neither snapshots nor  *)
(* moments are numbered: lag counts the newer snapshots its agent has made *)
(* (up to MaxLag), age the ticks since a request was decoded (up to one    *)
(* more than StaleAfter), so that agents may report for ever.              *)
(***************************************************************************)
EXTENDS Integers, FiniteSets

CONSTANTS
    Nodes,
    NodeName,      \* the name an agent reports under; "" = none
    ReadInterval,  \* ticks from one report of an agent to the next
    PostTimeout,   \* ticks an agent waits for the controller
    HandlerTime,   \* ticks a request may wait for the controller's lock
    StaleAfter,
    MaxLag,
    MaxLate,       \* bound on an agent's abandoned requests still under way
    None

ASSUME ClusterAssumption ==
    /\ IsFiniteSet(Nodes) /\ NodeName \in [Nodes -> STRING]
    /\ ReadInterval \in Nat \ {0} /\ PostTimeout \in 1 .. ReadInterval
    /\ HandlerTime \in Nat /\ MaxLag \in Nat \ {0} /\ MaxLate \in Nat
    \* 5 s, 3 s and 30 s by default
    /\ StaleAfter \in Nat /\ ReadInterval + PostTimeout + HandlerTime =< StaleAfter

Key(n) == IF NodeName[n] = "" THEN "unknown" ELSE NodeName[n]
Keys == {Key(n) : n \in Nodes}

VARIABLES
    agent,     \* what each agent is doing: "answered" = the answer is on its way
    since,     \* ticks since its last report, or since it started
    store,     \* its Store: the health last published; None = the zero Snapshot
    requests,  \* POSTs on their way to the controller
    handlers,  \* POSTs being handled: decoded, not yet stored
    nodes,     \* the controller's map, by name
    up,        \* the controller is running
    heard      \* history: an agent's last report was stored while it was waiting

vars == <<agent, since, store, requests, handlers, nodes, up, heard>>

Snapshots == [node : Nodes, healthy : BOOLEAN, lag : 0 .. MaxLag]
Requests == [node : Nodes, healthy : BOOLEAN, lag : 0 .. MaxLag, awaited : BOOLEAN]
Ages == 0 .. StaleAfter + 1
Entries == [snapshot : Snapshots, age : Ages]

ASSUME NoneAssumption == None \notin Entries

Init ==
    /\ agent = [n \in Nodes |-> "idle"]
    /\ since = [n \in Nodes |-> 0]
    /\ store = [n \in Nodes |-> None]
    /\ requests = {} /\ handlers = {}
    /\ nodes = [k \in Keys |-> None]
    /\ up = TRUE
    /\ heard = [n \in Nodes |-> FALSE]

-----------------------------------------------------------------------------
(* The agent *)

(* One more snapshot of n has been made than when x was.                   *)
Older(n, x) == IF x.node = n /\ x.lag < MaxLag THEN [x EXCEPT !.lag = @ + 1] ELSE x

(* reportToController: the newest snapshot is sent.                        *)
Post(n, healthy) ==
    /\ requests' = {Older(n, r) : r \in requests}
                     \cup {[node |-> n, healthy |-> healthy, lag |-> 0, awaited |-> TRUE]}
    /\ handlers' = {[x EXCEPT !.request = Older(n, @)] : x \in handlers}
    /\ nodes' = [k \in Keys |-> IF nodes[k] = None THEN None
                                ELSE [nodes[k] EXCEPT !.snapshot = Older(n, @)]]

ReportForgetsStore(n, healthy) ==
    /\ agent[n] = "idle" /\ since[n] = ReadInterval
    /\ agent' = [agent EXCEPT ![n] = "posting"]
    /\ since' = [since EXCEPT ![n] = 0]
    /\ Post(n, healthy)
    /\ UNCHANGED <<store, up, heard>>

ReportWithoutWaiting(n, healthy) ==
    /\ agent[n] = "idle" /\ since[n] = ReadInterval
    /\ since' = [since EXCEPT ![n] = 0]
    /\ store' = [store EXCEPT ![n] = healthy]
    /\ Post(n, healthy)
    /\ UNCHANGED <<agent, up, heard>>

(* report: the ticker fires, the snapshot is stored and then posted.       *)
Report(n, healthy) ==
    /\ agent[n] = "idle" /\ since[n] = ReadInterval
    /\ agent' = [agent EXCEPT ![n] = "posting"]
    /\ since' = [since EXCEPT ![n] = 0]
    /\ store' = [store EXCEPT ![n] = healthy]
    /\ Post(n, healthy)
    /\ UNCHANGED <<up, heard>>

(* report: an observer cannot be read, and the interval is skipped.        *)
ReadError(n) ==
    /\ agent[n] = "idle" /\ since[n] = ReadInterval
    /\ since' = [since EXCEPT ![n] = 0]
    /\ heard' = [heard EXCEPT ![n] = FALSE]
    /\ UNCHANGED <<agent, store, requests, handlers, nodes, up>>

(* reportToController: the answer arrives.                                 *)
Answer(n) ==
    /\ agent[n] = "answered"
    /\ agent' = [agent EXCEPT ![n] = "idle"]
    /\ UNCHANGED <<since, store, requests, handlers, nodes, up, heard>>

Abandoned(n, r) == IF r.node = n THEN [r EXCEPT !.awaited = FALSE] ELSE r
Late(n, rs) == Cardinality({r \in rs : r.node = n /\ ~ r.awaited})

(* Nobody waits for n's requests any more, and any not decoded may be lost *)
(* (more than MaxLate are).                                                *)
Abandon(n) ==
    /\ \E lost \in SUBSET {r \in requests : r.node = n} :
          /\ requests' = {Abandoned(n, r) : r \in requests \ lost}
          /\ Late(n, requests') =< MaxLate
    /\ handlers' = {[x EXCEPT !.request = Abandoned(n, @)] : x \in handlers}

(* reportToController: the deadline passes or the connection fails. The    *)
(* report counts as failed, wherever the request is.                       *)
GiveUp(n) ==
    /\ agent[n] \in {"posting", "answered"} /\ Abandon(n)
    /\ agent' = [agent EXCEPT ![n] = "idle"]
    /\ heard' = [heard EXCEPT ![n] = FALSE]
    /\ UNCHANGED <<since, store, nodes, up>>

AgentStops(n) ==
    /\ agent[n] # "down" /\ Abandon(n)
    /\ agent' = [agent EXCEPT ![n] = "down"]
    /\ since' = [since EXCEPT ![n] = 0]
    /\ store' = [store EXCEPT ![n] = None]
    /\ heard' = [heard EXCEPT ![n] = FALSE]
    /\ UNCHANGED <<nodes, up>>

(* Run: a new store, and a ticker that first fires after an interval.      *)
AgentStarts(n) ==
    /\ agent[n] = "down"
    /\ agent' = [agent EXCEPT ![n] = "idle"]
    /\ UNCHANGED <<since, store, requests, handlers, nodes, up, heard>>

-----------------------------------------------------------------------------
(* The controller. Requests are handled concurrently.                      *)

(* handleReport: the body is decoded and the time taken, without the lock. *)
HandleReport(r) ==
    /\ up /\ r \in requests
    /\ requests' = requests \ {r}
    /\ handlers' = handlers \cup {[request |-> r, age |-> 0]}
    /\ UNCHANGED <<agent, since, store, nodes, up, heard>>

IngestRefreshes(x) ==
    LET r == x.request
        n == r.node
    IN  /\ x \in handlers
        /\ handlers' = handlers \ {x}
        /\ nodes' = [nodes EXCEPT ![Key(n)] =
                       [snapshot |-> IF @ = None THEN [node |-> n, healthy |-> r.healthy, lag |-> r.lag]
                                     ELSE @.snapshot,
                        age |-> x.age]]
        /\ agent' = [agent EXCEPT ![n] = IF r.awaited THEN "answered" ELSE @]
        /\ heard' = [heard EXCEPT ![n] = @ \/ r.awaited]
        /\ UNCHANGED <<since, store, requests, up>>

(* ingest: the entry is replaced. What the Remediator does next is the     *)
(* subject of Remediation.                                                 *)
Ingest(x) ==
    LET r == x.request
        n == r.node
    IN  /\ x \in handlers
        /\ handlers' = handlers \ {x}
        /\ nodes' = [nodes EXCEPT ![Key(n)] =
                       [snapshot |-> [node |-> n, healthy |-> r.healthy, lag |-> r.lag],
                        age |-> x.age]]
        /\ agent' = [agent EXCEPT ![n] = IF r.awaited THEN "answered" ELSE @]
        /\ heard' = [heard EXCEPT ![n] = @ \/ r.awaited]
        /\ UNCHANGED <<since, store, requests, up>>

(* The map is in memory, and whoever is connected is cut off.              *)
ControllerStops ==
    /\ up /\ up' = FALSE
    /\ requests' = {} /\ handlers' = {}
    /\ nodes' = [k \in Keys |-> None]
    /\ heard' = [n \in Nodes |-> FALSE]
    /\ UNCHANGED <<agent, since, store>>

ControllerStarts ==
    /\ ~ up /\ up' = TRUE
    /\ UNCHANGED <<agent, since, store, requests, handlers, nodes, heard>>

StatusHealthyFirst(k) ==
    CASE nodes[k] = None -> "unseen"
      [] nodes[k] # None /\ nodes[k].snapshot.healthy -> "healthy"
      [] OTHER -> IF nodes[k].age > StaleAfter THEN "stale" ELSE "contended"

StatusAtOnce(k) ==
    CASE nodes[k] = None -> "unseen"
      [] nodes[k] # None /\ nodes[k].age >= StaleAfter -> "stale"
      [] OTHER -> IF nodes[k].snapshot.healthy THEN "healthy" ELSE "contended"

(* logCluster: what is printed of a node.                                  *)
Status(k) ==
    CASE nodes[k] = None -> "unseen"
      [] nodes[k] # None /\ nodes[k].age > StaleAfter -> "stale"
      [] OTHER -> IF nodes[k].snapshot.healthy THEN "healthy" ELSE "contended"

-----------------------------------------------------------------------------
(* Time and the network *)

Aged(age) == IF age > StaleAfter THEN age ELSE age + 1

(* A tick passes once everything due by now has happened.                  *)
Tick ==
    /\ \A n \in Nodes : /\ agent[n] = "idle" => since[n] < ReadInterval
                        /\ agent[n] \in {"posting", "answered"} => since[n] < PostTimeout
    /\ \A x \in handlers : x.age < HandlerTime
    /\ since' = [n \in Nodes |-> IF agent[n] = "down" THEN 0 ELSE since[n] + 1]
    /\ handlers' = {[x EXCEPT !.age = @ + 1] : x \in handlers}
    /\ nodes' = [k \in Keys |-> IF nodes[k] = None THEN None
                                ELSE [nodes[k] EXCEPT !.age = Aged(@)]]
    /\ UNCHANGED <<agent, store, requests, up, heard>>

(* A request nobody waits for is lost.                                     *)
Lose(r) ==
    /\ r \in requests /\ ~ r.awaited
    /\ requests' = requests \ {r}
    /\ UNCHANGED <<agent, since, store, handlers, nodes, up, heard>>

-----------------------------------------------------------------------------
Next ==
    \/ \E n \in Nodes : \/ \E healthy \in BOOLEAN : Report(n, healthy)
                        \/ ReadError(n) \/ Answer(n) \/ GiveUp(n)
                        \/ AgentStops(n) \/ AgentStarts(n)
    \/ \E r \in requests : HandleReport(r) \/ Lose(r)
    \/ \E x \in handlers : Ingest(x)
    \/ ControllerStops \/ ControllerStarts \/ Tick

Spec == Init /\ [][Next]_vars

(* Time passes, an agent's loop goes on and its reads do not fail for      *)
(* ever, a handler gets the lock, and a request does not stay on its way.  *)
Arrive == \E r \in requests : HandleReport(r) \/ Lose(r)
Fairness ==
    /\ WF_vars(Tick)
    /\ \A n \in Nodes : /\ WF_vars(Answer(n) \/ GiveUp(n))
                        /\ SF_vars(\E healthy \in BOOLEAN : Report(n, healthy))
    /\ WF_vars(\E x \in handlers : Ingest(x))
    /\ WF_vars(Arrive)

FairSpec == Spec /\ Fairness

-----------------------------------------------------------------------------
(* Properties *)

TypeOK ==
    /\ agent \in [Nodes -> {"down", "idle", "posting", "answered"}]
    /\ since \in [Nodes -> 0 .. ReadInterval]
    /\ store \in [Nodes -> BOOLEAN \cup {None}]
    /\ requests \subseteq Requests
    /\ handlers \subseteq [request : Requests, age : 0 .. HandlerTime]
    /\ nodes \in [Keys -> Entries \cup {None}]
    /\ up \in BOOLEAN /\ heard \in [Nodes -> BOOLEAN]
    \* an agent waits for one request at a time, and only while it posts
    /\ \A r \in requests \cup {x.request : x \in handlers} :
          r.awaited => agent[r.node] = "posting" /\ r.lag = 0

(* An entry is never replaced by an older snapshot of its node, except by  *)
(* one whose agent has given up waiting for the answer (ingest compares    *)
(* nothing; it is reportToController's waiting that keeps the order).      *)
OrderedWhileAwaited ==
    [][\A x \in handlers :
         LET k == Key(x.request.node)
         IN  /\ handlers' = handlers \ {x}
             /\ nodes[k] # None /\ nodes'[k] # nodes[k]
             /\ nodes[k].snapshot.node = x.request.node
             /\ x.request.lag > nodes[k].snapshot.lag
             => ~ x.request.awaited]_vars

(* No false DataGap: a node whose last report was answered in time is      *)
(* never shown as stale, even when an older request overtook that report   *)
(* and brought its earlier arrival time with it (logCluster, ingest).      *)
HeardNotStale ==
    \A n \in Nodes : heard[n] => Status(Key(n)) \in {"healthy", "contended"}

(* No missed DataGap: a name nobody reports under any more is shown as     *)
(* stale sooner or later, late requests notwithstanding (logCluster).      *)
SilentGoesStale ==
    \A k \in Keys :
        (\A n \in Nodes : Key(n) = k => agent[n] = "down")
        ~> Status(k) \in {"stale", "unseen"} \/ \E n \in Nodes : Key(n) = k /\ agent[n] # "down"

(* An overtaken entry heals: if from some moment on all reports of a node  *)
(* with a name of its own are answered in time, its entry is in the end    *)
(* always the snapshot its own store holds, or the one before while that   *)
(* is on its way (ingest, Store.Set, reportToController).                  *)
Alone(n) == \A m \in Nodes : Key(m) = Key(n) => m = n
Current(n) ==
    /\ nodes[Key(n)] # None
    /\ IF agent[n] = "posting" THEN nodes[Key(n)].snapshot.lag = 1
       ELSE nodes[Key(n)].snapshot.lag = 0 /\ nodes[Key(n)].snapshot.healthy = store[n]
ViewHeals == \A n \in Nodes : Alone(n) /\ <>[]heard[n] => <>[]Current(n)

(* The store of an agent that keeps running holds a real snapshot sooner   *)
(* or later: what is scraped before the first interval reads as a          *)
(* contended node (Store.Get, the collector).                              *)
StoreFills == \A n \in Nodes : agent[n] # "down" ~> agent[n] = "down" \/ store[n] # None
=============================================================================
