-------------------------- MODULE ClusterViewProofs --------------------------
(***************************************************************************)
(* The order and the freshness of the controller's view, for any number of *)
(* nodes, with names of their own or not, and any timing that satisfies    *)
(* ClusterAssumption.                                                      *)
(***************************************************************************)
EXTENDS ClusterView, TLAPS

Pending == requests \cup {x.request : x \in handlers}

(* An agent waits for one request at a time.                               *)
Single ==
    /\ \A q, r \in requests : q.node = r.node /\ q.awaited /\ r.awaited => q = r
    /\ \A x, y \in handlers :
          x.request.node = y.request.node /\ x.request.awaited /\ y.request.awaited => x = y
    /\ \A q \in requests, x \in handlers :
          q.node = x.request.node => ~ (q.awaited /\ x.request.awaited)

(* An agent waits no longer than PostTimeout.                              *)
Waits == \A n \in Nodes : agent[n] \in {"posting", "answered"} => since[n] =< PostTimeout

(* The entry of a node that was heard arrived no earlier than its agent's  *)
(* last answered report, give or take a late handler.                      *)
Timely ==
    \A n \in Nodes : heard[n] =>
        /\ agent[n] # "down" /\ nodes[Key(n)] # None
        /\ nodes[Key(n)].age =< HandlerTime + since[n]
                                 + (IF agent[n] = "posting" THEN ReadInterval ELSE 0)

IInv == TypeOK /\ Single /\ Waits /\ Timely

LEMMA KeyInKeys == \A n \in Nodes : Key(n) \in Keys
BY DEF Keys

(* Ageing keeps what a request or a snapshot is.                           *)
LEMMA OlderRequest ==
    ASSUME NEW n \in Nodes, NEW r \in Requests
    PROVE  /\ Older(n, r) \in Requests
           /\ Older(n, r).node = r.node /\ Older(n, r).awaited = r.awaited
           /\ r.node # n => Older(n, r) = r
BY ClusterAssumption DEF Older, Requests

LEMMA OlderSnapshot ==
    ASSUME NEW n \in Nodes, NEW s \in Snapshots
    PROVE  Older(n, s) \in Snapshots
BY ClusterAssumption DEF Older, Snapshots

LEMMA AbandonedRequest ==
    ASSUME NEW n \in Nodes, NEW r \in Requests
    PROVE  /\ Abandoned(n, r) \in Requests
           /\ Abandoned(n, r).node = r.node /\ Abandoned(n, r).lag = r.lag
           /\ Abandoned(n, r).awaited => r.awaited /\ r.node # n /\ Abandoned(n, r) = r
BY DEF Abandoned, Requests

(* What giving up leaves under way.                                        *)
LEMMA AbandonKeeps ==
    ASSUME TypeOK, NEW n \in Nodes, Abandon(n)
    PROVE  /\ requests' \subseteq Requests
           /\ handlers' \subseteq [request : Requests, age : 0 .. HandlerTime]
           /\ \A r \in Pending' : r.awaited => agent[r.node] = "posting" /\ r.lag = 0 /\ r.node # n
           /\ \A r \in requests' : r.awaited => r \in requests
           /\ \A y \in handlers' : y.request.awaited => y \in handlers
<1>1. PICK lost \in SUBSET {r \in requests : r.node = n} :
        requests' = {Abandoned(n, r) : r \in requests \ lost}
  BY DEF Abandon
<1>2. handlers' = {[x EXCEPT !.request = Abandoned(n, @)] : x \in handlers}
  BY DEF Abandon
<1>3. \A r \in Pending : r \in Requests /\ (r.awaited => agent[r.node] = "posting" /\ r.lag = 0)
  BY DEF TypeOK, Pending
<1>4. requests' \subseteq Requests
  BY <1>1, AbandonedRequest DEF TypeOK
<1>5. handlers' \subseteq [request : Requests, age : 0 .. HandlerTime]
  BY <1>2, AbandonedRequest DEF TypeOK
<1>6. \A r \in Pending' : \E q \in Pending : r = Abandoned(n, q)
  <2>1. \A r \in requests' : \E q \in requests : r = Abandoned(n, q)
    BY <1>1
  <2>2. ASSUME NEW y \in handlers'
        PROVE  \E q \in Pending : y.request = Abandoned(n, q)
    <3>1. PICK x \in handlers : y = [x EXCEPT !.request = Abandoned(n, @)]
      BY <1>2
    <3>2. x \in [request : Requests, age : 0 .. HandlerTime]
      BY DEF TypeOK
    <3>3. y.request = Abandoned(n, x.request)
      BY <3>1, <3>2
    <3>4. QED
      BY <3>3 DEF Pending
  <2>3. QED
    BY <2>1, <2>2 DEF Pending
<1>7. \A r \in Pending' : r.awaited => agent[r.node] = "posting" /\ r.lag = 0 /\ r.node # n
  <2>1. SUFFICES ASSUME NEW r \in Pending', r.awaited
                 PROVE  agent[r.node] = "posting" /\ r.lag = 0 /\ r.node # n
    OBVIOUS
  <2>2. PICK q \in Pending : r = Abandoned(n, q)
    BY <1>6
  <2>3. QED
    BY <2>1, <2>2, <1>3, AbandonedRequest
<1>8. \A r \in requests' : r.awaited => r \in requests
  BY <1>1, AbandonedRequest DEF TypeOK
<1>9. ASSUME NEW y \in handlers', y.request.awaited
      PROVE  y \in handlers
  <2>1. PICK x \in handlers : y = [x EXCEPT !.request = Abandoned(n, @)]
    BY <1>2
  <2>2. x \in [request : Requests, age : 0 .. HandlerTime]
    BY DEF TypeOK
  <2>3. y.request = Abandoned(n, x.request) /\ Abandoned(n, x.request) = x.request
    BY <1>9, <2>1, <2>2, AbandonedRequest
  <2>4. y = x
    BY <2>1, <2>2, <2>3
  <2>5. QED
    BY <2>4
<1>10. QED
  BY <1>4, <1>5, <1>7, <1>8, <1>9

(* What a post leaves under way, when its agent was not waiting.           *)
LEMMA PostKeeps ==
    ASSUME TypeOK, NEW n \in Nodes, NEW healthy \in BOOLEAN, Post(n, healthy),
           agent[n] # "posting", agent' = [agent EXCEPT ![n] = "posting"]
    PROVE  /\ requests' \subseteq Requests
           /\ handlers' \subseteq [request : Requests, age : 0 .. HandlerTime]
           /\ nodes' \in [Keys -> Entries \cup {None}]
           /\ \A r \in Pending' : r.awaited => agent'[r.node] = "posting" /\ r.lag = 0
           /\ \A k \in Keys : nodes[k] # None => nodes'[k] # None /\ nodes'[k].age = nodes[k].age
           /\ \A r \in requests' : r.awaited /\ r.node # n => r \in requests
           /\ \A q, r \in requests' : q.awaited /\ r.awaited /\ q.node = n /\ r.node = n => q = r
           /\ \A y \in handlers' : y.request.awaited => y \in handlers /\ y.request.node # n
<1> DEFINE new == [node |-> n, healthy |-> healthy, lag |-> 0, awaited |-> TRUE]
<1>1. requests' = {Older(n, r) : r \in requests} \cup {new}
  BY DEF Post
<1>2. handlers' = {[x EXCEPT !.request = Older(n, @)] : x \in handlers}
  BY DEF Post
<1>3. \A r \in Pending : r \in Requests /\ (r.awaited => agent[r.node] = "posting" /\ r.lag = 0)
  BY DEF TypeOK, Pending
<1>4. new \in Requests /\ new.node = n /\ new.lag = 0
  BY ClusterAssumption DEF Requests
<1> HIDE DEF new
<1>5. requests' \subseteq Requests
  <2>1. \A r \in requests : Older(n, r) \in Requests
    BY OlderRequest DEF TypeOK
  <2>2. QED
    BY <1>1, <1>4, <2>1
<1>6. handlers' \subseteq [request : Requests, age : 0 .. HandlerTime]
  BY <1>2, OlderRequest DEF TypeOK
<1>7. \A r \in Pending' : r = new \/ \E q \in Pending : r = Older(n, q)
  <2>1. \A r \in requests' : r = new \/ \E q \in requests : r = Older(n, q)
    BY <1>1
  <2>2. ASSUME NEW y \in handlers'
        PROVE  \E q \in Pending : y.request = Older(n, q)
    <3>1. PICK x \in handlers : y = [x EXCEPT !.request = Older(n, @)]
      BY <1>2
    <3>2. x \in [request : Requests, age : 0 .. HandlerTime]
      BY DEF TypeOK
    <3>3. y.request = Older(n, x.request)
      BY <3>1, <3>2
    <3>4. QED
      BY <3>3 DEF Pending
  <2>3. QED
    BY <2>1, <2>2 DEF Pending
<1>8. \A r \in Pending' : r.awaited => agent'[r.node] = "posting" /\ r.lag = 0
  <2>1. SUFFICES ASSUME NEW r \in Pending', r.awaited
                 PROVE  agent'[r.node] = "posting" /\ r.lag = 0
    OBVIOUS
  <2>2. agent \in [Nodes -> {"down", "idle", "posting", "answered"}]
    BY DEF TypeOK
  <2>3. CASE r = new
    BY <2>2, <2>3, <1>4
  <2>4. CASE r # new
    <3>1. PICK q \in Pending : r = Older(n, q)
      BY <2>4, <1>7
    <3>2. q \in Requests /\ q.awaited
      BY <3>1, <2>1, <1>3, OlderRequest
    <3>3. q.node # n /\ q.node \in Nodes
      BY <3>2, <1>3 DEF Requests
    <3>4. r = q
      BY <3>1, <3>2, <3>3, OlderRequest
    <3>5. QED
      BY <3>2, <3>3, <3>4, <1>3, <2>2
  <2>5. QED
    BY <2>3, <2>4
<1>9. /\ nodes' \in [Keys -> Entries \cup {None}]
      /\ \A k \in Keys : nodes[k] # None => nodes'[k] # None /\ nodes'[k].age = nodes[k].age
  <2>1. nodes' = [k \in Keys |-> IF nodes[k] = None THEN None
                                ELSE [nodes[k] EXCEPT !.snapshot = Older(n, @)]]
    BY DEF Post
  <2>2. ASSUME NEW k \in Keys, nodes[k] # None
        PROVE  nodes'[k] \in Entries /\ nodes'[k].age = nodes[k].age
    <3>1. nodes[k] \in Entries
      BY <2>2 DEF TypeOK
    <3>2. Older(n, nodes[k].snapshot) \in Snapshots
      BY <3>1, OlderSnapshot DEF Entries
    <3>3. nodes'[k] = [nodes[k] EXCEPT !.snapshot = Older(n, nodes[k].snapshot)]
      BY <2>1, <2>2
    <3>4. QED
      BY <3>1, <3>2, <3>3 DEF Entries
  <2>3. ASSUME NEW k \in Keys
        PROVE  nodes'[k] \in Entries \cup {None}
    BY <2>1, <2>2, <2>3
  <2>4. QED
    BY <2>1, <2>2, <2>3, NoneAssumption
<1>10. \A q \in Pending : q.awaited => q.node # n /\ Older(n, q) = q
  BY <1>3, OlderRequest
<1>11. \A r \in requests' : r.awaited => r = new \/ (r \in requests /\ r.node # n)
  <2>1. \A q \in requests : q \in Pending /\ q \in Requests
    BY <1>3 DEF Pending
  <2>2. \A q \in requests : Older(n, q).awaited => q.awaited
    BY <2>1, OlderRequest
  <2>3. ASSUME NEW r \in requests', r.awaited, r # new
        PROVE  r \in requests /\ r.node # n
    <3>1. PICK q \in requests : r = Older(n, q)
      BY <1>1, <2>3
    <3>2. q \in Pending /\ q.awaited
      BY <2>1, <2>2, <2>3, <3>1
    <3>3. QED
      BY <1>10, <3>1, <3>2
  <2>4. QED
    BY <2>3
<1>12. ASSUME NEW y \in handlers', y.request.awaited
       PROVE  y \in handlers /\ y.request.node # n
  <2>1. PICK x \in handlers : y = [x EXCEPT !.request = Older(n, @)]
    BY <1>2
  <2>2. x \in [request : Requests, age : 0 .. HandlerTime] /\ x.request \in Pending
    BY DEF TypeOK, Pending
  <2>3. y.request = Older(n, x.request)
    BY <2>1, <2>2
  <2>4. x.request.awaited
    BY <1>12, <2>2, <2>3, OlderRequest
  <2>5. Older(n, x.request) = x.request /\ x.request.node # n
    BY <1>10, <2>2, <2>4
  <2>6. y = x
    BY <2>1, <2>2, <2>3, <2>5
  <2>7. QED
    BY <2>5, <2>6
<1>13. QED
  BY <1>4, <1>5, <1>6, <1>8, <1>9, <1>11, <1>12

(* IInv is kept by every step.                                             *)
LEMMA StepKeeps ==
    ASSUME IInv, [Next]_vars
    PROVE  IInv'
<1> USE ClusterAssumption, KeyInKeys
<1>0. /\ TypeOK /\ agent \in [Nodes -> {"down", "idle", "posting", "answered"}]
      /\ since \in [Nodes -> 0 .. ReadInterval] /\ heard \in [Nodes -> BOOLEAN]
      /\ nodes \in [Keys -> Entries \cup {None}]
      /\ \A r \in Pending : r.awaited => agent[r.node] = "posting" /\ r.lag = 0
      /\ \A n \in Nodes : nodes[Key(n)] # None => nodes[Key(n)].age \in Nat
  BY DEF IInv, TypeOK, Pending, Entries, Ages
<1>1. ASSUME NEW n \in Nodes, NEW healthy \in BOOLEAN, Report(n, healthy)
      PROVE  IInv'
  <2>1. /\ requests' \subseteq Requests
        /\ handlers' \subseteq [request : Requests, age : 0 .. HandlerTime]
        /\ nodes' \in [Keys -> Entries \cup {None}]
        /\ \A r \in Pending' : r.awaited => agent'[r.node] = "posting" /\ r.lag = 0
        /\ \A k \in Keys : nodes[k] # None => nodes'[k] # None /\ nodes'[k].age = nodes[k].age
        /\ \A r \in requests' : r.awaited /\ r.node # n => r \in requests
        /\ \A q, r \in requests' : q.awaited /\ r.awaited /\ q.node = n /\ r.node = n => q = r
        /\ \A y \in handlers' : y.request.awaited => y \in handlers /\ y.request.node # n
    BY <1>0, <1>1, PostKeeps DEF Report
  <2>2. TypeOK'
    BY <1>1, <2>1 DEF IInv, TypeOK, Report, Pending
  <2>3. Waits'
    BY <1>0, <1>1 DEF IInv, Waits, Report
  <2>4. Timely'
    BY <1>0, <1>1, <2>1 DEF IInv, Timely, Report
  <2>5. Single'
    BY <2>1 DEF IInv, Single
  <2>6. QED
    BY <2>2, <2>3, <2>4, <2>5 DEF IInv
<1>2. ASSUME NEW n \in Nodes, ReadError(n)
      PROVE  IInv'
  BY <1>2 DEF IInv, TypeOK, Single, Waits, Timely, ReadError
<1>3. ASSUME NEW n \in Nodes, Answer(n)
      PROVE  IInv'
  <2>1. TypeOK'
    BY <1>0, <1>3 DEF TypeOK, Answer
  <2>2. Single' /\ Waits' /\ Timely'
    BY <1>0, <1>3 DEF IInv, Single, Waits, Timely, Answer
  <2>3. QED
    BY <2>1, <2>2 DEF IInv
<1>4. ASSUME NEW n \in Nodes, GiveUp(n) \/ AgentStops(n)
      PROVE  IInv'
  <2>1. /\ requests' \subseteq Requests
        /\ handlers' \subseteq [request : Requests, age : 0 .. HandlerTime]
        /\ \A r \in Pending' : r.awaited => agent[r.node] = "posting" /\ r.lag = 0 /\ r.node # n
        /\ \A r \in requests' : r.awaited => r \in requests
        /\ \A y \in handlers' : y.request.awaited => y \in handlers
    BY <1>0, <1>4, AbandonKeeps DEF GiveUp, AgentStops
  <2>2. \A r \in Pending' : r.awaited => agent'[r.node] = "posting" /\ r.lag = 0
    <3>1. \A r \in Pending' : r.node \in Nodes
      BY <2>1 DEF Pending, Requests
    <3>2. \A m \in Nodes : m # n => agent'[m] = agent[m]
      BY <1>0, <1>4 DEF GiveUp, AgentStops
    <3>3. QED
      BY <2>1, <3>1, <3>2
  <2>3. TypeOK'
    <3>1. /\ agent' \in [Nodes -> {"down", "idle", "posting", "answered"}]
          /\ since' \in [Nodes -> 0 .. ReadInterval] /\ heard' \in [Nodes -> BOOLEAN]
          /\ nodes' = nodes /\ up' = up
      <4>1. CASE GiveUp(n)
        BY <1>0, <4>1 DEF GiveUp
      <4>2. CASE AgentStops(n)
        BY <1>0, <4>2 DEF AgentStops
      <4>3. QED
        BY <1>4, <4>1, <4>2
    <3>2. store' \in [Nodes -> BOOLEAN \cup {None}]
      BY <1>0, <1>4 DEF TypeOK, GiveUp, AgentStops
    <3>3. QED
      BY <1>0, <2>1, <2>2, <3>1, <3>2 DEF TypeOK, Pending
  <2>4. Waits' /\ Timely'
    BY <1>0, <1>4 DEF IInv, Waits, Timely, GiveUp, AgentStops
  <2>5. Single'
    BY <2>1 DEF IInv, Single
  <2>6. QED
    BY <2>3, <2>4, <2>5 DEF IInv
<1>5. ASSUME NEW n \in Nodes, AgentStarts(n)
      PROVE  IInv'
  <2>0. \A r \in Pending' : r.awaited => agent'[r.node] = "posting" /\ r.lag = 0
    <3>1. \A r \in Pending : r.node \in Nodes
      BY <1>0 DEF TypeOK, Pending, Requests
    <3>2. Pending' = Pending /\ \A m \in Nodes : agent[m] = "posting" => agent'[m] = agent[m]
      BY <1>0, <1>5 DEF Pending, AgentStarts
    <3>3. QED
      BY <1>0, <3>1, <3>2
  <2>1. TypeOK'
    BY <1>0, <1>5, <2>0 DEF TypeOK, Pending, AgentStarts
  <2>2. Single' /\ Waits' /\ Timely'
    BY <1>0, <1>5 DEF IInv, Single, Waits, Timely, AgentStarts
  <2>3. QED
    BY <2>1, <2>2 DEF IInv
<1>6. ASSUME NEW r \in requests, HandleReport(r)
      PROVE  IInv'
  <2>1. handlers' \subseteq [request : Requests, age : 0 .. HandlerTime]
    BY <1>6 DEF IInv, TypeOK, HandleReport
  <2>2. Pending' \subseteq Pending
    BY <1>6 DEF Pending, HandleReport
  <2>3. TypeOK'
    BY <1>0, <1>6, <2>1, <2>2 DEF TypeOK, Pending, HandleReport
  <2>4. Waits' /\ Timely'
    BY <1>6 DEF IInv, Waits, Timely, HandleReport
  <2>5. Single'
    <3> DEFINE x == [request |-> r, age |-> 0]
    <3>1. x.request = r /\ requests' = requests \ {r} /\ handlers' = handlers \cup {x}
      BY <1>6 DEF HandleReport
    <3> HIDE DEF x
    <3>2. QED
      BY <3>1 DEF IInv, Single
  <2>6. QED
    BY <2>3, <2>4, <2>5 DEF IInv
<1>7. ASSUME NEW r \in requests, Lose(r)
      PROVE  IInv'
  BY <1>7 DEF IInv, TypeOK, Single, Waits, Timely, Lose
<1>8. ASSUME NEW x \in handlers, Ingest(x)
      PROVE  IInv'
  <2> DEFINE r == x.request
             n == r.node
             entry == [snapshot |-> [node |-> n, healthy |-> r.healthy, lag |-> r.lag],
                       age |-> x.age]
  <2>1. /\ n \in Nodes /\ r \in Requests /\ r \in Pending /\ x.age \in 0 .. HandlerTime
        /\ r.awaited \in BOOLEAN
    BY <1>0 DEF TypeOK, Requests, Pending
  <2>2. entry \in Entries /\ entry # None /\ entry.age = x.age
    BY <2>1, NoneAssumption DEF Entries, Snapshots, Requests, Ages
  <2>3. /\ nodes' = [nodes EXCEPT ![Key(n)] = entry] /\ handlers' = handlers \ {x}
        /\ agent' = [agent EXCEPT ![n] = IF r.awaited THEN "answered" ELSE @]
        /\ heard' = [heard EXCEPT ![n] = @ \/ r.awaited]
        /\ UNCHANGED <<since, store, requests, up>>
    BY <1>8 DEF Ingest
  <2> HIDE DEF entry, r, n
  <2>4. nodes' \in [Keys -> Entries \cup {None}]
    BY <1>0, <2>1, <2>2, <2>3
  <2>5. heard' \in [Nodes -> BOOLEAN] /\ agent' \in [Nodes -> {"down", "idle", "posting", "answered"}]
    BY <1>0, <2>1, <2>3
  <2>6. \A q \in Pending' : q.awaited => agent'[q.node] = "posting" /\ q.lag = 0
    <3>1. SUFFICES ASSUME NEW q \in Pending', q.awaited
                   PROVE  agent'[q.node] = "posting" /\ q.lag = 0
      OBVIOUS
    <3>2. q \in Pending /\ q.node \in Nodes
      BY <1>0, <2>3 DEF Pending, TypeOK, Requests
    <3>3. ~ (q.node = n /\ r.awaited)
      BY <2>3, <3>1 DEF IInv, Single, Pending, r, n
    <3>4. QED
      BY <1>0, <2>1, <2>3, <3>1, <3>2, <3>3
  <2>7. TypeOK'
    BY <1>0, <2>3, <2>4, <2>5, <2>6 DEF TypeOK, Pending
  <2>8. r.awaited => agent[n] = "posting"
    BY <1>0, <2>1 DEF n
  <2>9. Waits' /\ Single'
    BY <1>0, <2>1, <2>3, <2>8 DEF IInv, Waits, Single
  <2>10. Timely'
    <3>1. SUFFICES ASSUME NEW m \in Nodes, heard'[m]
                   PROVE  /\ agent'[m] # "down" /\ nodes'[Key(m)] # None
                          /\ nodes'[Key(m)].age =< HandlerTime + since[m]
                               + (IF agent'[m] = "posting" THEN ReadInterval ELSE 0)
      BY <2>3 DEF Timely
    <3>2. agent'[m] # "down"
      BY <1>0, <2>1, <2>3, <2>8, <3>1 DEF IInv, Timely
    <3>3. CASE Key(m) = Key(n)
      <4>1. nodes'[Key(m)] = entry
        BY <1>0, <2>1, <2>3, <3>3
      <4>2. QED
        BY <1>0, <2>1, <2>2, <3>2, <4>1
    <3>4. CASE Key(m) # Key(n)
      <4>1. m # n
        BY <3>4
      <4>2. nodes'[Key(m)] = nodes[Key(m)] /\ heard[m] /\ agent'[m] = agent[m]
        BY <1>0, <2>1, <2>3, <3>1, <3>4, <4>1
      <4>3. QED
        BY <3>2, <4>2 DEF IInv, Timely
    <3>5. QED
      BY <3>3, <3>4
  <2>11. QED
    BY <2>7, <2>9, <2>10 DEF IInv
<1>9. ASSUME ControllerStops
      PROVE  IInv'
  BY <1>0, <1>9 DEF IInv, TypeOK, Single, Waits, Timely, ControllerStops
<1>10. ASSUME ControllerStarts
       PROVE  IInv'
  BY <1>10 DEF IInv, TypeOK, Single, Waits, Timely, ControllerStarts
<1>11. ASSUME Tick
       PROVE  IInv'
  <2>1. \A k \in Keys : /\ nodes[k] = None => nodes'[k] = None
                        /\ nodes[k] # None => nodes'[k] \in Entries /\ nodes'[k].age =< nodes[k].age + 1
    <3>1. SUFFICES ASSUME NEW k \in Keys, nodes[k] # None
                   PROVE  nodes'[k] \in Entries /\ nodes'[k].age =< nodes[k].age + 1
      BY <1>11 DEF Tick
    <3>2. nodes[k] \in Entries /\ nodes'[k] = [nodes[k] EXCEPT !.age = Aged(nodes[k].age)]
      BY <1>0, <1>11, <3>1 DEF Tick
    <3>3. Aged(nodes[k].age) \in Ages /\ Aged(nodes[k].age) =< nodes[k].age + 1
      BY <3>2 DEF Entries, Ages, Aged
    <3>4. QED
      BY <3>2, <3>3 DEF Entries
  <2>2. nodes' \in [Keys -> Entries \cup {None}]
    BY <1>11, <2>1 DEF Tick
  <2>3. /\ handlers' \subseteq [request : Requests, age : 0 .. HandlerTime]
        /\ Pending' = Pending
    <3>1. handlers' = {[x EXCEPT !.age = @ + 1] : x \in handlers} /\ requests' = requests
      BY <1>11 DEF Tick
    <3>2. \A x \in handlers : /\ x \in [request : Requests, age : 0 .. HandlerTime]
                              /\ x.age < HandlerTime
      BY <1>0, <1>11 DEF TypeOK, Tick
    <3>3. \A x \in handlers : /\ [x EXCEPT !.age = @ + 1] \in [request : Requests, age : 0 .. HandlerTime]
                              /\ [x EXCEPT !.age = @ + 1].request = x.request
      BY <3>2
    <3>4. {y.request : y \in handlers'} = {x.request : x \in handlers}
      <4>1. \A y \in handlers' : \E x \in handlers : y.request = x.request
        BY <3>1, <3>3
      <4>2. \A x \in handlers : \E y \in handlers' : y.request = x.request
        BY <3>1, <3>3
      <4>3. QED
        BY <4>1, <4>2
    <3>5. QED
      BY <3>1, <3>3, <3>4 DEF Pending
  <2>4. since' \in [Nodes -> 0 .. ReadInterval] /\ Waits'
    BY <1>0, <1>11 DEF IInv, Waits, Tick
  <2>5. TypeOK'
    BY <1>0, <1>11, <2>2, <2>3, <2>4 DEF TypeOK, Pending, Tick
  <2>6. Timely'
    <3>1. SUFFICES ASSUME NEW n \in Nodes, heard'[n]
                   PROVE  /\ agent'[n] # "down" /\ nodes'[Key(n)] # None
                          /\ nodes'[Key(n)].age =< HandlerTime + since'[n]
                               + (IF agent'[n] = "posting" THEN ReadInterval ELSE 0)
      BY DEF Timely
    <3>2. /\ agent[n] # "down" /\ nodes[Key(n)] # None
          /\ nodes[Key(n)].age =< HandlerTime + since[n]
               + (IF agent[n] = "posting" THEN ReadInterval ELSE 0)
      BY <1>11, <3>1 DEF IInv, Timely, Tick
    <3>3. since'[n] = since[n] + 1 /\ agent'[n] = agent[n] /\ since[n] \in Nat
      BY <1>0, <1>11, <3>2 DEF Tick
    <3>4. /\ nodes'[Key(n)] \in Entries /\ nodes'[Key(n)].age =< nodes[Key(n)].age + 1
          /\ nodes[Key(n)].age \in Nat /\ nodes'[Key(n)].age \in Nat
      BY <1>0, <2>1, <3>2 DEF Entries, Ages
    <3>5. QED
      BY <3>2, <3>3, <3>4, NoneAssumption
  <2>7. Single'
    <3>1. handlers' = {[x EXCEPT !.age = @ + 1] : x \in handlers} /\ requests' = requests
      BY <1>11 DEF Tick
    <3>2. \A x \in handlers : [x EXCEPT !.age = @ + 1].request = x.request
      BY <1>0 DEF TypeOK
    <3>3. \A y \in handlers' : \E x \in handlers : y = [x EXCEPT !.age = @ + 1] /\ y.request = x.request
      BY <3>1, <3>2
    <3>4. QED
      BY <3>1, <3>3 DEF IInv, Single
  <2>8. QED
    BY <2>4, <2>5, <2>6, <2>7 DEF IInv
<1>12. ASSUME UNCHANGED vars
       PROVE  IInv'
  BY <1>12 DEF IInv, TypeOK, Single, Waits, Timely, vars
<1>13. QED
  BY <1>1, <1>2, <1>3, <1>4, <1>5, <1>6, <1>7, <1>8, <1>9, <1>10, <1>11, <1>12 DEF Next

(* IInv bounds the age of a heard node's entry by StaleAfter.              *)
LEMMA TimelyIsFresh ==
    ASSUME IInv
    PROVE  HeardNotStale
<1>1. SUFFICES ASSUME NEW n \in Nodes, heard[n]
               PROVE  Status(Key(n)) \in {"healthy", "contended"}
  BY DEF HeardNotStale
<1>2. /\ nodes[Key(n)] # None
      /\ nodes[Key(n)].age =< HandlerTime + since[n]
           + (IF agent[n] = "posting" THEN ReadInterval ELSE 0)
      /\ agent[n] = "posting" => since[n] =< PostTimeout
  BY <1>1 DEF IInv, Timely, Waits
<1>3. since[n] \in 0 .. ReadInterval /\ nodes[Key(n)] \in Entries
  BY <1>2, KeyInKeys DEF IInv, TypeOK
<1>4. nodes[Key(n)].age =< StaleAfter
  BY <1>2, <1>3, ClusterAssumption DEF Entries, Ages
<1>5. ~ (nodes[Key(n)].age > StaleAfter)
  BY <1>3, <1>4, ClusterAssumption DEF Entries, Ages
<1>6. QED
  BY <1>2, <1>5 DEF Status

(* The invariant above holds throughout.                                   *)
LEMMA Invariance == Spec => []IInv
<1>1. Init => IInv
  BY ClusterAssumption DEF Init, IInv, TypeOK, Single, Waits, Timely, Keys
<1>2. IInv /\ [Next]_vars => IInv'
  BY StepKeeps
<1>3. QED
  BY <1>1, <1>2, PTL DEF Spec

(* Types hold throughout; whatever the controller does, an agent only      *)
(* waits for its newest snapshot (Run's loop, reportToController).         *)
THEOREM TypeCorrect == Spec => []TypeOK
<1>1. IInv => TypeOK
  BY DEF IInv
<1>2. QED
  BY <1>1, Invariance, PTL

(* No false DataGap, whatever the number of nodes and whoever shares a     *)
(* name: logCluster never counts as stale a node whose last report was     *)
(* stored while its agent was waiting.                                     *)
THEOREM NoFalseDataGap == Spec => []HeardNotStale
BY Invariance, TimelyIsFresh, PTL

(* reportToController's waiting keeps ingest in order: only a request its  *)
(* agent has given up on replaces an entry by an older snapshot.           *)
THEOREM OrderKept == Spec => OrderedWhileAwaited
<1>1. ASSUME IInv, NEW x \in handlers, x.request.awaited,
             nodes[Key(x.request.node)] # None
      PROVE  ~ (x.request.lag > nodes[Key(x.request.node)].snapshot.lag)
  <2>1. x.request \in Requests /\ x.request.lag = 0
    BY <1>1 DEF IInv, TypeOK
  <2>2. nodes[Key(x.request.node)] \in Entries
    BY <1>1, <2>1, KeyInKeys DEF IInv, TypeOK, Requests
  <2>3. nodes[Key(x.request.node)].snapshot.lag \in Nat
    BY <2>2, ClusterAssumption DEF Entries, Snapshots
  <2>4. QED
    BY <2>1, <2>3
<1>2. IInv /\ [Next]_vars => [\A x \in handlers :
         LET k == Key(x.request.node)
         IN  /\ handlers' = handlers \ {x}
             /\ nodes[k] # None /\ nodes'[k] # nodes[k]
             /\ nodes[k].snapshot.node = x.request.node
             /\ x.request.lag > nodes[k].snapshot.lag
             => ~ x.request.awaited]_vars
  BY <1>1
<1>3. QED
  BY <1>2, Invariance, PTL DEF Spec, OrderedWhileAwaited
=============================================================================
