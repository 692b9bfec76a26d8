--------------------------- MODULE SchedulerCache ---------------------------
(***************************************************************************)
(* The scheduler's view of what runs where:                                *)
(* plugin/pkg/scheduler/schedulercache/cache.go and node_info.go.  Every   *)
(* method holds the cache's lock, so each is one step.                     *)
(*                                                                         *)
(* The pods of a NodeInfo and the resources they request are one count per *)
(* pod, each pod requesting one unit.  The NodeInfo of a node exists while *)
(* the node is known or a pod is counted on it.  A nil dereference and a   *)
(* Fatalf both end the process.                                            *)
(***************************************************************************)
EXTENDS Integers, FiniteSets, Functions

CONSTANTS Pods, Nodes

VARIABLES
  podStates,     \* the states: the node of the state's pod, and bindingFinished
  assumedPods,   \* the set of assumed pods
  count,         \* how often each NodeInfo counts each pod
  hasNode,       \* the nodes whose NodeInfo has its node set
  crashed        \* the process is gone

podvars == <<podStates, assumedPods, count>>
cachevars == <<podStates, assumedPods, count, hasNode, crashed>>

newSchedulerCache ==
  /\ podStates = [p \in {} |-> 0]
  /\ assumedPods = {}
  /\ count = [n \in Nodes |-> [p \in Pods |-> 0]]
  /\ hasNode = Nodes
  /\ crashed = FALSE

HasState(p) == p \in DOMAIN podStates
Assumed(p) == HasState(p) /\ p \in assumedPods
Added(p) == HasState(p) /\ p \notin assumedPods

State(n) == [node |-> n, finished |-> FALSE]

WithState(p, n) ==
  [q \in DOMAIN podStates \cup {p} |-> IF q = p THEN State(n) ELSE podStates[q]]

\* The sum of the counts, as the number of units counted on the node.
Requested(n) == Cardinality(UNION {{p} \X (1 .. count[n][p]) : p \in Pods})

-----------------------------------------------------------------------------
(***************************************************************************)
(* What a call comes to: nothing (an error the caller logs), or the end of *)
(* the process.                                                            *)
(***************************************************************************)
Ignore == UNCHANGED <<podvars, crashed>>

Crash == crashed' = TRUE /\ UNCHANGED podvars

addPod(counted, p, n) == [counted EXCEPT ![n][p] = @ + 1]

(***************************************************************************)
(* removePod of p at n, and what follows if it succeeds.  A NodeInfo that  *)
(* does not hold the pod returns an error, in whose text it dereferences   *)
(* the node; without a node there may not even be a NodeInfo.              *)
(***************************************************************************)
RemovePodThen(p, n, Success) ==
  \/ count[n][p] > 0 /\ Success
  \/ count[n][p] = 0 /\ n \in hasNode /\ Ignore
  \/ count[n][p] = 0 /\ n \notin hasNode /\ Crash

removePod(p, n) == [count EXCEPT ![n][p] = @ - 1]

\* The pod leaves its node and the maps.
Drop(p, n) ==
  /\ count' = removePod(p, n)
  /\ podStates' = Restrict(podStates, DOMAIN podStates \ {p})
  /\ assumedPods' = assumedPods \ {p}
  /\ UNCHANGED crashed

-----------------------------------------------------------------------------
AssumePod(p, n) ==
  /\ ~HasState(p)
  /\ count' = addPod(count, p, n)
  /\ podStates' = WithState(p, n)
  /\ assumedPods' = assumedPods \cup {p}
  /\ UNCHANGED crashed

\* Seeded fault: bindingFinished is not set.
finishBinding_NotFinished(p) == UNCHANGED <<podStates, assumedPods, count, crashed>>

finishBinding(p) ==
  /\ podStates' = IF Assumed(p)
                  THEN [podStates EXCEPT ![p] = [node |-> @.node, finished |-> TRUE]]
                  ELSE podStates
  /\ UNCHANGED <<assumedPods, count, crashed>>

\* currState is dereferenced before the test that there is one.
ForgetPod(p, n) ==
  \/ ~HasState(p) /\ Crash
  \/ HasState(p) /\ (podStates[p].node # n \/ Added(p)) /\ Ignore
  \/ Assumed(p) /\ podStates[p].node = n /\ RemovePodThen(p, n, Drop(p, n))

\* Seeded fault: a pod confirmed on another node stays on the assumed one too.
AddPod_KeepsAssumed(p, n) ==
  \/ /\ Assumed(p)
     /\ count' = IF podStates[p].node = n THEN count ELSE addPod(count, p, n)
     /\ assumedPods' = assumedPods \ {p}
     /\ UNCHANGED <<podStates, crashed>>
  \/ /\ ~HasState(p)
     /\ count' = addPod(count, p, n)
     /\ podStates' = WithState(p, n)
     /\ UNCHANGED <<assumedPods, crashed>>
  \/ Added(p) /\ Ignore

(***************************************************************************)
(* A pod that was assumed elsewhere is counted where it really is, but its *)
(* state keeps the pod that was assumed.                                   *)
(***************************************************************************)
AddPod(p, n) ==
  \/ /\ Assumed(p)
     /\ LET at == podStates[p].node
            held == count[at][p] > 0
        IN  /\ count' = IF at = n THEN count
                        ELSE addPod(IF held THEN removePod(p, at) ELSE count, p, n)
            /\ IF at = n \/ held \/ at \in hasNode THEN UNCHANGED crashed ELSE crashed' = TRUE
     /\ assumedPods' = assumedPods \ {p}
     /\ UNCHANGED podStates
  \/ /\ ~HasState(p)
     /\ count' = addPod(count, p, n)
     /\ podStates' = WithState(p, n)
     /\ UNCHANGED <<assumedPods, crashed>>
  \/ Added(p) /\ Ignore

UpdatePod(p, old, new) ==
  \/ ~Added(p) /\ Ignore
  \/ Added(p) /\ podStates[p].node # new /\ Crash
  \/ /\ Added(p) /\ podStates[p].node = new
     /\ RemovePodThen(p, old,
          /\ count' = addPod(removePod(p, old), p, new)
          /\ UNCHANGED <<podStates, assumedPods, crashed>>)

RemovePod(p, n) ==
  \/ ~Added(p) /\ Ignore
  \/ Added(p) /\ podStates[p].node # n /\ Crash
  \/ Added(p) /\ podStates[p].node = n /\ RemovePodThen(p, n, Drop(p, n))

\* Seeded fault: a pod expires while its binding is still under way.
expirePod_WhileBinding(p) ==
  /\ Assumed(p)
  /\ RemovePodThen(p, podStates[p].node, Drop(p, podStates[p].node))

(***************************************************************************)
(* cleanupAssumedPods, for one pod whose deadline has passed.              *)
(***************************************************************************)
expirePod(p) ==
  /\ Assumed(p)
  /\ podStates[p].finished
  /\ RemovePodThen(p, podStates[p].node, Drop(p, podStates[p].node))

\* AddNode, and UpdateNode of a node that is not known.
AddNode(n) == n \notin hasNode /\ hasNode' = hasNode \cup {n}

\* RemoveNode: the NodeInfo stays while it has pods.
RemoveNode(n) == n \in hasNode /\ hasNode' = hasNode \ {n}

-----------------------------------------------------------------------------
\* A pod with a state is counted once, on one node; a pod without is not
\* counted at all: no path through assume, confirm, forget, expire and
\* re-creation counts a pod twice or leaves its share behind.
NodesAddUp ==
  \A p \in Pods :
    IF HasState(p)
    THEN \E n \in Nodes : count[n][p] = 1 /\ \A m \in Nodes \ {n} : count[m][p] = 0
    ELSE \A n \in Nodes : count[n][p] = 0
=============================================================================
