-------------------------------- MODULE EtcdSim --------------------------------
(***************************************************************************)
(* The in-memory etcd cluster (etcdsim/etcdsim.go): clients call it while  *)
(* the test injects faults, from its own goroutine or from a hook that     *)
(* runs in the middle of a client's call.                                  *)
(*                                                                         *)
(* New refuses duplicate names, endpoints and IDs, so an ID stands for all *)
(* three.  Leader 0 is no leader.                                          *)
(***************************************************************************)
EXTENDS Integers, Sequences, FiniteSets

CONSTANTS
  ID, Learner,  \* the members given to New, and those that do not vote
  Size,         \* database sizes a member may be given
  Alarm,        \* sets of alarms
  Caller,       \* goroutines calling the cluster, each with a client of its own
  Method,       \* methods called
  Gone, Free,   \* a removed member; an unlocked mutex
  MaxFaults,    \* bound: calls of fault methods
  MaxQueued,    \* bound: failures queued per method, and hooks registered per method
  MaxLog        \* bound: accepted MoveLeader and Defragment calls

ASSUME EtcdSimAssumption ==
  /\ ID \subseteq Nat \ {0} /\ IsFiniteSet(ID) /\ Learner \subseteq ID
  /\ Size \subseteq Nat
  /\ {} \in Alarm
  /\ Gone \notin [healthy : BOOLEAN, size : Nat, inUse : Nat, alarms : Alarm, view : ID \cup {0}]
  /\ Free \notin Caller
  /\ Method \subseteq {"Status", "Members", "Health", "MoveLeader", "Defragment"}
  /\ {MaxFaults, MaxQueued, MaxLog} \subseteq Nat

VARIABLES
  mu,        \* Cluster.mu
  members, leader, stall,
  defragLog, moveLeaderLog,
  failNext,  \* per method, queued failures
  hooks,     \* per method, registered hooks
  closed,    \* callers whose client is closed
  call, left, answer,  \* per caller: call in progress, hooks still to run, last answer
  faults

cluster     == <<members, leader, stall, defragLog, moveLeaderLog>>
calls       == <<call, left, answer>>
clusterVars == <<mu, cluster, failNext, hooks, closed, calls, faults>>

Member   == [healthy : BOOLEAN, size : Nat, inUse : Nat, alarms : Alarm, view : ID \cup {0}]
Calls    == {k \in [method : Method, endpoint : ID, target : ID] :
               k.method # "MoveLeader" => k.target = k.endpoint}
NoMethod == [method |-> "none"]

Present == {i \in ID : members[i] # Gone}
Voters  == Present \ Learner

ClusterTypeOK ==
  /\ mu \in Caller \cup {Free}
  /\ members \in [ID -> Member \cup {Gone}]
  /\ leader \in ID \cup {0} /\ stall \in BOOLEAN
  /\ defragLog \in Seq(ID) /\ moveLeaderLog \in Seq(ID)
  /\ failNext \in [Method -> Nat] /\ hooks \in [Method -> Nat]
  /\ closed \subseteq Caller
  /\ call \in [Caller -> Calls \cup {NoMethod}] /\ left \in [Caller -> Int]
  /\ answer \in [Caller -> {"none", "ok", "refused", "injected", "closed"}]
  /\ faults \in Nat

(* New: the first member given leads, and it votes. *)
ClusterInit ==
  /\ mu = Free
  /\ \E size \in [ID -> Size] :
       members = [i \in ID |-> [healthy |-> TRUE, size |-> size[i], inUse |-> size[i] \div 2,
                                alarms |-> {}, view |-> 0]]
  /\ leader \in ID \ Learner
  /\ stall = FALSE /\ defragLog = <<>> /\ moveLeaderLog = <<>>
  /\ failNext = [m \in Method |-> 0] /\ hooks = [m \in Method |-> 0]
  /\ closed = {}
  /\ call = [c \in Caller |-> NoMethod]
  /\ left = [c \in Caller |-> 0]
  /\ answer = [c \in Caller |-> "none"]
  /\ faults = 0
------------------------------------------------------------------------------
(* Fault methods.  Each takes and releases mu. *)

Set(i, m) == members' = [members EXCEPT ![i] = m]
logs == <<defragLog, moveLeaderLog>>

SetDBSize(i, size, inUse) ==
  /\ members[i] # Gone /\ size >= 1 /\ inUse <= size
  /\ Set(i, [members[i] EXCEPT !.size = size, !.inUse = inUse])
  /\ UNCHANGED <<leader, stall, failNext, hooks>>

SetHealthy(i, healthy) ==
  /\ members[i] # Gone
  /\ Set(i, [members[i] EXCEPT !.healthy = healthy])
  /\ UNCHANGED <<leader, stall, failNext, hooks>>

SetAlarm(i, alarms) ==
  /\ members[i] # Gone
  /\ Set(i, [members[i] EXCEPT !.alarms = alarms])
  /\ UNCHANGED <<leader, stall, failNext, hooks>>

SplitLeaderView(i, view) ==
  /\ members[i] # Gone
  /\ Set(i, [members[i] EXCEPT !.view = view])
  /\ UNCHANGED <<leader, stall, failNext, hooks>>

Lowest(S) == CHOOSE i \in S : \A j \in S : i <= j

Successor_AnyMember(i) ==  \* slip: a learner may take over
  IF leader # i THEN leader ELSE IF Present \ {i} = {} THEN 0 ELSE Lowest(Present \ {i})

(* The lowest-ID voter takes over from a leader that is removed. *)
Successor(i) ==
  IF leader # i THEN leader ELSE IF Voters \ {i} = {} THEN 0 ELSE Lowest(Voters \ {i})

RemoveMember(i) ==
  /\ members[i] # Gone
  /\ Set(i, Gone)
  /\ leader' = Successor(i)
  /\ UNCHANGED <<stall, failNext, hooks>>

StallLeaderMove(on) ==
  /\ stall' = on
  /\ UNCHANGED <<members, leader, failNext, hooks>>

FailNext(m) ==
  /\ failNext[m] < MaxQueued
  /\ failNext' = [failNext EXCEPT ![m] = @ + 1]
  /\ UNCHANGED <<members, leader, stall, hooks>>

Hook(m) ==
  /\ hooks[m] < MaxQueued
  /\ hooks' = [hooks EXCEPT ![m] = @ + 1]
  /\ UNCHANGED <<members, leader, stall, failNext>>

Fault ==
  /\ mu = Free
  /\ faults < MaxFaults /\ faults' = faults + 1
  /\ \/ \E i \in ID, size, inUse \in Size : SetDBSize(i, size, inUse)
     \/ \E i \in ID, b \in BOOLEAN : SetHealthy(i, b)
     \/ \E i \in ID, a \in Alarm : SetAlarm(i, a)
     \/ \E i \in ID, v \in ID \cup {0} : SplitLeaderView(i, v)
     \/ \E i \in ID : RemoveMember(i)
     \/ \E b \in BOOLEAN : StallLeaderMove(b)
     \/ \E m \in Method : FailNext(m) \/ Hook(m)
  /\ UNCHANGED logs

TestFault ==
  /\ Fault
  /\ UNCHANGED <<mu, closed, calls>>
------------------------------------------------------------------------------
(* Client calls. *)

Close(c) ==
  /\ c \notin closed /\ call[c] = NoMethod
  /\ closed' = closed \cup {c}
  /\ UNCHANGED <<mu, cluster, failNext, hooks, calls, faults>>

(* left -1: enter has not read the hooks yet. *)
Begin(c, k) ==
  /\ call[c] = NoMethod
  /\ IF c \in closed THEN answer' = [answer EXCEPT ![c] = "closed"] /\ UNCHANGED <<call, left>>
     ELSE /\ call' = [call EXCEPT ![c] = k]
          /\ left' = [left EXCEPT ![c] = -1]
          /\ answer' = [answer EXCEPT ![c] = "none"]
  /\ UNCHANGED <<mu, cluster, failNext, hooks, closed, faults>>

ReadHooks_KeepsLock(c) ==  \* slip: the hooks run under the cluster lock
  /\ call[c] # NoMethod /\ left[c] = -1 /\ mu = Free
  /\ left' = [left EXCEPT ![c] = hooks[call[c].method]]
  /\ mu' = c
  /\ UNCHANGED <<cluster, failNext, hooks, closed, call, answer, faults>>

(* enter: the hooks are copied under mu, which is then released. *)
ReadHooks(c) ==
  /\ call[c] # NoMethod /\ left[c] = -1 /\ mu = Free
  /\ left' = [left EXCEPT ![c] = hooks[call[c].method]]
  /\ UNCHANGED <<mu, cluster, failNext, hooks, closed, call, answer, faults>>

(* A hook calls a fault method. *)
RunHook(c) ==
  /\ call[c] # NoMethod /\ left[c] > 0
  /\ left' = [left EXCEPT ![c] = @ - 1]
  /\ Fault
  /\ UNCHANGED <<mu, closed, call, answer>>

(* A hook that changes nothing. *)
RunIdleHook(c) ==
  /\ call[c] # NoMethod /\ left[c] > 0 /\ mu = Free
  /\ left' = [left EXCEPT ![c] = @ - 1]
  /\ UNCHANGED <<mu, cluster, failNext, hooks, closed, call, answer, faults>>

Return(c, a) ==
  /\ call' = [call EXCEPT ![c] = NoMethod]
  /\ left' = [left EXCEPT ![c] = 0]
  /\ answer' = [answer EXCEPT ![c] = a]
  /\ UNCHANGED <<hooks, closed, faults>>

Ready(c) == call[c] # NoMethod /\ left[c] = 0 /\ mu \in {Free, c}

(* enter: a queued failure takes the place of the call. *)
Injected(c) ==
  /\ Ready(c) /\ failNext[call[c].method] > 0
  /\ failNext' = [failNext EXCEPT ![call[c].method] = @ - 1]
  /\ Return(c, "injected")
  /\ mu' = Free /\ UNCHANGED cluster

(* Status and Health look a member up by endpoint; Members lists them.     *)
Query(c) ==
  /\ Ready(c) /\ call[c].method \in {"Status", "Members", "Health"}
  /\ failNext[call[c].method] = 0
  /\ LET m == members[call[c].endpoint] IN
       Return(c, IF \/ call[c].method = "Members"
                    \/ m # Gone /\ (call[c].method = "Health" => m.healthy)
                 THEN "ok" ELSE "refused")
  /\ mu' = Free /\ UNCHANGED <<cluster, failNext>>

(* MoveLeader is sent to the leader and names a voter. *)
Movable(k) == k.endpoint \in Present /\ k.endpoint = leader /\ k.target \in Voters

MoveLeader(c) ==
  /\ Ready(c) /\ call[c].method = "MoveLeader" /\ failNext["MoveLeader"] = 0
  /\ IF Movable(call[c])
     THEN /\ Len(moveLeaderLog) < MaxLog
          /\ moveLeaderLog' = Append(moveLeaderLog, call[c].target)
          /\ leader' = IF stall THEN leader ELSE call[c].target
          /\ Return(c, "ok")
     ELSE Return(c, "refused") /\ UNCHANGED <<moveLeaderLog, leader>>
  /\ mu' = Free /\ UNCHANGED <<members, stall, defragLog, failNext>>

(* The size left by Defragment. *)
Defragmented_ToHalf(m) == [m EXCEPT !.size = @ \div 2]  \* slip: reclaims live data

Defragmented(m) == [m EXCEPT !.size = IF m.inUse >= 1 THEN m.inUse ELSE 1]

Defragment(c) ==
  /\ Ready(c) /\ call[c].method = "Defragment" /\ failNext["Defragment"] = 0
  /\ LET i == call[c].endpoint IN
       IF i \in Present /\ members[i].healthy
       THEN /\ Len(defragLog) < MaxLog
            /\ Set(i, Defragmented(members[i]))
            /\ defragLog' = Append(defragLog, i)
            /\ Return(c, "ok")
       ELSE Return(c, "refused") /\ UNCHANGED <<members, defragLog>>
  /\ mu' = Free /\ UNCHANGED <<leader, stall, moveLeaderLog, failNext>>

CallStep(c) == ReadHooks(c) \/ RunHook(c) \/ RunIdleHook(c) \/ Injected(c) \/ Query(c)
                 \/ MoveLeader(c) \/ Defragment(c)

ClusterNext ==
  \/ TestFault
  \/ \E c \in Caller : Close(c) \/ CallStep(c) \/ \E k \in Calls : Begin(c, k)

ClusterSpec == ClusterInit /\ [][ClusterNext]_clusterVars

(* A caller's goroutine keeps running, and its hooks return. *)
FairSpec == ClusterSpec /\ \A c \in Caller : WF_clusterVars(CallStep(c))
------------------------------------------------------------------------------
(* Properties. *)

(* The leader is a voting member of the cluster, and only a cluster with   *)
(* no voter left has none, whatever is removed between the hooks of a      *)
(* MoveLeader and its effect (New, RemoveMember, MoveLeader).              *)
LeaderVotes == IF leader = 0 THEN Voters = {} ELSE leader \in Voters

(* Live data never exceeds the database that holds it, so the reclaimable  *)
(* space a caller computes from Status is never negative.                  *)
LiveDataFits == \A i \in Present : members[i].inUse <= members[i].size

(* A hook may call any fault method in the middle of a call, because enter *)
(* runs it without the lock: the call still returns.                       *)
CallReturns == \A c \in Caller :
                 (call[c] # NoMethod /\ Len(defragLog) < MaxLog /\ Len(moveLeaderLog) < MaxLog)
                   ~> (call[c] = NoMethod \/ Len(defragLog) = MaxLog \/ Len(moveLeaderLog) = MaxLog)
==============================================================================
