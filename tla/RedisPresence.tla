--------------------------- MODULE RedisPresence ---------------------------
(***************************************************************************)
(* Cluster-wide membership of one presence channel with the Redis adapter  *)
(* (src/adapter/redis/mod.rs: try_add_presence_member and                  *)
(* remove_presence_member).  Every Redis command is a step; the tasks of   *)
(* one node take turns through cmd_conn, those of several nodes interleave *)
(* between any two commands.                                               *)
(*                                                                         *)
(* Left out: the local registry (module Namespace; with this adapter its   *)
(* results are ignored), user_info, and the roster read for the answer.    *)
(***************************************************************************)
EXTENDS Integers, FiniteSets

CONSTANTS Nodes, Sockets, Users,
          NoSocket, NoUser,
          NodeOf,        \* the node each socket is connected to
          MaxMembers,    \* app.max_presence_members_per_channel
          MaxFaults      \* bound: commands that fail and nodes that crash

ASSUME NodeAssumption == NodeOf \in [Sockets -> Nodes]
ASSUME NoneAssumption == NoSocket \notin Sockets /\ NoUser \notin Users
ASSUME FiniteAssumption == IsFiniteSet(Sockets) /\ IsFiniteSet(Users)
ASSUME BoundAssumption == MaxMembers \in Nat /\ MaxFaults \in Nat

VARIABLES hash,     \* presence_key: the users that are members
          count,    \* presence_sockets_key: user -> number; missing = 0
          lock,     \* cmd_conn of each node: the task that holds it
          pc,
          who,      \* user of the task's membership
          seen,     \* current_count, as answered by HLEN
          errors, crashes,
          overlapped  \* history: operations of two nodes have overlapped

redisVars == <<hash, count>>
vars == <<redisVars, lock, pc, who, seen, errors, crashes, overlapped>>

Pcs == {"out", "hexists", "hlen", "incr", "hset", "fetch", "in",
        "decr", "hdel", "hdelCount", "remaining", "del", "delCounts"}

\* A crash or a failed decrement leaves the sockets counted for good.
MaxCount == (1 + MaxFaults) * Cardinality(Sockets) + MaxFaults

TypeOK ==
  /\ hash \subseteq Users
  /\ count \in [Users -> -MaxCount..MaxCount]
  /\ lock \in [Nodes -> Sockets \cup {NoSocket}]
  /\ pc \in [Sockets -> Pcs]
  /\ who \in [Sockets -> Users \cup {NoUser}]
  /\ seen \in [Sockets -> 0..Cardinality(Users)]
  /\ errors \in 0..MaxFaults /\ crashes \in 0..MaxFaults
  /\ overlapped \in BOOLEAN

Init ==
  /\ hash = {} /\ count = [u \in Users |-> 0]
  /\ lock = [n \in Nodes |-> NoSocket]
  /\ pc = [s \in Sockets |-> "out"]
  /\ who = [s \in Sockets |-> NoUser]
  /\ seen = [s \in Sockets |-> 0]
  /\ errors = 0 /\ crashes = 0 /\ overlapped = FALSE

----------------------------------------------------------------------------

Free(s) == lock[NodeOf[s]] = NoSocket

\* cmd_conn.lock().await
Acquire(s) ==
  /\ Free(s)
  /\ lock' = [lock EXCEPT ![NodeOf[s]] = s]
  /\ overlapped' = (overlapped \/ \E n \in Nodes : lock[n] # NoSocket)

Release(s) == lock' = [lock EXCEPT ![NodeOf[s]] = NoSocket]

\* The next command of a task that holds the connection
Command(s, from, to) ==
  /\ pc[s] = from
  /\ pc' = [pc EXCEPT ![s] = to]
  /\ UNCHANGED <<lock, who, crashes, overlapped>>

\* Mutant: without drop(conn) the guard lives on while the members are fetched.
LastUndropped(s, from, to) ==
  /\ pc[s] = from
  /\ pc' = [pc EXCEPT ![s] = to]
  /\ IF to = "fetch" THEN UNCHANGED lock ELSE Release(s)
  /\ who' = [who EXCEPT ![s] = IF to = "out" THEN NoUser ELSE @]
  /\ seen' = [seen EXCEPT ![s] = 0]
  /\ UNCHANGED <<crashes, overlapped>>

\* The last one: the guard is dropped.
LastCommand(s, from, to) ==
  /\ pc[s] = from
  /\ pc' = [pc EXCEPT ![s] = to]
  /\ Release(s)
  /\ who' = [who EXCEPT ![s] = IF to = "out" THEN NoUser ELSE @]
  /\ seen' = [seen EXCEPT ![s] = 0]
  /\ UNCHANGED <<crashes, overlapped>>

Answered == UNCHANGED errors
Fails    == errors + crashes < MaxFaults /\ errors' = errors + 1

\* A write is answered, or fails and has been applied or not.
Write(var, new, old) == (Answered /\ var = new) \/ (Fails /\ var \in {new, old})

Add(u, n) == [count EXCEPT ![u] = @ + n]

----------------------------------------------------------------------------
(* try_add_presence_member *)

Subscribe(s, u) ==
  /\ pc[s] = "out"
  /\ Acquire(s)
  /\ pc' = [pc EXCEPT ![s] = "hlen"]
  /\ who' = [who EXCEPT ![s] = u]
  /\ UNCHANGED <<redisVars, seen, errors, crashes>>

\* hlen(..).unwrap_or(0)
Hlen(s) ==
  /\ Command(s, "hlen", "hexists")
  /\ (Answered /\ seen' = [seen EXCEPT ![s] = Cardinality(hash)]) \/ (Fails /\ UNCHANGED seen)
  /\ UNCHANGED redisVars

\* hexists(..).unwrap_or(false), then the limit test
Hexists(s) ==
  /\ \E exists \in BOOLEAN :
       /\ (Answered /\ exists = (who[s] \in hash)) \/ (Fails /\ ~ exists)
       /\ IF ~ exists /\ seen[s] >= MaxMembers
          THEN LastCommand(s, "hexists", "out")
          ELSE Command(s, "hexists", "incr") /\ UNCHANGED seen
  /\ UNCHANGED redisVars

\* Mutant: the socket is not counted for a user who is already a member.
IncrOnlyNew(s) ==
  /\ pc[s] = "incr"
  /\ Answered
  /\ IF who[s] \in hash
     THEN LastCommand(s, "incr", "fetch") /\ UNCHANGED count
     ELSE Command(s, "incr", "hset") /\ UNCHANGED seen /\ count' = Add(who[s], 1)
  /\ UNCHANGED hash

\* hincr(.., 1).unwrap_or(1): the member is new if the answer is 1.
Incr(s) ==
  /\ pc[s] = "incr"
  /\ \/ Answered /\ count' = Add(who[s], 1)
     \/ Fails /\ count' \in {count, Add(who[s], 1)}
  /\ IF errors' # errors \/ count'[who[s]] = 1
     THEN Command(s, "incr", "hset") /\ UNCHANGED seen
     ELSE LastCommand(s, "incr", "fetch")
  /\ UNCHANGED hash

\* hset, then the guard is dropped.
Hset(s) ==
  /\ LastCommand(s, "hset", "fetch")
  /\ Write(hash', hash \cup {who[s]}, hash)
  /\ UNCHANGED count

\* get_presence_members takes the connection again and returns.
Fetch(s) ==
  /\ pc[s] = "fetch" /\ Free(s)
  /\ pc' = [pc EXCEPT ![s] = "in"]
  /\ UNCHANGED <<redisVars, lock, who, seen, errors, crashes, overlapped>>

----------------------------------------------------------------------------
(* remove_presence_member *)

\* Mutant: a user with another socket on this node is not counted down.
UnsubscribeLocally(s) ==
  /\ pc[s] = "in" /\ Free(s)
  /\ LET others == {t \in Sockets \ {s} : NodeOf[t] = NodeOf[s] /\ who[t] = who[s]} IN
     IF others # {}
     THEN LastCommand(s, "in", "out")
     ELSE /\ Acquire(s)
          /\ pc' = [pc EXCEPT ![s] = "decr"]
          /\ UNCHANGED <<who, seen, crashes>>
  /\ UNCHANGED <<redisVars, errors>>

Unsubscribe(s) ==
  /\ pc[s] = "in"
  /\ Acquire(s)
  /\ pc' = [pc EXCEPT ![s] = "decr"]
  /\ UNCHANGED <<redisVars, who, seen, errors, crashes>>

\* Mutant: the user is only removed below zero.
DecrBelowZero(s) ==
  /\ pc[s] = "decr"
  /\ \/ /\ Answered /\ count' = Add(who[s], -1)
        /\ IF count'[who[s]] < 0
           THEN Command(s, "decr", "hdel") /\ UNCHANGED seen
           ELSE LastCommand(s, "decr", "out")
     \/ /\ Fails /\ count' \in {count, Add(who[s], -1)}
        /\ LastCommand(s, "decr", "out")
  /\ UNCHANGED hash

\* hincr(.., -1): the user has no sockets left if the answer is <= 0; an
\* error returns false.
Decr(s) ==
  /\ pc[s] = "decr"
  /\ \/ /\ Answered /\ count' = Add(who[s], -1)
        /\ IF count'[who[s]] <= 0
           THEN Command(s, "decr", "hdel") /\ UNCHANGED seen
           ELSE LastCommand(s, "decr", "out")
     \/ /\ Fails /\ count' \in {count, Add(who[s], -1)}
        /\ LastCommand(s, "decr", "out")
  /\ UNCHANGED hash

Hdel(s) ==
  /\ Command(s, "hdel", "hdelCount")
  /\ Write(hash', hash \ {who[s]}, hash)
  /\ UNCHANGED <<count, seen>>

HdelCount(s) ==
  /\ Command(s, "hdelCount", "remaining")
  /\ Write(count', [count EXCEPT ![who[s]] = 0], count)
  /\ UNCHANGED <<hash, seen>>

\* hlen(..).unwrap_or(1) = 0: both keys are deleted.
Remaining(s) ==
  /\ \/ Answered /\ hash = {} /\ Command(s, "remaining", "del") /\ UNCHANGED seen
     \/ Answered /\ hash # {} /\ LastCommand(s, "remaining", "out")
     \/ Fails /\ LastCommand(s, "remaining", "out")
  /\ UNCHANGED redisVars

Del(s) ==
  /\ Command(s, "del", "delCounts")
  /\ Write(hash', {}, hash)
  /\ UNCHANGED <<count, seen>>

DelCounts(s) ==
  /\ LastCommand(s, "delCounts", "out")
  /\ Write(count', [u \in Users |-> 0], count)
  /\ UNCHANGED hash

----------------------------------------------------------------------------

\* A node crashes: its sockets are gone, its keys in Redis are not.
Crash(n) ==
  /\ errors + crashes < MaxFaults
  /\ crashes' = crashes + 1
  /\ pc'   = [s \in Sockets |-> IF NodeOf[s] = n THEN "out" ELSE pc[s]]
  /\ who'  = [s \in Sockets |-> IF NodeOf[s] = n THEN NoUser ELSE who[s]]
  /\ seen' = [s \in Sockets |-> IF NodeOf[s] = n THEN 0 ELSE seen[s]]
  /\ lock' = [lock EXCEPT ![n] = NoSocket]
  /\ UNCHANGED <<redisVars, errors, overlapped>>

\* The steps of the task that holds cmd_conn
Operate(s) ==
  \/ Hlen(s) \/ Hexists(s) \/ Incr(s) \/ Hset(s)
  \/ Decr(s) \/ Hdel(s) \/ HdelCount(s) \/ Remaining(s) \/ Del(s) \/ DelCounts(s)

Step(s) == Operate(s) \/ Fetch(s)

Next ==
  \/ \E s \in Sockets : Step(s) \/ Unsubscribe(s) \/ \E u \in Users : Subscribe(s, u)
  \/ \E n \in Nodes : Crash(n)

Spec == Init /\ [][Next]_vars
\* Every command that is sent returns, with an answer or an error.
FairSpec == Spec /\ \A n \in Nodes : WF_vars(\E s \in Sockets : NodeOf[s] = n /\ Operate(s))

----------------------------------------------------------------------------
(* Safety *)

\* Sockets whose add has been counted and whose remove has not.
CountedFor(u) == {s \in Sockets : who[s] = u /\ pc[s] \in {"hset", "fetch", "in", "decr"}}

\* HINCRBY on several nodes: the count of a user never exceeds the sockets it
\* stands for, whatever other nodes delete meanwhile, so the last of them sees
\* that it is the last; a command that fails leaves it at most one too high.
\* (A crash leaves the sockets of its node counted.)
CountIsNoOverestimate ==
  crashes = 0 => \A u \in Users : count[u] <= Cardinality(CountedFor(u)) + errors

NoFaults == errors = 0 /\ crashes = 0

\* As long as every command is answered, a member has a socket on some node:
\* whatever adds and removes of several nodes interleave, the last socket of
\* a user takes the user out of the hash.
HasSocket(u) == \E s \in Sockets : who[s] = u /\ pc[s] \in {"fetch", "in", "decr", "hdel"}
NoGhostMember == NoFaults => \A u \in hash : HasSocket(u)

Idle == \A n \in Nodes : lock[n] = NoSocket

\* cmd_conn held from HLEN to HSET and from HINCRBY to DEL, the clean-up of
\* both keys, and the refusal at the limit: while operations of two nodes do
\* not overlap and every command is answered, what Redis holds between two
\* operations is exactly the users of the subscribed sockets and the number
\* of sockets of each, and never more users than the limit.
Subscribed == {s \in Sockets : pc[s] \in {"fetch", "in"}}
ExactInTurns ==
  NoFaults /\ ~ overlapped /\ Idle =>
    /\ hash = {who[s] : s \in Subscribed}
    /\ \A u \in Users : count[u] = Cardinality({s \in Subscribed : who[s] = u})
    /\ Cardinality(hash) <= MaxMembers

----------------------------------------------------------------------------
(* Liveness *)

\* cmd_conn becomes free again, whatever fails: try_add_presence_member locks it
\* a second time for the roster, so whoever still held it there would wait for
\* itself, and every presence operation of the node for that task.
ConnectionReleased == \A n \in Nodes : lock[n] # NoSocket ~> lock[n] = NoSocket

----------------------------------------------------------------------------
(* What the documentation says and the code does not do *)

\* "Atomically check presence member limit, add a member" (adapter/mod.rs:83):
\* the members never exceed the limit, whatever nodes do at the same time.
PresenceLimit == NoFaults => Cardinality(hash) <= MaxMembers

\* "A user is considered removed only when they have no sockets on any node"
\* (README.md:406): between two operations the user of a subscribed socket is
\* a member; HINCRBY and HDEL of two nodes interleave.
MemberListed == NoFaults /\ Idle => \A s \in Subscribed : who[s] \in hash

\* "When they leave (no sockets on any node), they're removed via HDEL."
RemovedWhenGone ==
  (\A s \in Sockets : pc[s] = "out") => hash = {}

=============================================================================
