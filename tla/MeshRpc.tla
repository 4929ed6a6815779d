-------------------------------- MODULE MeshRpc --------------------------------
(***************************************************************************)
(* A command over a bridged mesh: strands_robots/mesh/core.py (send,       *)
(* _on_cmd, _exec_cmd, _on_response) over the two transports of            *)
(* mesh/transport/bridge_transport.py.                                     *)
(*                                                                         *)
(* The bridge publishes a command on the local network and in the cloud,   *)
(* and the cloud delivers at least once, so a robot may be handed several  *)
(* copies of it.  Two records keep it from acting on more than one: the    *)
(* deduplicator of its bridge, which every copy passes on the thread of    *)
(* its transport, and the replay cache that the thread spawned for a       *)
(* command consults.  Both forget, with time and when they are full.       *)
(*                                                                         *)
(* Calls are commands that act; the ones that only read (status, state,    *)
(* features) pass by the replay cache and may be repeated.  Whether a      *)
(* robot is locked when a command reaches it is left open: EStop has that. *)
(***************************************************************************)
EXTENDS Naturals, FiniteSets

CONSTANTS
  Calls,         \* calls of send, each with a turn of its own
  Robots,        \* the peers that receive commands
  Target,        \* the robot each call is addressed to
  Copies,        \* the copies that the transports may deliver of each command
  DedupTTL,      \* seconds the deduplicator remembers
  DedupMax,      \* entries above which it purges the expired ones
  DedupMaxHard,  \* entries above which it drops the oldest as well
  ReplayTTL,     \* seconds the replay cache remembers
  ReplayMax,     \* entries at which it drops the oldest
  MaxDelay,      \* the longest a copy is on its way
  MaxTime        \* bound on the clock

ASSUME TargetAssumption == Target \in [Calls -> Robots]
ASSUME NumbersAssumption ==
  /\ DedupTTL \in Nat /\ DedupMax \in Nat /\ DedupMaxHard \in Nat
  /\ ReplayTTL \in Nat /\ ReplayMax \in Nat \ {0}
  /\ MaxDelay \in Nat /\ MaxTime \in Nat \ {0}
\* Nothing in the code bounds the delay.  This is what the default of 120
\* seconds is there for.
ASSUME DelayAssumption == MaxDelay <= DedupTTL

VARIABLES
  now,       \* the monotonic clock
  \* the callers
  stage,     \* how far each call is
  pending,   \* the turns in _pending
  first,     \* the first of _responses[turn], or "none"
  result,    \* what the call returned
  sent,      \* when it was published
  \* the robots
  seen,      \* _CommandDeduplicator._seen of the robot: the stamp of each
             \* call addressed to it, or 0
  cache,     \* _cmd_replay_cache of the robot: likewise
  job,       \* how far each copy of each command is
  stamp,     \* the reading of the clock it carries, 0 when it carries none
  picked,    \* the entries it has chosen to drop, with their stamps
  runs,      \* how often the robot has acted on a call
  \* history, read by the properties only
  last,      \* the stamp under which the replay cache last let a call pass
  dropped,   \* calls the deduplicator dropped to make room
  crowded    \* calls the replay cache dropped to make room

calling == <<stage, pending, first, result, sent>>
serving == <<seen, cache, job, stamp, picked, runs>>
history == <<last, dropped, crowded>>
vars == <<now, calling, serving, history>>

Jobs == {j \in Calls \X UNION {Copies[c] : c \in Calls} : j[2] \in Copies[j[1]]}

Init ==
  /\ now = 1
  /\ stage = [c \in Calls |-> "idle"]
  /\ pending = {}
  /\ first = [c \in Calls |-> "none"]
  /\ result = [c \in Calls |-> "none"]
  /\ sent = [c \in Calls |-> 0]
  /\ seen = [c \in Calls |-> 0]
  /\ cache = [c \in Calls |-> 0]
  /\ job = [j \in Jobs |-> "none"]
  /\ stamp = [j \in Jobs |-> 0]
  /\ picked = [j \in Jobs |-> {}]
  /\ runs = [c \in Calls |-> 0]
  /\ last = [c \in Calls |-> 0]
  /\ dropped = {}
  /\ crowded = {}

Tick ==
  /\ now < MaxTime
  /\ now' = now + 1
  /\ UNCHANGED <<calling, serving, history>>
-------------------------------------------------------------------------------
(***************************************************************************)
(* Tables of stamps.                                                       *)
(***************************************************************************)

\* The entries of robot r in a table f.
Entries(f, r) ==
  {e \in Calls \X (1 .. MaxTime) : Target[e[1]] = r /\ f[e[1]] = e[2]}

\* The n entries of E with the earliest stamps; which of several with the same
\* stamp is left open.
Oldest(E, n) ==
  {S \in SUBSET E : /\ Cardinality(S) = n
                    /\ \A e \in S, d \in E \ S : e[2] <= d[2]}

\* A fifth of n entries, and one at the least.
Fifth(n) == IF n < 10 THEN 1 ELSE n \div 5

\* Table f without the entries in S.
Without(f, S) == [c \in Calls |-> IF <<c, f[c]>> \in S THEN 0 ELSE f[c]]

Expired(f, r, t, ttl) == {e \in Entries(f, r) : e[2] + ttl < t}

CallsOf(S) == {e[1] : e \in S}
-------------------------------------------------------------------------------
(***************************************************************************)
(* The caller: send.                                                       *)
(***************************************************************************)

\* The turn is registered, under the lock of the turns, and the command is
\* published on every transport that is up.
Send(c) ==
  /\ stage[c] = "idle"
  /\ stage' = [stage EXCEPT ![c] = "waiting"]
  /\ pending' = pending \cup {c}
  /\ sent' = [sent EXCEPT ![c] = now]
  /\ job' = [j \in Jobs |-> IF j[1] = c THEN "sent" ELSE job[j]]
  /\ UNCHANGED <<now, first, result, seen, cache, stamp, picked, runs, history>>

\* The wait ends with the event of the turn, or with the time allowed; the turn
\* and its answers are taken out under the lock.
Return(c) ==
  /\ stage[c] = "waiting"
  /\ stage' = [stage EXCEPT ![c] = "returned"]
  /\ result' = [result EXCEPT ![c] = IF first[c] = "none" THEN "timeout" ELSE first[c]]
  /\ pending' = pending \ {c}
  /\ first' = [first EXCEPT ![c] = "none"]
  /\ UNCHANGED <<now, sent, serving, history>>

Append(j) ==
  /\ job[j] \in {"ran", "refused", "replayed"}
  /\ first' = [first EXCEPT ![j[1]] = IF @ = "none" THEN job[j] ELSE @]
  /\ UNCHANGED <<now, stage, pending, result, sent, serving, history>>

\* Variant: the turn is not looked up.
AcceptUnchecked(j) == Append(j)

\* _on_response: an answer is published once its job has come to it, and comes
\* in at any later time, over one transport or both, or never.
Accept(j) == j[1] \in pending /\ Append(j)
-------------------------------------------------------------------------------
(***************************************************************************)
(* The bridge of the robot: is_duplicate, on the thread of a transport.    *)
(***************************************************************************)

Goto(j, pc) == job' = [job EXCEPT ![j] = pc]

\* A copy arrives; the clock is read before the lock is taken.
Arrive(j) ==
  /\ job[j] = "sent"
  /\ now <= sent[j[1]] + MaxDelay
  /\ stamp' = [stamp EXCEPT ![j] = now]
  /\ Goto(j, "arrived")
  /\ UNCHANGED <<now, calling, seen, cache, picked, runs, history>>

\* Under the lock: the expired entries go once there are many, and if too many
\* are left the oldest of them are to go as well.
Purge(j) ==
  LET all == Entries(seen, Target[j[1]])
      old == IF Cardinality(all) > DedupMax
             THEN Expired(seen, Target[j[1]], stamp[j], DedupTTL) ELSE {}
      left == all \ old
  IN
  /\ job[j] = "arrived"
  /\ seen' = Without(seen, old)
  /\ dropped' = dropped \cup CallsOf(old)
  /\ IF Cardinality(left) > DedupMaxHard
     THEN /\ \E S \in Oldest(left, Fifth(Cardinality(left))) :
               picked' = [picked EXCEPT ![j] = S]
          /\ Goto(j, "full")
     ELSE /\ Goto(j, "checking")
          /\ UNCHANGED picked
  /\ UNCHANGED <<now, calling, cache, stamp, runs, last, crowded>>

\* Under the lock again: each goes unless it has a new stamp by now.
DropOldest(j) ==
  /\ job[j] = "full"
  /\ seen' = Without(seen, picked[j])
  /\ dropped' = dropped \cup {e[1] : e \in {d \in picked[j] : seen[d[1]] = d[2]}}
  /\ picked' = [picked EXCEPT ![j] = {}]
  /\ Goto(j, "checking")
  /\ UNCHANGED <<now, calling, cache, stamp, runs, last, crowded>>

\* Variant: an entry whose time is up to the second counts as expired.
DeduplicateEarly(j) ==
  LET c == j[1] IN
  /\ job[j] = "checking"
  /\ IF seen[c] # 0 /\ stamp[j] < seen[c] + DedupTTL
     THEN /\ Goto(j, "duplicate")
          /\ UNCHANGED seen
     ELSE /\ Goto(j, "spawned")
          /\ seen' = [seen EXCEPT ![c] = stamp[j]]
  /\ stamp' = [stamp EXCEPT ![j] = 0]
  /\ UNCHANGED <<now, calling, cache, picked, runs, history>>

\* Variant: the copy that is let through leaves no entry.
DeduplicateUnrecorded(j) ==
  /\ job[j] = "checking"
  /\ IF seen[j[1]] # 0 /\ stamp[j] <= seen[j[1]] + DedupTTL
     THEN Goto(j, "duplicate")
     ELSE Goto(j, "spawned")
  /\ stamp' = [stamp EXCEPT ![j] = 0]
  /\ UNCHANGED <<now, calling, seen, cache, picked, runs, history>>

\* The check and the entry, in one section of the lock.  A copy that is no
\* duplicate gets a thread of its own.
Deduplicate(j) ==
  LET c == j[1] IN
  /\ job[j] = "checking"
  /\ IF seen[c] # 0 /\ stamp[j] <= seen[c] + DedupTTL
     THEN /\ Goto(j, "duplicate")
          /\ UNCHANGED seen
     ELSE /\ Goto(j, "spawned")
          /\ seen' = [seen EXCEPT ![c] = stamp[j]]
  /\ stamp' = [stamp EXCEPT ![j] = 0]
  /\ UNCHANGED <<now, calling, cache, picked, runs, history>>
-------------------------------------------------------------------------------
(***************************************************************************)
(* _exec_cmd, on the thread of the command.                                *)
(***************************************************************************)

\* Variant: the clock is not read again.
BeginUnstamped(j) ==
  /\ job[j] = "spawned"
  /\ Goto(j, "stamped")
  /\ UNCHANGED <<now, calling, seen, cache, stamp, picked, runs, history>>

\* The clock is read before the lock of the cache is taken.
Begin(j) ==
  /\ job[j] = "spawned"
  /\ stamp' = [stamp EXCEPT ![j] = now]
  /\ Goto(j, "stamped")
  /\ UNCHANGED <<now, calling, seen, cache, picked, runs, history>>

\* _evict_replay_cache at time t: the expired entries of robot r ...
Old(r, t) == Expired(cache, r, t, ReplayTTL)

\* ... and, if the cache is full without them, the oldest of the others.
Surplus(r, t) ==
  LET left == Entries(cache, r) \ Old(r, t) IN
  IF Cardinality(left) >= ReplayMax
  THEN Oldest(left, Fifth(Cardinality(left)))
  ELSE {{}}

\* Variant: the command does not enter the cache before the robot has acted.
CheckReplayUnrecorded(j) ==
  LET c == j[1]
      r == Target[c]
  IN
  /\ job[j] = "stamped"
  /\ \E S \in Surplus(r, stamp[j]) :
       LET kept == Without(cache, Old(r, stamp[j]) \cup S) IN
       /\ cache' = kept
       /\ IF kept[c] # 0
          THEN /\ Goto(j, "replayed")
               /\ UNCHANGED last
          ELSE /\ Goto(j, "dispatch")
               /\ last' = [last EXCEPT ![c] = stamp[j]]
       /\ crowded' = crowded \cup CallsOf(S)
  /\ stamp' = [stamp EXCEPT ![j] = 0]
  /\ UNCHANGED <<now, calling, seen, picked, runs, dropped>>

\* In one section of the lock: room is made, and a command that is in the cache
\* is answered as a replay, one that is not enters it.
CheckReplay(j) ==
  LET c == j[1]
      r == Target[c]
  IN
  /\ job[j] = "stamped"
  /\ \E S \in Surplus(r, stamp[j]) :
       LET kept == Without(cache, Old(r, stamp[j]) \cup S) IN
       /\ IF kept[c] # 0
          THEN /\ Goto(j, "replayed")
               /\ cache' = kept
               /\ UNCHANGED last
          ELSE /\ Goto(j, "dispatch")
               /\ cache' = [kept EXCEPT ![c] = stamp[j]]
               /\ last' = [last EXCEPT ![c] = stamp[j]]
       /\ crowded' = crowded \cup CallsOf(S)
  /\ stamp' = [stamp EXCEPT ![j] = 0]
  /\ UNCHANGED <<now, calling, seen, picked, runs, dropped>>

\* Variant: the lockout is looked at when the robot has acted.
RefuseHavingActed(j) ==
  /\ job[j] = "dispatch"
  /\ runs' = [runs EXCEPT ![j[1]] = @ + 1]
  /\ Goto(j, "refused")
  /\ UNCHANGED <<now, calling, seen, cache, stamp, picked, history>>

\* _dispatch: a robot that is locked refuses ...
Refuse(j) ==
  /\ job[j] = "dispatch"
  /\ Goto(j, "refused")
  /\ UNCHANGED <<now, calling, seen, cache, stamp, picked, runs, history>>

\* ... another acts; one that raises has acted as far as anyone can tell.
Run(j) ==
  /\ job[j] = "dispatch"
  /\ runs' = [runs EXCEPT ![j[1]] = @ + 1]
  /\ Goto(j, "ran")
  /\ UNCHANGED <<now, calling, seen, cache, stamp, picked, history>>
-------------------------------------------------------------------------------
Next ==
  \/ Tick
  \/ \E c \in Calls : Send(c) \/ Return(c)
  \/ \E j \in Jobs :
       \/ Arrive(j) \/ Purge(j) \/ DropOldest(j) \/ Deduplicate(j)
       \/ Begin(j) \/ CheckReplay(j) \/ Refuse(j) \/ Run(j)
       \/ Accept(j)

Spec == Init /\ [][Next]_vars
-------------------------------------------------------------------------------
Kinds == {"ran", "refused", "replayed"}

TypeOK ==
  /\ now \in 1 .. MaxTime
  /\ stage \in [Calls -> {"idle", "waiting", "returned"}]
  /\ pending = {c \in Calls : stage[c] = "waiting"}
  /\ first \in [Calls -> Kinds \cup {"none"}]
  /\ result \in [Calls -> Kinds \cup {"none", "timeout"}]
  /\ sent \in [Calls -> 0 .. MaxTime]
  /\ seen \in [Calls -> 0 .. MaxTime]
  /\ cache \in [Calls -> 0 .. MaxTime]
  /\ job \in [Jobs -> Kinds \cup {"none", "sent", "arrived", "full", "checking",
                "duplicate", "spawned", "stamped", "dispatch"}]
  /\ stamp \in [Jobs -> 0 .. MaxTime]
  /\ \A j \in Jobs :
       stamp[j] # 0 <=> job[j] \in {"arrived", "full", "checking", "stamped"}
  /\ picked \in [Jobs -> SUBSET (Calls \X (1 .. MaxTime))]
  /\ runs \in [Calls -> Nat]
  /\ last \in [Calls -> 0 .. MaxTime]
  /\ dropped \subseteq Calls
  /\ crowded \subseteq Calls

(***************************************************************************)
(* A robot acts on a command once, over however many transports and in     *)
(* whatever order its copies come, unless the deduplicator was so full     *)
(* that it dropped the command's entry.                                    *)
(***************************************************************************)
ActsOnce == \A c \in Calls : c \notin dropped => runs[c] <= 1

(***************************************************************************)
(* Whatever the bridge lets through, the replay cache lets the same        *)
(* command pass again only after its window, counted from the reading of   *)
(* the clock the earlier copy carried, unless the entry fell to a full     *)
(* cache.                                                                  *)
(***************************************************************************)
ReplayWindowHolds ==
  [][\A c \in Calls :
       last'[c] # last[c] /\ last[c] # 0 /\ c \notin crowded'
         => now > last[c] + ReplayTTL]_vars

(***************************************************************************)
(* The answer a send returns tells the truth for good: a caller told that  *)
(* the robot refused, or that the command was a replay, is not told so of  *)
(* a command the robot has carried out or goes on to carry out, although   *)
(* the copies race each other and the answers overtake each other.         *)
(***************************************************************************)
AnswerIsTruthful ==
  \A c \in Calls \ dropped :
    /\ result[c] = "refused" => runs[c] = 0
    /\ result[c] # "replayed"

(***************************************************************************)
(* A call that has returned leaves nothing behind: an answer that comes    *)
(* too late does not bring its turn back into the tables, which would      *)
(* grow with every timeout.                                                *)
(***************************************************************************)
LateAnswersLeaveNothing ==
  \A c \in Calls : stage[c] = "returned" => c \notin pending /\ first[c] = "none"
-------------------------------------------------------------------------------
\* The calls of which a copy was refused.
RefusedCalls == {c \in Calls : \E j \in Jobs : j[1] = c /\ job[j] = "refused"}

Once == INSTANCE CommandOnce WITH
  acts <- runs, refused <- RefusedCalls, told <- result, withdrawn <- dropped

(***************************************************************************)
(* Two transports, two records that forget and a table of turns together   *)
(* keep the promise of CommandOnce: a command is carried out once or       *)
(* refused, and its caller learns which, or nothing.                       *)
(***************************************************************************)
CommandSpec == Once!Spec
===============================================================================
