-------------------------- MODULE SchedulerCluster --------------------------
(***************************************************************************)
(* Which node runs the scheduler, and how often a periodic event fires:    *)
(* the leader election of packages/server/serve.js (getIsLeaderFn,         *)
(* startLeadershipMonitor, scheduleHelper) and the interval events of      *)
(* packages/saltcorn-data/models/scheduler.ts (getIntervalTriggersDueNow,  *)
(* the loop of runScheduler), for one event, "Daily", of one tenant.       *)
(*                                                                         *)
(* A node holds an advisory lock on a dedicated database session and       *)
(* starts its loop when it has the lock.  The time of the next event is a  *)
(* configuration value: in the database, and cached by each node.  A node  *)
(* that stores it tells the others with NOTIFY - unless its primary has    *)
(* forked workers, because then processSend of the primary reaches its     *)
(* workers only.  A message makes the node query the configuration; the    *)
(* answer is put in its cache some time later, and answers that are on     *)
(* their way at once may come in any order.                                *)
(***************************************************************************)
EXTENDS Integers, FiniteSets

CONSTANTS
  Nodes,        \* the nodes of a multi_node deployment
  NoNode,
  Forked,       \* the primaries have forked workers
  Period,       \* time between two events
  MaxTime,      \* bound of the clock
  MaxFaults,    \* bound on crashes of nodes and sessions that are lost
  MaxReads      \* bound on the answers a node waits for at a time, together
                \* with the sessions that were lost

ASSUME ClusterAssumption ==
  /\ NoNode \notin Nodes
  /\ Forked \in BOOLEAN
  /\ Period \in Nat \ {0}
  /\ MaxTime \in Nat \ {0}
  /\ MaxFaults \in Nat /\ MaxReads \in Nat

VARIABLES
  pc,       \* the node: down, starting (load, listen), up
  sess,     \* the server knows the session of electLeaderConn
  owner,    \* the node whose session has the advisory lock
  lead,     \* isLeader at startup, then schedulerStarted of the monitor
  loop,     \* the scheduler loop of the node, see Loops
  stop,     \* scheduleHelper.stopScheduler
  cache,    \* next_daily_event in the node's State; Unset if it has none
  db,       \* next_daily_event in _sc_config
  claim,    \* the due time of the event that the loop is working on
  next,     \* the due time that it stores
  mail,     \* nodes that have a refresh message to handle
  reads,    \* answers on their way to a node; equal ones count as one
  overlap,  \* history: a due time was stored by a node with such an answer
  now,      \* the clock
  ran,      \* history: how often the event due at a time was run
  crashes, lost

node == <<pc, sess, owner, lead, stop>>
event == <<cache, db, claim, next, mail, reads, overlap, ran>>
vars == <<node, loop, event, now, crashes, lost>>

Unset == 0
Times == 0..(MaxTime + Period)

PCs == {"down", "load", "listen", "up"}
Loops == {"off", "ready", "store", "signal", "run"}

Init ==
  /\ pc = [n \in Nodes |-> "down"]
  /\ sess = [n \in Nodes |-> FALSE]
  /\ owner = NoNode
  /\ lead = [n \in Nodes |-> FALSE]
  /\ loop = [n \in Nodes |-> "off"]
  /\ stop = [n \in Nodes |-> FALSE]
  /\ cache = [n \in Nodes |-> Unset]
  /\ db = Unset
  /\ claim = [n \in Nodes |-> Unset]
  /\ next = [n \in Nodes |-> Unset]
  /\ mail = {}
  /\ reads = [n \in Nodes |-> {}]
  /\ overlap = FALSE
  /\ now = 1
  /\ ran = [t \in Times |-> 0]
  /\ crashes = 0
  /\ lost = 0

-----------------------------------------------------------------------------
(* Leader election.                                                        *)

(* Mutant of Leads: it succeeds only when nobody has the lock.             *)
LeadsAnew(n) == owner = NoNode

(* pg_try_advisory_lock succeeds for the session that has the lock already.*)
Leads(n) == owner \in {NoNode, n}
Locked(n) == IF Leads(n) THEN n ELSE owner

(* A node starts: its session is opened and tries the lock, ...            *)
Elect(n) ==
  /\ pc[n] = "down"
  /\ pc' = [pc EXCEPT ![n] = "load"]
  /\ sess' = [sess EXCEPT ![n] = TRUE]
  /\ owner' = Locked(n)
  /\ lead' = [lead EXCEPT ![n] = Leads(n)]
  /\ UNCHANGED <<stop, loop, event, now, crashes, lost>>

(* ... initMaster loads the configuration, ...                             *)
Load(n) ==
  /\ pc[n] = "load"
  /\ pc' = [pc EXCEPT ![n] = "listen"]
  /\ cache' = [cache EXCEPT ![n] = db]
  /\ UNCHANGED <<sess, owner, lead, stop, loop, db, claim, next, mail, reads,
                 overlap, ran, now, crashes, lost>>

(* ... and listens to the other nodes; then the loop is started, if the    *)
(* lock was there at the beginning, and the monitor.                       *)
Listen(n) ==
  /\ pc[n] = "listen"
  /\ pc' = [pc EXCEPT ![n] = "up"]
  /\ loop' = [loop EXCEPT ![n] = IF lead[n] THEN "ready" ELSE "off"]
  /\ UNCHANGED <<sess, owner, lead, stop, event, now, crashes, lost>>

(* Mutant of Poll: the answer of the server is not looked at.              *)
PollTrusting(n) ==
  /\ pc[n] = "up" /\ sess[n] /\ ~lead[n]
  /\ owner' = Locked(n)
  /\ lead' = [lead EXCEPT ![n] = TRUE]
  /\ loop' = [loop EXCEPT ![n] = "ready"]
  /\ UNCHANGED <<pc, sess, stop, event, now, crashes, lost>>

(* Mutant of Poll: the lock is taken, but the scheduler is not started.    *)
PollSilently(n) ==
  /\ pc[n] = "up" /\ sess[n]
  /\ Leads(n) # lead[n]
  /\ owner' = Locked(n)
  /\ lead' = [lead EXCEPT ![n] = Leads(n)]
  /\ UNCHANGED <<pc, sess, stop, loop, event, now, crashes, lost>>

(* The monitor asks for the lock and starts or stops the scheduler.  When  *)
(* the session is gone its query fails, and nothing else happens.          *)
Poll(n) ==
  /\ pc[n] = "up" /\ sess[n]
  /\ Leads(n) # lead[n]
  /\ owner' = Locked(n)
  /\ lead' = [lead EXCEPT ![n] = Leads(n)]
  /\ stop' = [stop EXCEPT ![n] = ~Leads(n)]
  /\ loop' = [loop EXCEPT ![n] = IF Leads(n) THEN "ready" ELSE @]
  /\ UNCHANGED <<pc, sess, event, now, crashes, lost>>

Fault == crashes + lost < MaxFaults

(* Another answer of the database may be on its way to the node.           *)
Room(n) == Cardinality(reads[n]) + lost < MaxReads

(* The server drops the session, and its lock, but the node goes on.       *)
SessionLost(n) ==
  /\ sess[n]
  /\ Fault /\ \A m \in Nodes : Room(m)
  /\ lost' = lost + 1
  /\ sess' = [sess EXCEPT ![n] = FALSE]
  /\ owner' = IF owner = n THEN NoNode ELSE owner
  /\ UNCHANGED <<pc, lead, stop, loop, event, now, crashes>>

(* What a node has in memory.                                              *)
Forget(n) ==
  /\ cache' = [cache EXCEPT ![n] = Unset]
  /\ claim' = [claim EXCEPT ![n] = Unset]
  /\ next' = [next EXCEPT ![n] = Unset]
  /\ mail' = mail \ {n}
  /\ reads' = [reads EXCEPT ![n] = {}]

Crash(n) ==
  /\ pc[n] # "down" /\ Fault
  /\ crashes' = crashes + 1
  /\ pc' = [pc EXCEPT ![n] = "down"]
  /\ sess' = [sess EXCEPT ![n] = FALSE]
  /\ owner' = IF owner = n THEN NoNode ELSE owner
  /\ lead' = [lead EXCEPT ![n] = FALSE]
  /\ stop' = [stop EXCEPT ![n] = FALSE]
  /\ loop' = [loop EXCEPT ![n] = "off"]
  /\ Forget(n)
  /\ UNCHANGED <<db, overlap, ran, now, lost>>

-----------------------------------------------------------------------------
(* A tick of the scheduler: the event, when it is due by the cache.        *)

(* The first time ever, a random time within the period is chosen and      *)
(* nothing is run.                                                         *)
FirstDue(n) ==
  /\ loop[n] = "ready" /\ ~stop[n]
  /\ cache[n] = Unset
  /\ \E d \in 0..(Period - 1) : next' = [next EXCEPT ![n] = now + d]
  /\ claim' = [claim EXCEPT ![n] = Unset]
  /\ loop' = [loop EXCEPT ![n] = "store"]
  /\ UNCHANGED <<node, cache, db, mail, reads, overlap, ran, now, crashes, lost>>

(* Mutant of Claim: the due time is not moved on.                          *)
ClaimAgain(n) ==
  /\ loop[n] = "ready" /\ ~stop[n]
  /\ cache[n] # Unset /\ cache[n] <= now
  /\ claim' = [claim EXCEPT ![n] = cache[n]]
  /\ next' = [next EXCEPT ![n] = cache[n]]
  /\ loop' = [loop EXCEPT ![n] = "store"]
  /\ UNCHANGED <<node, cache, db, mail, reads, overlap, ran, now, crashes, lost>>

(* Later, a due time that has come is moved on by a period, or to a period *)
(* from now when events were missed.                                       *)
Claim(n) ==
  /\ loop[n] = "ready" /\ ~stop[n]
  /\ cache[n] # Unset /\ cache[n] <= now
  /\ claim' = [claim EXCEPT ![n] = cache[n]]
  /\ next' = [next EXCEPT ![n] =
                IF now > cache[n] + Period THEN now + Period ELSE cache[n] + Period]
  /\ loop' = [loop EXCEPT ![n] = "store"]
  /\ UNCHANGED <<node, cache, db, mail, reads, overlap, ran, now, crashes, lost>>

(* setConfig: the value is written to the database, ...                    *)
Store(n) ==
  /\ loop[n] = "store"
  /\ db' = next[n]
  /\ loop' = [loop EXCEPT ![n] = "signal"]
  /\ overlap' = (overlap \/ reads[n] # {})
  /\ UNCHANGED <<node, cache, claim, next, mail, reads, ran, now, crashes, lost>>

(* ... then to the cache, and refresh messages go to this process and, by  *)
(* NOTIFY, to the nodes that listen.                                       *)
Signal(n) ==
  /\ loop[n] = "signal"
  /\ cache' = [cache EXCEPT ![n] = next[n]]
  /\ mail' = mail \union {n}
               \union {m \in Nodes : ~Forked /\ pc[m] = "up"}
  /\ loop' = [loop EXCEPT ![n] = "run"]
  /\ UNCHANGED <<node, db, claim, next, reads, overlap, ran, now, crashes, lost>>

(* Only then the triggers of the event are run.                            *)
Run(n) ==
  /\ loop[n] = "run"
  /\ ran' = IF claim[n] = Unset THEN ran
            ELSE [ran EXCEPT ![claim[n]] = IF @ < 2 THEN @ + 1 ELSE @]
  /\ claim' = [claim EXCEPT ![n] = Unset]
  /\ next' = [next EXCEPT ![n] = Unset]
  /\ loop' = [loop EXCEPT ![n] = "ready"]
  /\ UNCHANGED <<node, cache, db, mail, reads, overlap, now, crashes, lost>>

(* refresh_config, on a message: the configuration is read from the        *)
(* database, ...                                                           *)
RefreshRead(n) ==
  /\ n \in mail
  /\ Room(n)
  /\ mail' = mail \ {n}
  /\ reads' = [reads EXCEPT ![n] = @ \union {db}]
  /\ UNCHANGED <<node, loop, cache, db, claim, next, overlap, ran, now,
                 crashes, lost>>

(* ... and when the answer is there, it replaces the cache, whatever the   *)
(* node has stored since.                                                  *)
RefreshAssign(n) ==
  /\ \E v \in reads[n] :
       /\ cache' = [cache EXCEPT ![n] = v]
       /\ reads' = [reads EXCEPT ![n] = @ \ {v}]
  /\ UNCHANGED <<node, loop, db, claim, next, mail, overlap, ran, now,
                 crashes, lost>>

(* Somebody saves another setting: every node that listens is told to read *)
(* the configuration.                                                      *)
SaveSetting ==
  /\ mail' = mail \union {n \in Nodes : pc[n] = "up"}
  /\ UNCHANGED <<node, loop, cache, db, claim, next, reads, overlap, ran, now,
                 crashes, lost>>

TimePasses ==
  /\ now < MaxTime
  /\ now' = now + 1
  /\ UNCHANGED <<node, loop, event, crashes, lost>>

Starting(n) == Elect(n) \/ Load(n) \/ Listen(n)
Scheduling(n) == FirstDue(n) \/ Claim(n) \/ Store(n) \/ Signal(n) \/ Run(n)

Next ==
  \/ \E n \in Nodes : Starting(n) \/ Poll(n) \/ Scheduling(n)
                      \/ RefreshRead(n) \/ RefreshAssign(n)
                      \/ SessionLost(n) \/ Crash(n)
  \/ SaveSetting \/ TimePasses

(* Nodes are started again after a crash, the monitor's timer and the loop *)
(* go on, messages are handled, queries answered, time passes.  Nobody has *)
(* to save a setting.                                                      *)
Fairness ==
  /\ \A n \in Nodes : WF_vars(Starting(n)) /\ WF_vars(Poll(n))
                      /\ WF_vars(Scheduling(n))
                      /\ WF_vars(RefreshRead(n)) /\ WF_vars(RefreshAssign(n))
  /\ WF_vars(TimePasses)

Spec == Init /\ [][Next]_vars /\ Fairness

-----------------------------------------------------------------------------
TypeOK ==
  /\ pc \in [Nodes -> PCs]
  /\ sess \in [Nodes -> BOOLEAN]
  /\ owner \in Nodes \union {NoNode}
  /\ lead \in [Nodes -> BOOLEAN]
  /\ loop \in [Nodes -> Loops]
  /\ stop \in [Nodes -> BOOLEAN]
  /\ cache \in [Nodes -> Times]
  /\ db \in Times
  /\ claim \in [Nodes -> Times]
  /\ next \in [Nodes -> Times]
  /\ mail \subseteq Nodes
  /\ reads \in [Nodes -> SUBSET Times]
  /\ overlap \in BOOLEAN
  /\ now \in 1..MaxTime
  /\ ran \in [Times -> 0..2]
  /\ crashes \in 0..MaxFaults
  /\ lost \in 0..MaxFaults

(* Among the nodes whose session the server knows, one at most runs the    *)
(* scheduler, however nodes start, crash, poll and lose sessions.          *)
OneScheduler ==
  \A m, n \in Nodes :
    loop[m] # "off" /\ loop[n] # "off" /\ sess[m] /\ sess[n] => m = n

(* The monitor never stops a scheduler and starts it again: the loop that  *)
(* is asked to stop looks at a flag which the next start resets, so two    *)
(* loops would run in one process.                                         *)
NeverStopped == \A n \in Nodes : ~stop[n]

(* "Daily: run this once a day": no due time is served twice.              *)
EventOnce == \A t \in Times : ran[t] <= 1

(* It is true as long as the scheduler is not handed over and no due time *)
(* is stored while the node waits for an answer of the database: a message *)
(* that comes back to the node that sent it, or that any other setting     *)
(* causes, does not set its cache back then.                               *)
OncePerLeader == crashes = 0 /\ lost = 0 /\ ~overlap => EventOnce

(* Not so without the last condition: an answer that is older than the     *)
(* node's own due time puts the old one back in the cache (refresh_config).*)
OnceIfCalm == crashes = 0 /\ lost = 0 => EventOnce

(* "automatically select a leader": when no scheduler runs, one will.      *)
SchedulerRuns == (\A n \in Nodes : loop[n] = "off") ~> (\E n \in Nodes : loop[n] # "off")

(* An event that is due does not stay due: a scheduler takes it up, on     *)
(* whichever node and with whatever it has cached; as long as no session   *)
(* is lost, because then two loops set the due time, and no answer is      *)
(* older than a due time that its node has stored.                         *)
DueTaken == (db # Unset /\ db <= now) ~> (db > now \/ lost > 0 \/ overlap)
=============================================================================
