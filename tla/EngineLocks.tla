----------------------------- MODULE EngineLocks -----------------------------
(***************************************************************************)
(* The locks of the storage engine (src/src/engine.rs and the modules it   *)
(* calls) and of the MCP server over it (src/src/mcp): which lock every    *)
(* call takes, in which mode and order, and what it holds meanwhile.  What *)
(* the calls do under the locks is in Engine, Reads, Compaction and in     *)
(* McpCatalog and McpNotifications.                                        *)
(*                                                                         *)
(* The locks are parking_lot's: a reader of an RwLock does not pass a      *)
(* writer that waits for it, so a reader can wait for a lock that is only  *)
(* shared.                                                                 *)
(***************************************************************************)
EXTENDS Naturals, Sequences

CONSTANT Threads

VARIABLES
    kind,       \* whose calls the threads make, the storage engine's or the server's
    steps,      \* what each thread's call has still to do
    held,       \* the locks it holds, each with its mode
    asking      \* threads that wait to hold a lock exclusively

lvars == <<kind, steps, held, asking>>

-----------------------------------------------------------------------------
(* The calls.  "lock" is Mutex::lock or RwLock::write, "share" is          *)
(* RwLock::read; the guard lives while the steps in the middle are taken.  *)

Hold(l, inner)  == <<<<"lock", l>>>> \o inner \o <<<<"free", l>>>>
Share(l, inner) == <<<<"share", l>>>> \o inner \o <<<<"free", l>>>>

\* insert and get, iter, is_empty of the map of a memtable.  Each memtable has a lock of
\* its own; as no call takes a lock while it has one of them, a single one stands for all.
TableInsert == Hold("table", << >>)
TableRead == Share("table", << >>)

\* put, delete and write_batch: the record, the entries, the size that may call for a flush.
WriteLocks ==
    Hold("wal", << >>) \o Share("memtable", TableInsert) \o Share("memtable", << >>)

\* get: the active memtable, the frozen ones, the version; blocks come from the cache.
GetActiveLocks == Share("memtable", TableRead)
GetImmLocks == GetActiveLocks \o Share("imm", TableRead)
GetTablesLocks == GetImmLocks \o Share("version", << >>) \o Hold("cache", << >>)

\* scan: the same, the other way round.
ScanLocks ==
    Share("version", << >>) \o Hold("cache", << >>)
        \o Share("imm", TableRead) \o Share("memtable", TableRead)

\* flush: the rotation, which returns if there is nothing to flush, ...
RotateLocks == Hold("memtable", TableRead \o Hold("imm", << >>))

\* ... the table and its edit, ...
EditLocks == Hold("manifest", << >>) \o Hold("version", << >>)

\* ... the WAL, written anew from the memtables.
RewriteLocks ==
    Hold("wal", Hold("imm", TableRead \o Share("memtable", TableRead)))

\* Faulty: flushes are not serialised.
FlushLocksNoMutex == RotateLocks \o TableRead \o EditLocks \o RewriteLocks

FlushLocks == Hold("flush", RotateLocks \o TableRead \o EditLocks \o RewriteLocks)

NothingToFlushLocks == Hold("flush", Hold("memtable", TableRead))

\* compact: passes, the last of which finds no task.
CompactLocks ==
    Hold("compact", Share("version", << >>) \o EditLocks \o Share("version", << >>))

\* stats: both guards of the returned struct's fields live until it is built.
StatsLocks == Share("version", << >>) \o Share("memtable", Share("imm", << >>))

CloseLocks == Hold("wal", << >>)

EngineCalls ==
    {WriteLocks, WriteLocks \o FlushLocks, WriteLocks \o NothingToFlushLocks,
     GetActiveLocks, GetImmLocks, GetTablesLocks, ScanLocks,
     FlushLocks, NothingToFlushLocks, CompactLocks, StatsLocks, CloseLocks}

-----------------------------------------------------------------------------
(* The calls of the MCP server                                             *)

\* broadcast: every observer is called with the list of observers shared; the built-in one
\* collects what it is told.
BroadcastLocks == Share("observers", Hold("collected", << >>))

\* Faulty: an observer that subscribes another one when it is told of a message.
LogLocksSubscribing == Share("level", << >>) \o Share("observers", Hold("observers", << >>))

LogLocks == Share("level", << >>) \o BroadcastLocks

RegisterLocks(registry) == Hold(registry, << >>) \o BroadcastLocks

\* A tool is taken out of the registry and called when that is free again; the retrieval and
\* the agent engine are locked for as long as theirs take, in which an agent may use the store.
ToolLocks(call) == Share("tools", << >>) \o call

\* A provider reads while the list of providers is shared, and those that are asked first
\* lock their engine even for what they do not have.
ReadResourceLocks(reads) == Share("providers", reads)

ServerCalls ==
    {LogLocks, RegisterLocks("tools"), RegisterLocks("prompts"),
     Hold("observers", << >>), Hold("providers", << >>), Hold("level", << >>),
     Share("tools", << >>), Share("providers", << >>), Share("prompts", << >>),
     ToolLocks(WriteLocks), ToolLocks(StatsLocks), ToolLocks(Hold("rag", << >>)),
     ToolLocks(Hold("agent", WriteLocks \o FlushLocks)),
     ReadResourceLocks(StatsLocks),
     ReadResourceLocks(Share("rag", << >>) \o Share("agent", << >>))}

-----------------------------------------------------------------------------
Next1(t) == Head(steps[t])

\* By the thread itself too: the locks are not reentrant.
Held(l, modes) == \E u \in Threads : \E m \in modes : <<l, m>> \in held[u]

AskedByOther(t, l) == \E u \in asking \ {t} : Next1(u) = <<"lock", l>>

LocksInit ==
    /\ kind \in {"engine", "server"}
    /\ steps = [t \in Threads |-> << >>]
    /\ held = [t \in Threads |-> {}]
    /\ asking = {}

MakeCall(t) ==
    /\ steps[t] = << >>
    /\ \E call \in IF kind = "engine" THEN EngineCalls ELSE ServerCalls : steps' = [steps EXCEPT ![t] = call]
    /\ UNCHANGED <<kind, held, asking>>

\* A thread that wants a lock exclusively queues for it ...
Ask(t) ==
    /\ steps[t] # << >> /\ t \notin asking
    /\ Next1(t)[1] = "lock"
    /\ asking' = asking \cup {t}
    /\ UNCHANGED <<kind, steps, held>>

\* ... and has it once nobody else holds it.
Acquire(t) ==
    /\ t \in asking
    /\ LET l == Next1(t)[2] IN
         /\ ~Held(l, {"lock", "share"})
         /\ held' = [held EXCEPT ![t] = @ \cup {<<l, "lock">>}]
    /\ steps' = [steps EXCEPT ![t] = Tail(@)]
    /\ asking' = asking \ {t}
    /\ UNCHANGED kind

AcquireShared(t) ==
    /\ steps[t] # << >> /\ Next1(t)[1] = "share"
    /\ LET l == Next1(t)[2] IN
         /\ ~Held(l, {"lock"}) /\ ~AskedByOther(t, l)
         /\ held' = [held EXCEPT ![t] = @ \cup {<<l, "share">>}]
    /\ steps' = [steps EXCEPT ![t] = Tail(@)]
    /\ UNCHANGED <<kind, asking>>

Release(t) ==
    /\ steps[t] # << >> /\ Next1(t)[1] = "free"
    /\ held' = [held EXCEPT ![t] = {h \in @ : h[1] # Next1(t)[2]}]
    /\ steps' = [steps EXCEPT ![t] = Tail(@)]
    /\ UNCHANGED <<kind, asking>>

\* Writing or syncing a file fails: the call returns the error and its guards go.
Fails(t) ==
    /\ \E l \in {"wal", "manifest", "flush", "compact"} : <<l, "lock">> \in held[t]
    /\ t \notin asking
    /\ steps' = [steps EXCEPT ![t] = << >>]
    /\ held' = [held EXCEPT ![t] = {}]
    /\ UNCHANGED <<kind, asking>>

LocksNext ==
    \E t \in Threads : MakeCall(t) \/ Ask(t) \/ Acquire(t) \/ AcquireShared(t) \/ Release(t) \/ Fails(t)

LocksSpec == LocksInit /\ [][LocksNext]_lvars

-----------------------------------------------------------------------------
\* u must do something before t's next step can be taken.
Blocks(u, t) ==
    /\ steps[t] # << >>
    /\ LET l == Next1(t)[2] IN
         \/ Next1(t)[1] = "lock" /\ \E m \in {"lock", "share"} : <<l, m>> \in held[u]
         \/ /\ Next1(t)[1] = "share"
            /\ <<l, "lock">> \in held[u] \/ (u # t /\ u \in asking /\ Next1(u) = <<"lock", l>>)

\* No threads wait for each other, nor one for itself, although flush takes the locks of the
\* memtables and the WAL in both orders, stats holds one of them while it waits for the next,
\* and observers are called, and resources read, under a lock.
NoDeadlock ==
    ~ \E S \in SUBSET Threads :
        S # {} /\ \A t \in S : \E u \in S : Blocks(u, t)

\* The lock hierarchy of docs/ARCHITECTURE.md: a thread takes locks of a higher rank
\* than those it holds.
Rank(l) ==
    CASE l \in {"flush", "compact"} -> 2
      [] l = "memtable" -> 4
      [] l = "imm" -> 5
      [] l = "wal" -> 6
      [] l \in {"version", "manifest"} -> 7
      [] l \in {"cache", "table"} -> 8

LockHierarchy ==
    [][kind = "engine" => \A t \in DOMAIN held : \A new \in held'[t] \ held[t] : \A old \in held[t] :
          Rank(old[1]) < Rank(new[1])]_lvars
=============================================================================
