----------------------------- MODULE TaskBoard -----------------------------
(***************************************************************************)
(* Tasks (core/task, agent-teams-mcp/src/task.rs and the board commands of *)
(* app/src-tauri/src/lib.rs): the append-only log of lifecycle transitions *)
(* that the sidecar processes of all panes append to, the file of cards    *)
(* that only the app's commands rewrite, and the cached fold of both that  *)
(* the board polls.                                                        *)
(*                                                                         *)
(* A command of the app runs to its end before the next, except the poll,  *)
(* which runs on the async runtime.  A file's (mtime, length) is its       *)
(* number of lines, for the log, and its number of rewrites, for the       *)
(* cards: no two versions of a file are taken to have the same.            *)
(***************************************************************************)
EXTENDS Integers, Sequences, FiniteSets

CONSTANTS
  Sidecars,       \* MCP sidecar processes, one per pane
  Scoped,         \* those with AGENT_TEAMS_TASK_SCOPE
  Polls,          \* threads that serve list_mcp_tasks
  CardIds,        \* ids the frontend gives cards
  Orders,         \* orders the frontend gives cards, now among them
  TaskCap,        \* MAX_TASKS
  TransitionCap,  \* MAX_TRANSITIONS_PER_TASK
  MaxRewrites     \* bound: rewrites of the cards

ASSUME BoardAssumption ==
  /\ Scoped \subseteq Sidecars
  /\ TaskCap \in Nat \ {0} /\ TransitionCap \in Nat \ {0}
  /\ Orders \subseteq Int /\ MaxRewrites \in Nat
  /\ IsFiniteSet(Sidecars)

Stages == {"created", "assigned", "doing", "review", "done"}
Columns == {"backlog", "doing", "review", "done"}
NoTask == 0
TaskIds == 1 .. TaskCap + Cardinality(Sidecars)

VARIABLES
  tlog,      \* disk: <name>-tasks-log.jsonl
  flock,     \* the sidecar that has the log's flock
  mcp,       \* per sidecar: its tool call
  cards,     \* disk: <name>-tasks.jsonl, in file order
  legible,   \* every read of that file succeeds; else each may fail
  rewrites,  \* history: how often it was written
  poll,      \* per thread: its poll
  cache,     \* CACHE of list_mcp_tasks
  cacheBy    \* the thread that has its mutex

logvars == <<tlog, flock, mcp>>
cardvars == <<cards, legible, rewrites>>
pollvars == <<poll, cache, cacheBy>>
boardvars == <<logvars, cardvars, pollvars>>

NoCall == [step |-> "idle", task |-> NoTask, to |-> "created", seen |-> 0]
NoPoll == [step |-> "idle", logKey |-> 0, storeKey |-> 0, logRead |-> 0,
           rows |-> <<0, 0>>]

BoardInit ==
  /\ tlog = <<>> /\ flock = {} /\ mcp = [s \in Sidecars |-> NoCall]
  /\ cards = <<>> /\ legible = TRUE /\ rewrites = 0
  /\ poll = [p \in Polls |-> NoPoll]
  /\ cache = [full |-> FALSE, logKey |-> 0, storeKey |-> 0, logRead |-> 0, rows |-> <<0, 0>>]
  /\ cacheBy = {}

-----------------------------------------------------------------------------
(* The transition log.                                                     *)

ValidTransition(from, to) ==
  <<from, to>> \in {<<"created", "assigned">>, <<"created", "doing">>, <<"assigned", "doing">>,
                    <<"doing", "review">>, <<"doing", "done">>,
                    <<"review", "doing">>, <<"review", "done">>}

LinesOf(log, id) == {i \in DOMAIN log : log[i].task = id}
LogTaskIds(log) == {log[i].task : i \in DOMAIN log}
LastOf(lineNos) == CHOOSE i \in lineNos : \A k \in lineNos : k <= i
CurrentLifecycle(log, id) == log[LastOf(LinesOf(log, id))].to
GenesisOwner(log, id) == log[CHOOSE i \in LinesOf(log, id) : log[i].from = "genesis"].by

Line(id, from, to, s) == [task |-> id, from |-> from, to |-> to, by |-> s]
Seen(s) == SubSeq(tlog, 1, mcp[s].seen)

(* task_create reads the log, without the lock, for its cap ...            *)
CreateRead(s) ==
  /\ mcp[s].step = "idle"
  /\ Cardinality(LogTaskIds(tlog)) < TaskCap
  /\ mcp' = [mcp EXCEPT ![s].step = "create"]
  /\ UNCHANGED <<tlog, flock, cardvars, pollvars>>

(* ... and appends the genesis line of a fresh id.                         *)
CreateAppend(s) ==
  /\ mcp[s].step = "create"
  /\ tlog' = Append(tlog, Line(Cardinality(LogTaskIds(tlog)) + 1, "genesis", "created", s))
  /\ mcp' = [mcp EXCEPT ![s] = NoCall]
  /\ UNCHANGED <<flock, cardvars, pollvars>>

(* Mutant of LockLog: the flock is shared.                                 *)
LockShared(s, id, to) ==
  /\ mcp[s].step = "idle" /\ to # "created"
  /\ flock' = flock \cup {s}
  /\ mcp' = [mcp EXCEPT ![s] = [step |-> "read", task |-> id, to |-> to, seen |-> 0]]
  /\ UNCHANGED <<tlog, cardvars, pollvars>>

(* task_transition takes the flock,                                        *)
LockLog(s, id, to) ==
  /\ mcp[s].step = "idle" /\ to # "created"
  /\ flock = {} /\ flock' = {s}
  /\ mcp' = [mcp EXCEPT ![s] = [step |-> "read", task |-> id, to |-> to, seen |-> 0]]
  /\ UNCHANGED <<tlog, cardvars, pollvars>>

(* reads the log,                                                          *)
TransitionRead(s) ==
  /\ mcp[s].step = "read"
  /\ mcp' = [mcp EXCEPT ![s].step = "append", ![s].seen = Len(tlog)]
  /\ UNCHANGED <<tlog, flock, cardvars, pollvars>>

(* and, when the task it read is known, in its scope, below the cap and at *)
(* a stage from which the edge is legal, appends.                          *)
TransitionAppend(s) ==
  LET id == mcp[s].task
      to == mcp[s].to
  IN /\ mcp[s].step = "append"
     /\ id \in LogTaskIds(Seen(s))
     /\ s \in Scoped => GenesisOwner(Seen(s), id) = s
     /\ Cardinality(LinesOf(Seen(s), id)) < TransitionCap
     /\ ValidTransition(CurrentLifecycle(Seen(s), id), to)
     /\ tlog' = Append(tlog, Line(id, CurrentLifecycle(Seen(s), id), to, s))
     /\ mcp' = [mcp EXCEPT ![s] = NoCall]
     /\ flock' = flock \ {s}
     /\ UNCHANGED <<cardvars, pollvars>>

(* The call is refused, by these checks, the tenant of the task or an I/O  *)
(* error, or its process is killed with its pane; the flock goes with it.  *)
CallEnds(s) ==
  /\ mcp[s].step # "idle"
  /\ mcp' = [mcp EXCEPT ![s] = NoCall]
  /\ flock' = flock \ {s}
  /\ UNCHANGED <<tlog, cardvars, pollvars>>

-----------------------------------------------------------------------------
(* The cards.                                                              *)

Card(id, col, ord) == [id |-> id, column |-> col, order |-> ord, parses |-> TRUE]

(* The elements of seq at the positions in keep, in order.                 *)
Sift(seq, keep) ==
  LET upTo[n \in 0 .. Len(seq)] ==
        IF n = 0 THEN <<>>
        ELSE IF n \in keep THEN Append(upTo[n - 1], seq[n]) ELSE upTo[n - 1]
  IN  upTo[Len(seq)]

Parsed == Sift(cards, {i \in DOMAIN cards : cards[i].parses})

(* What read_tasks returns.  A file that cannot be read counts as empty.   *)
ReadTasks == {Parsed} \cup (IF legible THEN {} ELSE {<<>>})

(* Mutant of WriteTasks: no shrink guard.                                  *)
WriteAnyTasks(set) ==
  /\ rewrites < MaxRewrites
  /\ cards' = set /\ rewrites' = rewrites + 1
  /\ UNCHANGED <<legible, logvars, pollvars>>

(* write_tasks: refused while a line of the file does not parse, but not   *)
(* when its own read of the file fails.                                    *)
WriteTasks(set) ==
  /\ rewrites < MaxRewrites
  /\ legible => \A i \in DOMAIN cards : cards[i].parses
  /\ cards' = set /\ rewrites' = rewrites + 1
  /\ UNCHANGED <<legible, logvars, pollvars>>

UpsertTask(card) ==
  \E tasks \in ReadTasks :
    IF \E i \in DOMAIN tasks : tasks[i].id = card.id
      THEN WriteTasks([i \in DOMAIN tasks |-> IF tasks[i].id = card.id THEN card ELSE tasks[i]])
      ELSE WriteTasks(Append(tasks, card))

(* create_task_kanban: a second create of an id replaces its card.         *)
CreateCard(id, col, ord) == UpsertTask(Card(id, col, ord))

(* update_task_kanban: the column, the order or both.  Its first read must *)
(* find the card.                                                          *)
UpdateCard(id, col, ord) ==
  \E i \in DOMAIN Parsed :
    /\ Parsed[i].id = id
    /\ ord \in Orders \/ ord = Parsed[i].order
    /\ UpsertTask(Card(id, col, ord))

(* reorder_task_kanban: the order halfway between the card dropped on and  *)
(* the one before it, or at an end of the column.                          *)
ColumnOf(tasks, id, col) == {i \in DOMAIN tasks : tasks[i].id # id /\ tasks[i].column = col}
Precedes(tasks, i, k) ==
  tasks[i].order < tasks[k].order \/ (tasks[i].order = tasks[k].order /\ i < k)
LastIn(tasks, set) == CHOOSE i \in set : \A k \in set \ {i} : Precedes(tasks, k, i)

DropOrder(tasks, id, col, before) ==
  LET dest == ColumnOf(tasks, id, col)
      onto == {i \in dest : tasks[i].id = before}
      above(i) == {k \in dest : Precedes(tasks, k, i)}
  IN CASE dest = {} -> 0
       [] dest # {} /\ onto = {} -> tasks[LastIn(tasks, dest)].order + 1
       [] OTHER ->
            LET i == CHOOSE k \in onto : TRUE
                prev == tasks[LastIn(tasks, above(i))].order
            IN IF above(i) = {} THEN tasks[i].order - 1
                                ELSE prev + (tasks[i].order - prev) \div 2

ReorderCard(id, col, before) ==
  /\ \E i \in DOMAIN Parsed : Parsed[i].id = id
  /\ UpsertTask(Card(id, col, DropOrder(Parsed, id, col, before)))

(* delete_task_kanban.                                                     *)
DeleteCard(id) ==
  \E tasks \in ReadTasks : WriteTasks(Sift(tasks, {i \in DOMAIN tasks : tasks[i].id # id}))

(* A line of the file is damaged, or written by a version this one cannot  *)
(* read.                                                                   *)
DamageCard(i) ==
  /\ rewrites < MaxRewrites /\ cards[i].parses
  /\ cards' = [cards EXCEPT ![i].parses = FALSE] /\ rewrites' = rewrites + 1
  /\ UNCHANGED <<legible, logvars, pollvars>>

(* Reads of the file begin to fail or succeed again: a byte that is no     *)
(* UTF-8 in it, its permissions, descriptors that run out.                 *)
ReadsTurn ==
  /\ legible' = ~legible
  /\ UNCHANGED <<cards, rewrites, logvars, pollvars>>

-----------------------------------------------------------------------------
(* list_mcp_tasks: the rows are known by the log lines and the version of  *)
(* the cards they were folded from.                                        *)

Polling(p, step) == poll[p].step = step

StatLog(p) ==
  /\ Polling(p, "idle")
  /\ poll' = [poll EXCEPT ![p] = [NoPoll EXCEPT !.step = "stat", !.logKey = Len(tlog)]]
  /\ UNCHANGED <<logvars, cardvars, cache, cacheBy>>

StatStore(p) ==
  /\ Polling(p, "stat")
  /\ poll' = [poll EXCEPT ![p].step = "lock", ![p].storeKey = rewrites]
  /\ UNCHANGED <<logvars, cardvars, cache, cacheBy>>

(* A full hit, or the mutex is held over a refresh, which takes the parsed *)
(* log from the cache when only the cards have changed.                    *)
LookUp(p) ==
  /\ Polling(p, "lock") /\ cacheBy = {}
  /\ LET sameLog == cache.full /\ cache.logKey = poll[p].logKey IN
       IF sameLog /\ cache.storeKey = poll[p].storeKey
         THEN /\ poll' = [poll EXCEPT ![p].step = "shown", ![p].rows = cache.rows]
              /\ UNCHANGED cacheBy
         ELSE /\ poll' = IF sameLog /\ cache.logKey # 0
                           THEN [poll EXCEPT ![p].step = "store", ![p].logRead = cache.logRead]
                           ELSE [poll EXCEPT ![p].step = "log"]
              /\ cacheBy' = {p}
  /\ UNCHANGED <<logvars, cardvars, cache>>

ParseLog(p) ==
  /\ Polling(p, "log")
  /\ poll' = [poll EXCEPT ![p].step = "store", ![p].logRead = Len(tlog)]
  /\ UNCHANGED <<logvars, cardvars, cache, cacheBy>>

(* Mutant of Refresh: the files are looked at after they were parsed.      *)
RefreshThenStat(p) ==
  /\ Polling(p, "store")
  /\ LET rows == <<poll[p].logRead, rewrites>> IN
       /\ poll' = [poll EXCEPT ![p].step = "shown", ![p].rows = rows, ![p].logRead = 0]
       /\ cache' = [full |-> TRUE, logKey |-> Len(tlog), storeKey |-> rewrites,
                    logRead |-> poll[p].logRead, rows |-> rows]
  /\ cacheBy' = {}
  /\ UNCHANGED <<logvars, cardvars>>

(* The cards are read, the rows folded and cached under the keys of the    *)
(* beginning.  The reads of a poll are taken to succeed: one that fails is *)
(* folded and cached like an empty file.                                   *)
Refresh(p) ==
  /\ Polling(p, "store")
  /\ LET rows == <<poll[p].logRead, rewrites>> IN
       /\ poll' = [poll EXCEPT ![p].step = "shown", ![p].rows = rows, ![p].logRead = 0]
       /\ cache' = [full |-> TRUE, logKey |-> poll[p].logKey, storeKey |-> poll[p].storeKey,
                    logRead |-> poll[p].logRead, rows |-> rows]
  /\ cacheBy' = {}
  /\ UNCHANGED <<logvars, cardvars>>

Shown(p) ==
  /\ Polling(p, "shown")
  /\ poll' = [poll EXCEPT ![p] = NoPoll]
  /\ UNCHANGED <<logvars, cardvars, cache, cacheBy>>

-----------------------------------------------------------------------------
SidecarStep(s) ==
  \/ CreateRead(s) \/ CreateAppend(s)
  \/ \E id \in TaskIds, to \in Stages : LockLog(s, id, to)
  \/ TransitionRead(s) \/ TransitionAppend(s) \/ CallEnds(s)

CardStep ==
  \/ \E id \in CardIds, col \in Columns :
       \/ \E ord \in Orders : CreateCard(id, col, ord)
       \/ \E ord \in Orders \cup {cards[i].order : i \in DOMAIN cards} : UpdateCard(id, col, ord)
       \/ \E before \in CardIds \cup {NoTask} : ReorderCard(id, col, before)
  \/ \E id \in CardIds : DeleteCard(id)
  \/ \E i \in DOMAIN cards : DamageCard(i)
  \/ ReadsTurn

PollStep(p) == StatLog(p) \/ StatStore(p) \/ LookUp(p) \/ ParseLog(p) \/ Refresh(p) \/ Shown(p)

BoardNext ==
  \/ \E s \in Sidecars : SidecarStep(s)
  \/ CardStep
  \/ \E p \in Polls : PollStep(p)

BoardSpec == BoardInit /\ [][BoardNext]_boardvars
-----------------------------------------------------------------------------
(* Properties.                                                             *)

LogLines == [task : TaskIds, from : Stages \cup {"genesis"}, to : Stages, by : Sidecars]

LogTypeOK ==
  /\ tlog \in Seq(LogLines)
  /\ flock \subseteq Sidecars
  /\ mcp \in [Sidecars -> [step : {"idle", "create", "read", "append"},
                           task : TaskIds \cup {NoTask}, to : Stages, seen : Nat]]

CardLines == [id : CardIds, column : Columns, order : Int, parses : BOOLEAN]

CardsTypeOK ==
  /\ cards \in Seq(CardLines)
  /\ legible \in BOOLEAN
  /\ rewrites \in 0 .. MaxRewrites

PollTypeOK ==
  /\ poll \in [Polls -> [step : {"idle", "stat", "lock", "log", "store", "shown"},
                         logKey : Nat, storeKey : Nat, logRead : Nat,
                         rows : Nat \X Nat]]
  /\ cache \in [full : BOOLEAN, logKey : Nat, storeKey : Nat, logRead : Nat, rows : Nat \X Nat]
  /\ cacheBy \subseteq Polls

BoardTypeOK == LogTypeOK /\ CardsTypeOK /\ PollTypeOK

(* However many sidecars write and die, the log of every task is one walk  *)
(* of the legal graph: it begins with its one genesis line, each line goes *)
(* on from the stage the line before it reached, and it has at most        *)
(* TransitionCap lines.                                                    *)
LegalHistory ==
  \A i \in DOMAIN tlog :
    LET earlier == {k \in LinesOf(tlog, tlog[i].task) : k < i} IN
      /\ (tlog[i].from = "genesis") <=> (earlier = {})
      /\ earlier # {} => /\ tlog[i].from = tlog[LastOf(earlier)].to
                         /\ ValidTransition(tlog[i].from, tlog[i].to)
                         /\ Cardinality(earlier) < TransitionCap

(* What a poll returns is not older than the files were when it looked,    *)
(* whichever poll filled the cache and whatever was written meanwhile.     *)
PollIsFresh ==
  \A p \in Polls : Polling(p, "shown") =>
    poll[p].rows[1] >= poll[p].logKey /\ poll[p].rows[2] >= poll[p].storeKey

(* While the file can be read, a card leaves it only when it is deleted:   *)
(* no other command erases one, a line that does not parse included.  When *)
(* a read fails the file counts as empty and the guard is off, so that the *)
(* next command that rewrites it may erase every card.                     *)
NoCardErased ==
  [][legible => \A i \in DOMAIN cards :
       \/ \E k \in DOMAIN cards' : cards'[k].id = cards[i].id
       \/ cards[i].parses /\ DeleteCard(cards[i].id)]_boardvars
=============================================================================
