----------------------------- MODULE PaneInput -----------------------------
(***************************************************************************)
(* Writing to one pane id: the app's write_to_pane for a pane of its own   *)
(* (app/src-tauri/src/lib.rs) and the daemon's SendInput / WritePtyRaw     *)
(* (core/daemon/src/server.rs, handlers.rs).  A claude pane is primed once *)
(* with an Esc that dismisses its startup banner; every harness but bash   *)
(* gets the body of a line first and, after a settle, its CR.              *)
(*                                                                         *)
(* The two owners differ in where they prime (the app under the pane's     *)
(* write lock, the daemon before it) and in what closing does (the app     *)
(* drops the write lock's entry).  The id may be closed, spawned again, or *)
(* die between any two steps.  A byte is abstracted to what wrote it:      *)
(* <<kind, writer, number of its write>>.                                  *)
(***************************************************************************)
EXTENDS Naturals, Sequences, FiniteSets

CONSTANTS
  Owners,      \* who may own the pane: "app", "daemon"
  Writers,     \* threads that serve a write
  Nobody,      \* holder of a free lock
  Harnesses,   \* harnesses a spawn may choose
  MaxPanes,    \* bound: spawns of the id
  MaxWrites    \* bound: writes per writer

ASSUME InputAssumption ==
  /\ Owners \subseteq {"app", "daemon"}
  /\ Harnesses \subseteq {"claude", "codex", "bash"}
  /\ Nobody \notin Writers
  /\ MaxPanes \in Nat /\ MaxWrites \in Nat

Inputs == {"text", "enter"}      \* a body with its CR, and a bare CR
SplitSubmit(h) == h # "bash"     \* harness_needs_split_submit

VARIABLES
  owner,       \* chosen once
  pane,        \* the Supervisor under the id: [n, up, alive, harness]
  tty,         \* what reached the PTY of pane n
  primed,      \* the id is in primed / claude_primed
  entry,       \* the generation of the id's write-lock entry
  holder,      \* generation -> holder
  spawning,    \* a spawn stands between its insert and its reset of primed
  closing,     \* the next step of a close
  at, input, gen, born, left, answer,  \* per writer
  early        \* history: writers whose prime check did not see pane n settled

panevars == <<pane, tty, spawning, closing>>
wrvars == <<at, input, gen, born, left, answer>>
inputvars == <<owner, panevars, primed, entry, holder, wrvars, early>>

InputInit ==
  /\ owner \in Owners
  /\ pane = [n |-> 0, up |-> FALSE, alive |-> FALSE, harness |-> "bash"]
  /\ tty = <<>> /\ primed = FALSE
  /\ entry = 0 /\ holder = [g \in 0 .. MaxPanes |-> Nobody]
  /\ spawning = FALSE /\ closing = "no"
  /\ at = [w \in Writers |-> "idle"] /\ input = [w \in Writers |-> "text"]
  /\ gen = [w \in Writers |-> 0] /\ born = [w \in Writers |-> 0]
  /\ left = [w \in Writers |-> MaxWrites]
  /\ answer = [w \in Writers |-> "none"]
  /\ early = {}

Byte(kind, w) == <<kind, w, left[w]>>
Put(kind, w) == tty' = Append(tty, Byte(kind, w))
GoOn(w, step) == at' = [at EXCEPT ![w] = step]

(* Mutant of Return: an error path that forgets the lock.                  *)
LeakOnError(w, a) ==
  /\ GoOn(w, "idle")
  /\ answer' = [answer EXCEPT ![w] = a]
  /\ holder' = IF a = "ok" /\ holder[gen[w]] = w THEN [holder EXCEPT ![gen[w]] = Nobody] ELSE holder

(* The write ends with the answer a; the guard of the write lock, if it is *)
(* held, is dropped.                                                       *)
Return(w, a) ==
  /\ GoOn(w, "idle")
  /\ answer' = [answer EXCEPT ![w] = a]
  /\ holder' = IF holder[gen[w]] = w THEN [holder EXCEPT ![gen[w]] = Nobody] ELSE holder

-----------------------------------------------------------------------------
(* A request arrives.                                                      *)
Call(w) ==
  /\ at[w] = "idle" /\ left[w] > 0
  /\ \E i \in Inputs : input' = [input EXCEPT ![w] = i]
  /\ left' = [left EXCEPT ![w] = @ - 1]
  /\ answer' = [answer EXCEPT ![w] = "none"]
  /\ GoOn(w, IF owner = "app" THEN "lock" ELSE "claim")
  /\ UNCHANGED <<owner, panevars, primed, entry, holder, gen, born, early>>

(* maybe_prime_claude: check and insert under the lock of primed alone.    *)
ClaimPrime(w) ==
  /\ at[w] = "claim"
  /\ primed' = TRUE
  /\ GoOn(w, IF primed THEN "contains" ELSE "isclaude")
  /\ early' = IF pane.up /\ ~spawning THEN early \ {w} ELSE early \cup {w}
  /\ UNCHANGED <<owner, panevars, entry, holder, input, gen, born, left, answer>>

IsClaude(w) ==
  /\ at[w] = "isclaude"
  /\ GoOn(w, IF pane.up /\ pane.harness = "claude" THEN "esc" ELSE "contains")
  /\ UNCHANGED <<owner, panevars, primed, entry, holder, input, gen, born, left, answer, early>>

(* The one Esc; the settle is the time until the writer's next step.       *)
WriteEsc(w) ==
  /\ at[w] = "esc"
  /\ IF pane.up /\ (owner = "daemon" \/ pane.alive) THEN Put("esc", w) ELSE UNCHANGED tty
  /\ GoOn(w, IF owner = "app" THEN "body" ELSE "contains")
  /\ UNCHANGED <<owner, pane, spawning, closing, primed, entry, holder, input, gen, born,
                 left, answer, early>>

(* handle_split_write: an unknown id mints no lock.                        *)
Contains(w) ==
  /\ at[w] = "contains"
  /\ IF pane.up THEN GoOn(w, "lock") /\ UNCHANGED <<answer, holder>>
                ELSE Return(w, "unknown")
  /\ UNCHANGED <<owner, panevars, primed, entry, input, gen, born, left, early>>

(* The Arc of the id's current entry is cloned ...                         *)
TakeEntry(w) ==
  /\ at[w] = "lock"
  /\ gen' = [gen EXCEPT ![w] = entry]
  /\ GoOn(w, "wait")
  /\ UNCHANGED <<owner, panevars, primed, entry, holder, input, born, left, answer, early>>

(* ... and locked.                                                         *)
Acquire(w) ==
  /\ at[w] = "wait" /\ holder[gen[w]] = Nobody
  /\ holder' = [holder EXCEPT ![gen[w]] = w]
  /\ GoOn(w, IF owner = "app" THEN "prime" ELSE "body")
  /\ UNCHANGED <<owner, panevars, primed, entry, input, gen, born, left, answer, early>>

(* write_to_pane primes under the write lock, and claims for a claude only.*)
PrimeUnderLock(w) ==
  /\ at[w] = "prime"
  /\ LET claude == pane.up /\ pane.harness = "claude" IN
       /\ primed' = (primed \/ claude)
       /\ GoOn(w, IF claude /\ ~primed THEN "esc" ELSE "body")
  /\ early' = IF pane.up /\ ~spawning THEN early \ {w} ELSE early \cup {w}
  /\ UNCHANGED <<owner, panevars, entry, holder, input, gen, born, left, answer>>

(* Mutant of WriteBody: the settle runs outside the write lock.            *)
UnlockedSettle(w) ==
  /\ at[w] = "body"
  /\ \/ /\ ~pane.up
        /\ Return(w, "unknown")
        /\ UNCHANGED <<tty, born>>
     \/ /\ pane.up /\ ~pane.alive
        /\ Return(w, "dead")
        /\ UNCHANGED <<tty, born>>
     \/ /\ pane.up /\ pane.alive
        /\ born' = [born EXCEPT ![w] = pane.n]
        /\ \/ /\ input[w] = "text" /\ SplitSubmit(pane.harness)
              /\ Put("body", w)
              /\ GoOn(w, "settle") /\ UNCHANGED answer /\ holder' = [holder EXCEPT ![gen[w]] = Nobody]
           \/ /\ ~(input[w] = "text" /\ SplitSubmit(pane.harness))
              /\ Put(IF input[w] = "text" THEN "line" ELSE "enter", w)
              /\ Return(w, "ok")
  /\ UNCHANGED <<owner, pane, spawning, closing, primed, entry, input, gen, left, early>>

(* Mutant of WriteBody: the line is acknowledged before its settle.        *)
AckBeforeSettle(w) ==
  /\ at[w] = "body"
  /\ \/ /\ ~pane.up
        /\ Return(w, "unknown")
        /\ UNCHANGED <<tty, born>>
     \/ /\ pane.up /\ ~pane.alive
        /\ Return(w, "dead")
        /\ UNCHANGED <<tty, born>>
     \/ /\ pane.up /\ pane.alive
        /\ born' = [born EXCEPT ![w] = pane.n]
        /\ \/ /\ input[w] = "text" /\ SplitSubmit(pane.harness)
              /\ Put("body", w)
              /\ GoOn(w, "settle") /\ answer' = [answer EXCEPT ![w] = "ok"] /\ UNCHANGED holder
           \/ /\ ~(input[w] = "text" /\ SplitSubmit(pane.harness))
              /\ Put(IF input[w] = "text" THEN "line" ELSE "enter", w)
              /\ Return(w, "ok")
  /\ UNCHANGED <<owner, pane, spawning, closing, primed, entry, input, gen, left, early>>

(* Phase 1: the alive gate, and the body (or the whole input) written.     *)
WriteBody(w) ==
  /\ at[w] = "body"
  /\ \/ /\ ~pane.up
        /\ Return(w, "unknown")
        /\ UNCHANGED <<tty, born>>
     \/ /\ pane.up /\ ~pane.alive
        /\ Return(w, "dead")
        /\ UNCHANGED <<tty, born>>
     \/ /\ pane.up /\ pane.alive
        /\ born' = [born EXCEPT ![w] = pane.n]
        /\ \/ /\ input[w] = "text" /\ SplitSubmit(pane.harness)
              /\ Put("body", w)
              /\ GoOn(w, "settle") /\ UNCHANGED <<answer, holder>>
           \/ /\ ~(input[w] = "text" /\ SplitSubmit(pane.harness))
              /\ Put(IF input[w] = "text" THEN "line" ELSE "enter", w)
              /\ Return(w, "ok")
  /\ UNCHANGED <<owner, pane, spawning, closing, primed, entry, input, gen, left, early>>

(* Phase 2: the CR goes to whatever pane has the id by now.                *)
WriteCr(w) ==
  /\ at[w] = "settle"
  /\ IF pane.up /\ pane.alive THEN Put("cr", w) ELSE UNCHANGED tty
  /\ Return(w, "ok")
  /\ UNCHANGED <<owner, pane, spawning, closing, primed, entry, input, gen, born, left, early>>

-----------------------------------------------------------------------------
(* sups.insert of a spawn.  The app replaces a pane, the daemon refuses    *)
(* ALREADY_LIVE and holds the id claim against its own closes.             *)
Insert ==
  /\ ~spawning /\ pane.n < MaxPanes
  /\ owner = "daemon" => ~pane.up /\ closing = "no"
  /\ \E h \in Harnesses :
       pane' = [n |-> pane.n + 1, up |-> TRUE, alive |-> TRUE, harness |-> h]
  /\ tty' = <<>>
  /\ spawning' = TRUE
  /\ early' = {w \in Writers : at[w] # "idle"}
  /\ UNCHANGED <<owner, closing, primed, entry, holder, wrvars>>

(* Mutant of ForgetPrimed: a respawn inherits the mark.                    *)
PrimedStays ==
  /\ spawning
  /\ spawning' = FALSE
  /\ UNCHANGED <<owner, pane, tty, closing, primed, entry, holder, wrvars, early>>

(* forget_primed / claude_primed.remove, after the insert.                 *)
ForgetPrimed ==
  /\ spawning
  /\ spawning' = FALSE
  /\ primed' = FALSE
  /\ UNCHANGED <<owner, pane, tty, closing, entry, holder, wrvars, early>>

Die ==
  /\ pane.up /\ pane.alive
  /\ pane' = [pane EXCEPT !.alive = FALSE]
  /\ UNCHANGED <<owner, tty, spawning, closing, primed, entry, holder, wrvars, early>>

(* close_workspace, handle_close and the reaper, lock by lock: the app     *)
(* resets primed, removes the pane and drops the entry of the write lock;  *)
(* the daemon removes the pane and resets primed.                          *)
CloseStart ==
  /\ closing = "no" /\ pane.up
  /\ IF owner = "app"
       THEN primed' = FALSE /\ closing' = "remove" /\ UNCHANGED pane
       ELSE /\ ~spawning
            /\ pane' = [pane EXCEPT !.up = FALSE, !.alive = FALSE]
            /\ closing' = "forget" /\ UNCHANGED primed
  /\ UNCHANGED <<owner, tty, spawning, entry, holder, wrvars, early>>

CloseRemove ==
  /\ closing = "remove"
  /\ pane' = [pane EXCEPT !.up = FALSE, !.alive = FALSE]
  /\ closing' = "drop"
  /\ UNCHANGED <<owner, tty, spawning, primed, entry, holder, wrvars, early>>

CloseDropLock ==
  /\ closing = "drop" /\ entry < MaxPanes
  /\ entry' = entry + 1
  /\ closing' = "no"
  /\ UNCHANGED <<owner, pane, tty, spawning, primed, holder, wrvars, early>>

CloseForget ==
  /\ closing = "forget"
  /\ primed' = FALSE
  /\ closing' = "no"
  /\ UNCHANGED <<owner, pane, tty, spawning, entry, holder, wrvars, early>>

-----------------------------------------------------------------------------
WriterStep(w) ==
  \/ ClaimPrime(w) \/ IsClaude(w) \/ WriteEsc(w) \/ Contains(w) \/ TakeEntry(w)
  \/ Acquire(w) \/ PrimeUnderLock(w) \/ WriteBody(w) \/ WriteCr(w)

InputNext ==
  \/ \E w \in Writers : Call(w) \/ WriterStep(w)
  \/ Insert \/ ForgetPrimed \/ Die
  \/ CloseStart \/ CloseRemove \/ CloseDropLock \/ CloseForget

InputSpec == InputInit /\ [][InputNext]_inputvars

(* A thread that serves a write keeps running: its sleeps end and it never *)
(* waits on the peer.                                                      *)
InputFairness == \A w \in Writers : WF_inputvars(WriterStep(w))
InputFairSpec == InputSpec /\ InputFairness
-----------------------------------------------------------------------------
(* Properties.                                                             *)

InputTypeOK ==
  /\ owner \in Owners
  /\ pane \in [n : 0 .. MaxPanes, up : BOOLEAN, alive : BOOLEAN,
               harness : Harnesses \cup {"bash"}]
  /\ tty \in Seq({"esc", "body", "cr", "line", "enter"} \X Writers \X (0 .. MaxWrites))
  /\ primed \in BOOLEAN /\ spawning \in BOOLEAN
  /\ entry \in 0 .. MaxPanes
  /\ holder \in [0 .. MaxPanes -> Writers \cup {Nobody}]
  /\ closing \in {"no", "remove", "drop", "forget"}
  /\ at \in [Writers -> {"idle", "claim", "isclaude", "esc", "contains", "lock", "wait",
                         "prime", "body", "settle"}]
  /\ input \in [Writers -> Inputs]
  /\ gen \in [Writers -> 0 .. MaxPanes] /\ born \in [Writers -> 0 .. MaxPanes]
  /\ left \in [Writers -> 0 .. MaxWrites]
  /\ answer \in [Writers -> {"none", "ok", "unknown", "dead"}]
  /\ early \in SUBSET Writers

IsLine(b) == b[1] # "esc"

(* No splice: in what a pane receives, the next input after the body of a  *)
(* split line is that line's own CR, whatever threads write, die or close  *)
(* at the time; so nobody submits or extends another writer's half-written *)
(* line.  The app promises it while no close has dropped the id's lock.    *)
NoSplice ==
  entry = 0 =>
    \A i \in DOMAIN tty : \A j \in i + 1 .. Len(tty) :
      /\ tty[i][1] = "body" /\ IsLine(tty[j])
      /\ \A k \in i + 1 .. j - 1 : ~IsLine(tty[k])
      => tty[j] = <<"cr", tty[i][2], tty[i][3]>>

(* What was answered ok reached the pane, and a split line its submit too, *)
(* as long as the pane it was written to is still the one under the id and *)
(* has not died.                                                           *)
WrittenIsSubmitted ==
  \A w \in Writers :
    answer[w] = "ok" /\ born[w] = pane.n /\ pane.alive =>
      \E i \in DOMAIN tty :
        \/ tty[i] = Byte("line", w) \/ tty[i] = Byte("enter", w)
        \/ tty[i] = Byte("body", w) /\ \E j \in i + 1 .. Len(tty) : tty[j] = Byte("cr", w)

(* A line never reaches a fresh claude pane before the Esc that dismisses  *)
(* the banner, which would swallow it, except from a writer whose prime    *)
(* check overtook the pane's spawn.                                        *)
PrimedBeforeLine ==
  \A i \in DOMAIN tty :
    pane.harness = "claude" /\ tty[i][1] = "body" /\ at[tty[i][2]] = "settle"
      /\ tty[i] = Byte("body", tty[i][2]) /\ born[tty[i][2]] = pane.n
      /\ tty[i][2] \notin early =>
      \E j \in 1 .. i - 1 : tty[j][1] = "esc"

(* The app primes under the write lock, so it keeps that order as long as  *)
(* no close has dropped the lock.                                          *)
AppPrimedBeforeLine == owner = "app" /\ entry = 0 => PrimedBeforeLine

(* Every write is answered and lets go of the pane: no order of a settle,  *)
(* a death, a close and a respawn leaves a writer holding the write lock.  *)
WriteAnswered == \A w \in Writers : at[w] # "idle" ~> at[w] = "idle"
=============================================================================
