------------------------------ MODULE Supervisor ------------------------------
(***************************************************************************)
(* One daemon(1) process and the client it supervises: run(),              *)
(* spawn_child(), examine_child() and the signal handlers of               *)
(* src/daemon/daemon.c over libslack's deferred signals and coprocesses.   *)
(*                                                                         *)
(* A signal only increments a counter (signal_catcher) and interrupts the  *)
(* system call the daemon is blocked in.  The handlers run later, when     *)
(* signal_handle_all() is called.  So a signal that arrives between        *)
(* signal_handle_all() and the next blocking call interrupts nothing: it   *)
(* waits in "pending" until something else wakes the daemon.               *)
(*                                                                         *)
(* Modelled: respawn or not, --read-eof or --ignore-eof, the pacing of the *)
(* respawns, stop (SIGTERM) and restart (SIGUSR1).  stdout and stderr of   *)
(* the client are one pipe.  Left out: ptys, stdin, the logind binding     *)
(* and where the output goes.                                              *)
(***************************************************************************)
EXTENDS Integers

CONSTANTS
  Attempts,     \* --attempts
  Limits,       \* the values of --limit; 0 is no limit
  MaxSignals,   \* bound: SIGTERMs and SIGUSR1s sent to the daemon
  MaxStops      \* bound: times the client is stopped or continued

ASSUME SupervisorAssumption ==
  /\ Attempts \in Nat /\ Limits \subseteq Nat
  /\ MaxSignals \in Nat /\ MaxStops \in Nat

VARIABLES
  respawn, readEof, limit,   \* options, fixed for the life of the daemon
  pc,                 \* where run() is
  pending,            \* signals caught and not handled: g_received
  missed,             \* history: those caught where they interrupt nothing
  terminated,         \* g.terminated
  receivedChld,       \* g.received_sigchld
  spawned,            \* g.spawn_time # 0
  attempt, burst,     \* g.attempt, g.burst
  client,             \* the process g.pid
  spared,             \* history: it was killed before it could be
  pipe,               \* its output: open, at end of file, or closed here
  short,              \* history: short runs since the counts began
  sent, stops         \* history: what the bounds count

options == <<respawn, readEof, limit>>
signals == <<pending, missed>>
flags == <<terminated, receivedChld>>
pacing == <<spawned, attempt, burst, short>>
bounds == <<sent, stops>>
vars == <<options, pc, signals, flags, pacing, client, spared, pipe, bounds>>

Blocked == {"select", "wait", "nap"}
(* The signals are handled and the next call will block. *)
Window == {"decide", "toWait", "toNap"}
Ready == {"pace", "fork", "signals", "waitIntr", "napIntr"}
Pc == Blocked \cup Window \cup Ready \cup {"off"}

(* forked: the child has not replaced the inherited handlers yet;          *)
(* dying: it got SIGTERM; exited: a zombie.                                *)
Client == {"none", "forked", "running", "dying", "exited"}
Signo == {"TERM", "USR1", "CHLD"}
Alive == {"forked", "running", "dying"}

Init ==
  /\ respawn \in BOOLEAN /\ readEof \in BOOLEAN /\ limit \in Limits
  /\ pc = "pace" /\ pending = {} /\ missed = {}
  /\ terminated = FALSE /\ receivedChld = FALSE
  /\ spawned = FALSE /\ attempt = 0 /\ burst = 0 /\ short = 0
  /\ client = "none" /\ spared = FALSE /\ pipe = "closed"
  /\ sent = 0 /\ stops = 0

-----------------------------------------------------------------------------
(* Signals. *)

NotInterrupted(zombie) == pc   \* mutant: SA_RESTART, blocking calls go on

(* Where a signal that is caught now makes the daemon go on.  waitpid()    *)
(* returns a zombie it has rather than EINTR.                              *)
Interrupted(zombie) ==
  CASE pc = "select" -> "signals"
    [] pc = "wait" /\ ~zombie -> "waitIntr"
    [] pc = "nap" -> "napIntr"
    [] OTHER -> pc

(* signal_catcher() *)
Caught(signo, zombie) ==
  /\ pc # "off"
  /\ pending' = pending \cup {signo}
  /\ missed' = IF pc \in Window THEN missed \cup {signo} ELSE missed
  /\ pc' = Interrupted(zombie)

(* kill(g.pid, SIGTERM): the handlers a fork inherits only count it.       *)
Killed(c) == IF c = "running" THEN "dying" ELSE c

RestartKeepsBurst ==   \* mutant: usr1() does not reset g.burst
  LET toClient == client # "none" /\ {"USR1", "TERM"} \cap pending # {}
      restart == client # "none" /\ "USR1" \in pending
  IN
  /\ pending' = {} /\ missed' = {}
  /\ client' = IF toClient THEN Killed(client) ELSE client
  /\ spared' = (spared \/ (toClient /\ client = "forked"))
  /\ terminated' = (terminated \/ "TERM" \in pending)
  /\ receivedChld' = (receivedChld \/ "CHLD" \in pending)
  /\ IF restart
     THEN spawned' = FALSE /\ attempt' = 0 /\ short' = 0 /\ UNCHANGED burst
     ELSE UNCHANGED pacing

(* signal_handle_all(): usr1(), term() and chld(), in the order of their   *)
(* numbers.  usr1() does nothing when there is no client.                  *)
HandleAll ==
  LET toClient == client # "none" /\ {"USR1", "TERM"} \cap pending # {}
      restart == client # "none" /\ "USR1" \in pending
  IN
  /\ pending' = {} /\ missed' = {}
  /\ client' = IF toClient THEN Killed(client) ELSE client
  /\ spared' = (spared \/ (toClient /\ client = "forked"))
  /\ terminated' = (terminated \/ "TERM" \in pending)
  /\ receivedChld' = (receivedChld \/ "CHLD" \in pending)
  /\ IF restart
     THEN spawned' = FALSE /\ attempt' = 0 /\ burst' = 0 /\ short' = 0
     ELSE UNCHANGED pacing

-----------------------------------------------------------------------------
(* spawn_child() *)

(* The clock decides whether the last client lasted shorter than           *)
(* --acceptable; one that has gone backwards counts as a short run.  A     *)
(* long run does not reset g.attempt.                                      *)
LongRun ==
  /\ pc' = "fork" /\ UNCHANGED pacing

EndsBurst == attempt + 1 >= Attempts
GivesUp == limit > 0 /\ burst + 1 >= limit

ShortRun ==
  /\ spawned
  /\ short' = short + 1
  /\ attempt' = attempt + 1
  /\ burst' = IF EndsBurst /\ limit > 0 THEN burst + 1 ELSE burst
  /\ pc' = CASE ~EndsBurst -> "fork"
             [] EndsBurst /\ GivesUp -> "off"
             [] OTHER -> "nap"
  /\ UNCHANGED spawned

Pace ==
  /\ pc = "pace"
  /\ receivedChld' = FALSE
  /\ LongRun \/ ShortRun
  /\ UNCHANGED <<options, signals, terminated, client, spared, pipe, bounds>>

AttemptGoesOn ==   \* mutant: g.attempt is not reset
  /\ pc = "nap" /\ pc' = "fork"
  /\ short' = IF limit = 0 THEN 0 ELSE short
  /\ UNCHANGED <<options, signals, flags, spawned, attempt, burst, client, spared, pipe, bounds>>

NapOver ==
  /\ pc = "nap" /\ pc' = "fork"
  /\ attempt' = 0
  /\ short' = IF limit = 0 THEN 0 ELSE short   \* then short counts one burst
  /\ UNCHANGED <<options, signals, flags, spawned, burst, client, spared, pipe, bounds>>

(* The nap begins anew after a signal that does not terminate the daemon.  *)
NapInterrupted ==
  /\ pc = "napIntr" /\ HandleAll
  /\ pc' = IF terminated' THEN "off" ELSE "toNap"
  /\ UNCHANGED <<options, pipe, bounds>>

NapAgain ==
  /\ pc = "toNap" /\ pc' = "nap"
  /\ UNCHANGED <<options, signals, flags, pacing, client, spared, pipe, bounds>>

(* coproc_open(), or its failure, which is fatal. *)
Fork ==
  /\ pc = "fork"
  /\ spawned' = TRUE
  /\ \/ client' = "forked" /\ spared' = FALSE /\ pipe' = "open" /\ pc' = "signals"
     \/ UNCHANGED <<client, spared, pipe>> /\ pc' = "off"
  /\ UNCHANGED <<options, signals, flags, attempt, burst, short, bounds>>

-----------------------------------------------------------------------------
(* run() *)
Signals ==
  /\ pc = "signals" /\ HandleAll
  /\ pc' = "decide"
  /\ UNCHANGED <<options, pipe, bounds>>

(* The end of the inner loop, or select().  examine_child() closes the     *)
(* pipe before it waits.                                                   *)
OutputIsFinal == pipe = "closed" \/ (~readEof /\ receivedChld)

AlwaysSelect ==   \* mutant: closed outputs do not end the loop
  /\ pc = "decide"
  /\ IF ~readEof /\ receivedChld
     THEN pc' = "wait" /\ pipe' = "closed"
     ELSE pc' = "select" /\ UNCHANGED pipe
  /\ UNCHANGED <<options, signals, flags, pacing, client, spared, bounds>>

Decide ==
  /\ pc = "decide"
  /\ IF OutputIsFinal
     THEN pc' = "wait" /\ pipe' = "closed"
     ELSE pc' = "select" /\ UNCHANGED pipe
  /\ UNCHANGED <<options, signals, flags, pacing, client, spared, bounds>>

SelectEof ==
  /\ pc = "select" /\ pipe = "eof"
  /\ pipe' = "closed" /\ pc' = "signals"
  /\ UNCHANGED <<options, signals, flags, pacing, client, spared, bounds>>

SelectOutput ==
  /\ pc = "select" /\ pipe = "open" /\ client # "forked"
  /\ pc' = "signals"
  /\ UNCHANGED <<options, signals, flags, pacing, client, spared, pipe, bounds>>

RespawnAnyway ==   \* mutant: g.terminated is not looked at
  /\ pc = "wait" /\ client = "exited"
  /\ client' = "none"
  /\ pc' = IF respawn THEN "pace" ELSE "off"
  /\ UNCHANGED <<options, signals, flags, pacing, spared, pipe, bounds>>

(* examine_child(): waitpid() in coproc_close(), and what comes of it. *)
Reap ==
  /\ pc = "wait" /\ client = "exited"
  /\ client' = "none"
  /\ pc' = IF respawn /\ ~terminated THEN "pace" ELSE "off"
  /\ UNCHANGED <<options, signals, flags, pacing, spared, pipe, bounds>>

WaitInterrupted ==
  /\ pc = "waitIntr" /\ HandleAll
  /\ pc' = "toWait"
  /\ UNCHANGED <<options, pipe, bounds>>

WaitAgain ==
  /\ pc = "toWait" /\ pc' = "wait"
  /\ UNCHANGED <<options, signals, flags, pacing, client, spared, pipe, bounds>>

-----------------------------------------------------------------------------
(* The client, and who signals the daemon. *)
ChildReady ==   \* prepare_child() and exec
  /\ client = "forked" /\ client' = "running"
  /\ UNCHANGED <<options, pc, signals, flags, pacing, spared, pipe, bounds>>

(* The client exits, by itself, by SIGTERM, or because exec failed.        *)
Exits(from) ==
  /\ client \in from /\ client' = "exited"
  /\ Caught("CHLD", TRUE)
  /\ pipe' \in IF pipe = "open" THEN {"open", "eof"} ELSE {pipe}
  /\ UNCHANGED <<options, flags, pacing, spared, bounds>>

(* The last process that had the output open closes it: the client before  *)
(* or after it is known to be dead, or a child of the client's.            *)
OutputEnds ==
  /\ pipe = "open" /\ client # "forked"
  /\ pipe' = "eof"
  /\ UNCHANGED <<options, pc, signals, flags, pacing, client, spared, bounds>>

(* SIGCHLD also tells that the client was stopped or continued. *)
ClientStopped ==
  /\ stops < MaxStops /\ stops' = stops + 1
  /\ client \in {"running", "dying"}
  /\ Caught("CHLD", FALSE)
  /\ UNCHANGED <<options, flags, pacing, client, spared, pipe, sent>>

Send(signo) ==
  /\ sent < MaxSignals /\ sent' = sent + 1
  /\ Caught(signo, client = "exited")
  /\ UNCHANGED <<options, flags, pacing, client, spared, pipe, stops>>

(* Nothing happens to the daemon any more. *)
Ended == pc = "off" /\ UNCHANGED vars

Daemon ==
  \/ Pace \/ NapOver \/ NapInterrupted \/ NapAgain \/ Fork
  \/ Signals \/ Decide \/ SelectEof
  \/ Reap \/ WaitInterrupted \/ WaitAgain

Environment ==
  \/ SelectOutput
  \/ ChildReady \/ Exits(Alive) \/ OutputEnds \/ ClientStopped
  \/ \E signo \in {"TERM", "USR1"} : Send(signo)
  \/ Ended

Next == Daemon \/ Environment
Spec == Init /\ [][Next]_vars

(* The daemon gets the processor and its timers run out; a fork gets to    *)
(* its exec; a client that got SIGTERM exits.  Nobody has to write output, *)
(* to close it, or to send a signal.                                       *)
Fairness ==
  /\ WF_vars(Daemon)
  /\ WF_vars(ChildReady)
  /\ WF_vars(Exits({"dying"}))

FairSpec == Spec /\ Fairness

-----------------------------------------------------------------------------
(* A burst is this many short runs. *)
PerBurst == IF Attempts = 0 THEN 1 ELSE Attempts

TypeOK ==
  /\ respawn \in BOOLEAN /\ readEof \in BOOLEAN /\ limit \in Limits
  /\ pc \in Pc /\ pending \subseteq Signo /\ missed \subseteq pending
  /\ terminated \in BOOLEAN /\ receivedChld \in BOOLEAN
  /\ spawned \in BOOLEAN /\ attempt \in 0..PerBurst /\ burst \in Nat /\ short \in Nat
  /\ client \in Client /\ spared \in BOOLEAN /\ pipe \in {"open", "eof", "closed"}
  /\ sent \in 0..MaxSignals /\ stops \in 0..MaxStops

(* The daemon gives up only after the last of limit full bursts: however   *)
(* restarts, signals and long runs are interleaved, it has then seen       *)
(* exactly limit * PerBurst short runs since it or a restart began to      *)
(* count, and before that fewer (spawn_child, usr1).                       *)
GivesUpOnlyThen ==
  limit > 0 => /\ short <= limit * PerBurst
               /\ (burst = limit <=> short = limit * PerBurst)
               /\ (burst = limit => pc = "off")

(* A zombie is not reaped while somebody holds its output open and the     *)
(* daemon is to read it to the end (--read-eof), or has missed SIGCHLD.    *)
OutputHeld == readEof /\ client = "exited" /\ pipe = "open"
MissedChld == pc = "select" /\ "CHLD" \in missed /\ client = "exited" /\ pipe = "open"

(* A client that exited is reaped, though SIGCHLD may come in the window   *)
(* where it interrupts nothing: the end of the output wakes the daemon.    *)
(* Only while that is held open may the client stay a zombie.              *)
ZombieReaped ==
  client = "exited" ~> (client # "exited" \/ []OutputHeld \/ []MissedChld)

(* A stop is not forgotten.  Once SIGTERM has been caught the daemon ends, *)
(* unless it is stuck for good in a known way: the signal came between     *)
(* signal_handle_all() and the blocking call and nothing wakes the daemon  *)
(* (run() says so itself); or the client had not reset its handlers when   *)
(* it was killed, lives on, and the daemon waits for it; or the client is  *)
(* a zombie that is not reaped.                                            *)
Deaf == pc \in {"select", "wait"} /\ "TERM" \in missed
Unkilled == terminated /\ spared /\ client = "running"

StopWorks ==
  "TERM" \in pending
    ~> (pc = "off" \/ []Deaf \/ []Unkilled \/ []OutputHeld \/ []MissedChld)

(* The same of one state, and so for the prover: a daemon that is blocked, *)
(* and has a stop or a dead client to see to, has something else under way *)
(* that wakes it (the end of the output, a zombie that waitpid() returns,  *)
(* a client that is about to exit or to exec), or it is stuck in one of    *)
(* the known ways.  No signal, short run or restart leaves it another      *)
(* (run, examine_child, prepare_child).                                    *)
Wakes ==
  \/ pc = "select" /\ pipe = "eof"
  \/ pc = "wait" /\ client = "exited"
  \/ client \in {"dying", "forked"}

StuckOnlySo ==
  pc \in {"select", "wait"} /\ (terminated \/ "TERM" \in pending \/ client = "exited")
    => Wakes \/ Deaf \/ Unkilled \/ OutputHeld \/ MissedChld

(* With --ignore-eof the daemon stops reading at SIGCHLD, "skipping any    *)
(* final output": it closes the output of a client that has exited, never  *)
(* that of one that runs (run, the branch on received_sigchld).            *)
OutputKept == [][pipe = "open" /\ pipe' = "closed" => client = "exited"]_vars

(* What a user of daemon(1) can rely on; see DaemonLife. *)
Life == INSTANCE DaemonLife WITH
  client <- IF client \in Alive THEN "up" ELSE IF client = "exited" THEN "dead" ELSE "none",
  told <- terminated,
  over <- pc = "off"

Implements == Life!Spec
===============================================================================
