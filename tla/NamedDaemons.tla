----------------------------- MODULE NamedDaemons -----------------------------
(***************************************************************************)
(* The processes of daemon(1) that share one name: daemons being started   *)
(* and running, and the commands --stop, --restart and --running.  They    *)
(* meet in the file system only: the pidfile, its fcntl() lock and its     *)
(* contents (src/daemon/libslack/daemon.c), and the client pidfile         *)
(* (src/daemon/daemon.c).  One step is one system call, but ReadPid and    *)
(* Record, an open() and a read() or write(), are one each.  unlink()      *)
(* succeeds.                                                               *)
(*                                                                         *)
(* A process is known by its pid; an identifier is used again once its     *)
(* process is gone, as pids are.  The file may be unlinked and made anew   *)
(* while processes have the old one open, so files are inodes.  A lock is  *)
(* a process's and goes with the descriptor or the process.                *)
(*                                                                         *)
(* What a daemon does with its client, and on SIGTERM and SIGUSR1, is      *)
(* Supervisor's subject; here its client may die at any time and the       *)
(* daemon respawn it or end.  So --signal, which at most kills a client,   *)
(* adds nothing, and --list asks each name like --running.  A signal that  *)
(* reaches a process without handlers kills it.                            *)
(***************************************************************************)
EXTENDS FiniteSets

CONSTANTS Proc, Inode, None

ASSUME NamedAssumption == None \notin Proc /\ None \notin Inode

VARIABLES
  path,         \* the inode the pidfile's name leads to
  content,      \* the pid written in the file the name leads to
  role, pc,     \* what each process was started as, and where it is
  fd, holds,    \* its descriptor of the pidfile, and its lock on that
  target,       \* the pid it has read
  clientFile,   \* whose client is in the client pidfile
  robbed,       \* history: --stop unlinked the pidfile of a daemon
  crashed       \* history: a daemon got SIGKILL

files == <<path, content>>
desc == <<fd, holds>>
history == <<robbed, crashed>>
vars == <<files, role, pc, desc, target, clientFile, history>>

Role == {"start", "stop", "restart", "running"}

(* The daemon that has locked, verified and not yet unlinked the pidfile.  *)
OwnerPc == {"writepid", "stuck", "init", "spawn", "record", "run", "unrecorded",
            "reaped", "exitClient", "exitPid"}
Owner(p) == pc[p] \in OwnerPc
HandlersSet == {"spawn", "record", "run", "unrecorded", "reaped", "exitClient", "exitPid", "dying"}
Opened == {"lock", "verify", "drop", "queryLock", "queryClose", "dying"} \cup OwnerPc
NotOpened == {"off", "open", "reopen", "remove", "readpid", "signal", "query"}

Init ==
  /\ path = None /\ content = None
  /\ role = [p \in Proc |-> "start"] /\ pc = [p \in Proc |-> "off"]
  /\ fd = [p \in Proc |-> None] /\ holds = [p \in Proc |-> "no"]
  /\ target = [p \in Proc |-> None]
  /\ clientFile = None
  /\ robbed = FALSE /\ crashed = FALSE

-----------------------------------------------------------------------------
(* Helpers: process p goes on at place c; closes its descriptor; ends.     *)
Goto(p, c) == pc' = [pc EXCEPT ![p] = c]

Close(p) ==
  /\ fd' = [fd EXCEPT ![p] = None]
  /\ holds' = [holds EXCEPT ![p] = "no"]

(* unlink(): the name leads nowhere; who has the file open keeps it.       *)
Unlink == path' = None /\ content' = None

(* The process is gone, its descriptor and lock with it. *)
Gone(p) ==
  /\ Goto(p, "off") /\ Close(p)
  /\ target' = [target EXCEPT ![p] = None]
  /\ role' = [role EXCEPT ![p] = "start"]

(* fcntl_lock(F_SETLK): no other process may hold a lock that conflicts.   *)
Lockable(p, conflicting) ==
  \A q \in Proc \ {p} : fd[q] = fd[p] => holds[q] \notin conflicting

(* A command line of daemon(1) is started. *)
FirstStep ==
  [start |-> "open", stop |-> "open", restart |-> "readpid", running |-> "query"]

Launch(p, r) ==
  /\ pc[p] = "off"
  /\ role' = [role EXCEPT ![p] = r]
  /\ Goto(p, FirstStep[r])
  /\ UNCHANGED <<files, desc, target, clientFile, history>>

-----------------------------------------------------------------------------
(* daemon_lock_pidfile(), of a daemon that starts and of --stop.           *)

(* open(O_CREAT | O_EXCL) *)
Create(p) ==
  /\ pc[p] = "open" /\ path = None
  /\ \E i \in Inode \ {fd[q] : q \in Proc} :
       /\ path' = i
       /\ fd' = [fd EXCEPT ![p] = i]
  /\ Goto(p, "lock")
  /\ UNCHANGED <<content, role, holds, target, clientFile, history>>

Exists(p) ==
  /\ pc[p] = "open" /\ path # None
  /\ Goto(p, "reopen")
  /\ UNCHANGED <<files, role, desc, target, clientFile, history>>

(* open() of the file that was there a moment ago *)
Reopen(p) ==
  /\ pc[p] = "reopen"
  /\ IF path = None THEN Goto(p, "open") /\ UNCHANGED fd
     ELSE Goto(p, "lock") /\ fd' = [fd EXCEPT ![p] = path]
  /\ UNCHANGED <<files, role, holds, target, clientFile, history>>

(* A daemon that cannot lock does not start; --stop knows there is one.    *)
Lock(p) ==
  /\ pc[p] = "lock"
  /\ \/ /\ Lockable(p, {"read", "write"})
        /\ holds' = [holds EXCEPT ![p] = "write"] /\ Goto(p, "verify")
        /\ UNCHANGED <<role, fd, target>>
     \/ /\ ~Lockable(p, {"read", "write"}) /\ role[p] = "start"
        /\ Gone(p)
     \/ /\ ~Lockable(p, {"read", "write"}) /\ role[p] = "stop"
        /\ Close(p) /\ Goto(p, "readpid")
        /\ UNCHANGED <<role, target>>
  /\ UNCHANGED <<files, clientFile, history>>

(* The file is locked: is it still the pidfile? *)
Verified(p) == Goto(p, IF role[p] = "start" THEN "writepid" ELSE "drop")

VerifyNothing(p) ==   \* mutant: the inodes are not compared
  /\ pc[p] = "verify"
  /\ Verified(p) /\ UNCHANGED desc
  /\ UNCHANGED <<files, role, target, clientFile, history>>

VerifyLeaks(p) ==   \* mutant: the descriptor is not closed before "goto start"
  /\ pc[p] = "verify"
  /\ IF path = fd[p] THEN Verified(p) ELSE Goto(p, "open")
  /\ UNCHANGED <<files, role, desc, target, clientFile, history>>

Verify(p) ==
  /\ pc[p] = "verify"
  /\ IF path = fd[p] THEN Verified(p) /\ UNCHANGED desc
     ELSE Goto(p, "open") /\ Close(p)
  /\ UNCHANGED <<files, role, target, clientFile, history>>

-----------------------------------------------------------------------------
(* A daemon. *)
ClosesPidfile(p) ==   \* mutant: the file is closed once the pid is in it
  /\ pc[p] = "writepid" /\ Goto(p, "init") /\ Close(p)
  /\ content' = IF fd[p] = path THEN p ELSE content
  /\ UNCHANGED <<path, role, target, clientFile, history>>

(* write() may fail.  Then daemon_close() is called to unlink the file, but *)
(* it waits for g.lock, which daemon_pidfile() holds: it never returns, and *)
(* the process stays with the file locked until a signal ends it.          *)
WritePid(p) ==
  /\ pc[p] = "writepid"
  /\ \/ Goto(p, "init") /\ content' = IF fd[p] = path THEN p ELSE content
     \/ Goto(p, "stuck") /\ UNCHANGED content
  /\ UNCHANGED <<path, role, desc, target, clientFile, history>>

(* The rest of init() and prepare_parent(), or a failure in them; one      *)
(* before the calls of atexit() leaves what a crash leaves.                *)
SetHandlers(p) ==
  /\ pc[p] = "init"
  /\ Goto(p, "spawn") \/ Goto(p, "exitClient")
  /\ UNCHANGED <<files, role, desc, target, clientFile, history>>

(* spawn_child(): the client is started, or that fails, or the daemon      *)
(* gives up or learns of a SIGTERM before; then the pid is recorded.       *)
Spawn(p) ==
  /\ pc[p] = "spawn"
  /\ Goto(p, "record") \/ Goto(p, "exitClient")
  /\ UNCHANGED <<files, role, desc, target, clientFile, history>>

(* create_clientpidfile(): when open() fails the file stays as it is, when *)
(* write() fails it is unlinked; spawn_child() only logs either.           *)
Record(p) ==
  /\ pc[p] = "record"
  /\ \/ Goto(p, "run") /\ clientFile' = p
     \/ Goto(p, "unrecorded") /\ clientFile' \in {clientFile, None}
  /\ UNCHANGED <<files, role, desc, target, history>>

(* examine_child(): waitpid(), unlink_clientpidfile(), then spawn_child()  *)
(* or exit().                                                              *)
Reap(p) ==
  /\ pc[p] \in {"run", "unrecorded"} /\ Goto(p, "reaped")
  /\ UNCHANGED <<files, role, desc, target, clientFile, history>>

Respawn(p) ==
  /\ pc[p] = "reaped"
  /\ clientFile' = None
  /\ Goto(p, "spawn") \/ Goto(p, "exitClient")
  /\ UNCHANGED <<files, role, desc, target, history>>

(* exit(): the functions given to atexit() run last first, so the client   *)
(* pidfile goes before the pidfile, which is unlinked by its name and      *)
(* whatever it leads to.  The lock goes when the process does.             *)
PidfileFirst(p) ==   \* mutant: the order of the atexit() calls is swapped
  \/ /\ pc[p] = "exitClient" /\ Goto(p, "exitPid")
     /\ Unlink
     /\ UNCHANGED <<role, desc, target, clientFile, history>>
  \/ /\ pc[p] = "exitPid" /\ Goto(p, "dying")
     /\ clientFile' = None
     /\ UNCHANGED <<files, role, desc, target, history>>

AtExit(p) ==
  \/ /\ pc[p] = "exitClient" /\ Goto(p, "exitPid")
     /\ clientFile' = None
     /\ UNCHANGED <<files, role, desc, target, history>>
  \/ /\ pc[p] = "exitPid" /\ Goto(p, "dying")
     /\ Unlink
     /\ UNCHANGED <<role, desc, target, clientFile, history>>

Exit(p) ==
  /\ pc[p] = "dying" /\ Gone(p)
  /\ UNCHANGED <<files, clientFile, history>>

-----------------------------------------------------------------------------
(* The commands. *)

(* daemon_stop(): nobody had the lock, so there is no daemon.  The file is *)
(* closed, with that unlocked, and then unlinked by its name.              *)
Drop(p) ==
  /\ pc[p] = "drop" /\ Goto(p, "remove") /\ Close(p)
  /\ UNCHANGED <<files, role, target, clientFile, history>>

Remove(p) ==
  /\ pc[p] = "remove"
  /\ Unlink
  /\ robbed' = (robbed \/ \E q \in Proc : Owner(q) /\ fd[q] = path)
  /\ Gone(p)
  /\ UNCHANGED <<clientFile, crashed>>

(* daemon_stop() and daemon_getpid(): the pid in the file, if there is one.*)
ReadPid(p) ==
  /\ pc[p] = "readpid"
  /\ IF content # None
     THEN /\ target' = [target EXCEPT ![p] = content]
          /\ Goto(p, "signal")
          /\ UNCHANGED <<role, desc>>
     ELSE Gone(p)
  /\ UNCHANGED <<files, clientFile, history>>

(* kill() of whatever process has that pid now. *)
Signal(p) ==
  LET q == target[p] IN
  /\ pc[p] = "signal"
  /\ LET dead == {p} \cup (IF pc[q] \notin HandlersSet THEN {q} ELSE {})
         Reset(f, v) == [x \in Proc |-> IF x \in dead THEN v ELSE f[x]]
     IN
     /\ pc' = Reset(pc, "off")
     /\ fd' = Reset(fd, None) /\ holds' = Reset(holds, "no")
     /\ target' = Reset(target, None) /\ role' = Reset(role, "start")
  /\ UNCHANGED <<files, clientFile, history>>

(* daemon_is_running() *)
QueryOpen(p) ==
  /\ pc[p] = "query"
  /\ IF path = None THEN Gone(p)
     ELSE /\ fd' = [fd EXCEPT ![p] = path] /\ Goto(p, "queryLock")
          /\ UNCHANGED <<role, holds, target>>
  /\ UNCHANGED <<files, clientFile, history>>

QueryYes(p) ==
  /\ pc[p] = "queryLock" /\ ~Lockable(p, {"write"})
  /\ Gone(p)
  /\ UNCHANGED <<files, clientFile, history>>

QueryNo(p) ==
  /\ pc[p] = "queryLock" /\ Lockable(p, {"write"})
  /\ holds' = [holds EXCEPT ![p] = "read"] /\ Goto(p, "queryClose")
  /\ UNCHANGED <<files, role, fd, target, clientFile, history>>

QueryClose(p) ==
  /\ pc[p] = "queryClose" /\ Gone(p)
  /\ UNCHANGED <<files, clientFile, history>>

(* SIGKILL, or a crash: nothing is cleaned up but what the kernel does.    *)
Crash(p) ==
  /\ pc[p] # "off" /\ Gone(p)
  /\ crashed' = (crashed \/ Owner(p))
  /\ UNCHANGED <<files, clientFile, robbed>>

Start(p) ==
  \/ Create(p) \/ Exists(p) \/ Reopen(p) \/ Lock(p) \/ Verify(p)
  \/ WritePid(p) \/ SetHandlers(p)

Run(p) ==
  \/ Spawn(p) \/ Record(p) \/ Reap(p) \/ Respawn(p)
  \/ AtExit(p) \/ Exit(p)

Command(p) ==
  \/ Drop(p) \/ Remove(p) \/ ReadPid(p) \/ Signal(p)
  \/ QueryOpen(p) \/ QueryYes(p) \/ QueryNo(p) \/ QueryClose(p)

Step(p) ==
  \/ \E r \in Role : Launch(p, r)
  \/ Start(p) \/ Run(p) \/ Command(p) \/ Crash(p)

Next == \E p \in Proc : Step(p)

Spec == Init /\ [][Next]_vars

-----------------------------------------------------------------------------
TypeOK ==
  /\ path \in Inode \cup {None} /\ content \in Proc \cup {None}
  /\ role \in [Proc -> Role] /\ pc \in [Proc -> Opened \cup NotOpened]
  /\ fd \in [Proc -> Inode \cup {None}]
  /\ holds \in [Proc -> {"no", "read", "write"}]
  /\ \A p \in Proc : pc[p] \in Opened <=> fd[p] # None
  /\ target \in [Proc -> Proc \cup {None}]
  /\ \A p \in Proc : pc[p] = "signal" => target[p] # None
  /\ clientFile \in Proc \cup {None}
  /\ robbed \in BOOLEAN /\ crashed \in BOOLEAN

(* "The presence of this file will prevent two daemons with the same name  *)
(* from running at the same time": with any number of starts, stops and    *)
(* crashes, unless --stop has unlinked the file of a daemon that started   *)
(* between its close() and its unlink() (daemon_lock_pidfile).             *)
SingleInstance ==
  ~robbed => \A p, q \in Proc : Owner(p) /\ Owner(q) => p = q

(* The client pidfile names the client of the daemon that runs and has     *)
(* recorded it, whatever an older daemon still has to clean up.  When the  *)
(* recording failed the file is missing, or is what a killed daemon left;  *)
(* it never names the client of a daemon that ended in order, and does not *)
(* outlive its daemon unless that was killed (create_clientpidfile,        *)
(* unlink_clientpidfile).                                                  *)
ClientFileAgrees ==
  ~robbed =>
    /\ \A p \in Proc :
         /\ pc[p] = "run" => clientFile = p
         /\ pc[p] = "unrecorded" => clientFile = None \/ crashed
    /\ clientFile # None /\ ~crashed => Owner(clientFile)

(* --running and --stop say that there is no daemon only when at some time *)
(* since they opened the pidfile there was none: none owns the name when   *)
(* they find no pidfile, none when they find its lock free, and the file   *)
(* they opened stops being the pidfile only in a step that leaves none     *)
(* (daemon_is_running, daemon_stop).                                       *)
NoMeansNo ==
  [][~robbed' =>
       /\ \A p \in Proc :
            \/ QueryOpen(p) /\ path = None
            \/ (QueryNo(p) \/ (Verify(p) /\ pc'[p] = "drop")) /\ fd[p] = path
              => \A q \in Proc : ~Owner(q)
       /\ path # None /\ path' # path => \A q \in Proc : ~Owner(q)']_vars

(* What the users of a name can rely on; see OneDaemon.  The steps of      *)
(* daemon_lock_pidfile, of --stop and of exit() amount to one daemon that  *)
(* takes the name, announces itself and its client, and leaves.            *)
Name == INSTANCE OneDaemon WITH
  owners <- {p \in Proc : Owner(p)}, pid <- content, client <- clientFile, broken <- robbed

Implements == Name!Spec
===============================================================================
