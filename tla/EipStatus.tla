------------------------------ MODULE EipStatus ------------------------------
(***************************************************************************)
(* se.leap.bitmaskclient.eip.EipStatus: the hub's listener that reduces    *)
(* the connection level to the EipLevel the user interface shows.          *)
(*                                                                         *)
(* A NONETWORK or BLOCKING level is not shown at once.  It starts a        *)
(* DelayTask: an AsyncTask (one at a time, in order) that sleeps two       *)
(* seconds and then, on the main thread and without a lock, compares the   *)
(* level it was made for with the current one and overwrites the EipLevel. *)
(***************************************************************************)
EXTENDS VpnStatus, Naturals, Sequences, FiniteSets

CONSTANTS
  PersistTun,   \* mPersistTun of the last connected profile
  Delay,        \* the sleep of a DelayTask, in ticks of one second
  MaxTasks      \* bound: unfinished DelayTasks, and calls that will start one

ASSUME EipAssumption ==
  PersistTun \in BOOLEAN /\ Delay \in Nat \ {0} /\ MaxTasks \in Nat

VARIABLES
  vpnLevel,        \* EipStatus.vpnLevel
  currentEipLevel, \* EipStatus.currentEipLevel
  tmp,             \* updateState's local tmp, of the thread that holds the hub
  shown,           \* the EipLevel observers read at the last refresh()
  tasks,           \* levels of the DelayTasks on the serial executor
  slept,           \* ticks the first of them has slept
  posted,          \* levels of the DelayTasks whose onPostExecute is queued
  post,            \* the onPostExecute the main thread is inside
  since,           \* ticks since vpnLevel last changed, up to Delay
  stopping         \* history: STOPPING was accepted, no terminal state since

eipVars == <<vpnLevel, currentEipLevel, tmp, shown>>
taskVars == <<tasks, slept, posted, post, since, stopping>>
vars == <<hubVars, eipVars, taskVars>>

EipLevel ==
  {"CONNECTING", "DISCONNECTING", "CONNECTED", "DISCONNECTED", "BLOCKING", "UNKNOWN"}

Delayed == {"NONETWORK", "BLOCKING"}

(* setEipLevel for the levels it handles at once. *)
EipLevelOf(level) ==
  CASE level = "CONNECTED" -> "CONNECTED"
    [] level = "VPNPAUSED" -> IF PersistTun THEN "CONNECTING" ELSE "DISCONNECTED"
    [] level \in {"CONNECTING_SERVER_REPLIED", "CONNECTING_NO_SERVER_REPLY_YET",
                  "WAITING_FOR_USER_INPUT", "START"} -> "CONNECTING"
    [] level \in {"AUTH_FAILED", "NOTCONNECTED"} -> "DISCONNECTED"
    [] level = "STOPPING" -> "DISCONNECTING"
    [] OTHER -> "UNKNOWN"

(* Mutant: the level itself is shown. *)
DelayedEipLevelRaw(level) == level

(* What onPostExecute shows for a delayed level. *)
DelayedEipLevel(level) == IF level = "NONETWORK" THEN "DISCONNECTED" ELSE "BLOCKING"

PostIdle == [phase |-> "idle", level |-> "none"]

Init ==
  /\ HubInit
  /\ vpnLevel = "NOTCONNECTED" /\ currentEipLevel = "DISCONNECTED"
  /\ tmp = "NOTCONNECTED" /\ shown = "DISCONNECTED"
  /\ tasks = <<>> /\ slept = 0 /\ posted = <<>>
  /\ post = PostIdle /\ since = Delay /\ stopping = FALSE

(* The main thread does one thing at a time. *)
MainFree(t) == t = "main" => post = PostIdle

(* The bound on DelayTasks holds back the calls that would start one. *)
RoomFor(c) ==
  c.level \in Delayed =>
    Len(tasks) + Len(posted)
      + Cardinality({t \in Threads : calls[t].level \in Delayed}) < MaxTasks

Call(t) ==
  /\ MainFree(t)
  /\ \/ \E c \in Explicit[t] : RoomFor(c) /\ CallWithLevel(t, c)
     \/ \E s \in OpenVpnStates : CallWithoutLevel(t, s)
  /\ UNCHANGED <<eipVars, taskVars>>

GetLevelAgain(t) == LookAgain(t) /\ UNCHANGED <<eipVars, taskVars>>

Ignore(t) == UpdateIgnored(t) /\ UNCHANGED <<eipVars, taskVars>>

(* The first half of updateState: tmp, the setters and setLevel. *)
UpdateState(t) ==
  /\ UpdateAccepted(t)
  /\ tmp' = vpnLevel
  /\ vpnLevel' = calls[t].level
  /\ since' = IF vpnLevel' = vpnLevel THEN since ELSE 0
  /\ stopping' = (calls[t].state = "STOPPING" \/ (stopping /\ calls[t].state \notin Terminal))
  /\ UNCHANGED <<currentEipLevel, shown, tasks, slept, posted, post>>

RefreshOnReconnect(t) == calls[t].state = "RECONNECTING"   \* mutant
RefreshNeeded(t) == tmp # vpnLevel \/ calls[t].state = "RECONNECTING"

(* Mutant: the task is made for the level before the update. *)
SetEipLevelStaleTask(t) ==
  /\ UpdateReturns(t)
  /\ IF vpnLevel \in Delayed
     THEN /\ tasks' = (IF tmp \in Delayed THEN Append(tasks, tmp) ELSE tasks)
          /\ UNCHANGED currentEipLevel
     ELSE currentEipLevel' = EipLevelOf(vpnLevel) /\ UNCHANGED tasks
  /\ shown' = IF RefreshNeeded(t) THEN currentEipLevel' ELSE shown
  /\ UNCHANGED <<vpnLevel, tmp, slept, posted, post, since, stopping>>

(* setEipLevel or setEipLevelWithDelay, then refresh() if it is due. *)
SetEipLevel(t) ==
  /\ UpdateReturns(t)
  /\ IF vpnLevel \in Delayed
     THEN tasks' = Append(tasks, vpnLevel) /\ UNCHANGED currentEipLevel
     ELSE currentEipLevel' = EipLevelOf(vpnLevel) /\ UNCHANGED tasks
  /\ shown' = IF RefreshNeeded(t) THEN currentEipLevel' ELSE shown
  /\ UNCHANGED <<vpnLevel, tmp, slept, posted, post, since, stopping>>

(* Time passes, for the level and for the task that sleeps. *)
Tick ==
  /\ since' = IF since < Delay THEN since + 1 ELSE since
  /\ slept' = IF tasks # <<>> /\ slept < Delay THEN slept + 1 ELSE slept
  /\ UNCHANGED <<hubVars, eipVars, tasks, posted, post, stopping>>

(* doInBackground returns: onPostExecute is queued, the next task starts.  *)
SleepOver ==
  /\ tasks # <<>> /\ slept = Delay
  /\ posted' = Append(posted, Head(tasks))
  /\ tasks' = Tail(tasks) /\ slept' = 0
  /\ UNCHANGED <<hubVars, eipVars, post, since, stopping>>

(* onPostExecute on the main thread: compare, overwrite, refresh. *)
PostCompare ==
  /\ posted # <<>> /\ post = PostIdle
  /\ "main" \in Threads => calls["main"] = Idle
  /\ posted' = Tail(posted)
  /\ post' = IF Head(posted) = vpnLevel
             THEN [phase |-> "set", level |-> Head(posted)] ELSE PostIdle
  /\ UNCHANGED <<hubVars, eipVars, tasks, slept, since, stopping>>

PostSet ==
  /\ post.phase = "set"
  /\ currentEipLevel' = DelayedEipLevel(post.level)
  /\ post' = [post EXCEPT !.phase = "refresh"]
  /\ UNCHANGED <<hubVars, vpnLevel, tmp, shown, tasks, slept, posted, since, stopping>>

PostRefresh ==
  /\ post.phase = "refresh"
  /\ shown' = currentEipLevel
  /\ post' = PostIdle
  /\ UNCHANGED <<hubVars, vpnLevel, currentEipLevel, tmp, tasks, slept, posted, since, stopping>>

Next ==
  \/ \E t \in Threads :
       Call(t) \/ GetLevelAgain(t) \/ Ignore(t) \/ UpdateState(t) \/ SetEipLevel(t)
  \/ Tick \/ SleepOver \/ PostCompare \/ PostSet \/ PostRefresh

Spec == Init /\ [][Next]_vars

(* A thread that is inside a call finishes it, sleeps end, the main thread *)
(* runs what is posted to it.  Nobody has to make a call.                  *)
Fairness ==
  /\ \A t \in Threads : /\ WF_vars(GetLevelAgain(t))
                        /\ SF_vars(Ignore(t) \/ UpdateState(t))
                        /\ WF_vars(SetEipLevel(t))
  /\ WF_vars(Tick) /\ WF_vars(SleepOver)
  /\ SF_vars(PostCompare) /\ WF_vars(PostSet) /\ WF_vars(PostRefresh)

FairSpec == Spec /\ Fairness
-----------------------------------------------------------------------------
CallRecord == {Idle} \cup [state : StateName, level : ConnectionStatus \cup {Reread}]

(* Every field of VpnStatus, EipStatus and DelayTask stays in its range,   *)
(* and a pending onPostExecute is one for a debounced level.               *)
TypeOK ==
  /\ mLaststate \in StateName
  /\ mLastLevel \in ConnectionStatus
  /\ calls \in [Threads -> CallRecord]
  /\ holder \in Threads \cup {"none"}
  /\ vpnLevel \in ConnectionStatus /\ tmp \in ConnectionStatus
  /\ currentEipLevel \in EipLevel /\ shown \in EipLevel
  /\ tasks \in Seq(Delayed) /\ posted \in Seq(Delayed)
  /\ stopping \in BOOLEAN
  /\ slept \in 0..Delay /\ since \in 0..Delay
  /\ \/ post = PostIdle
     \/ post \in [phase : {"set", "refresh"}, level : Delayed]

(* Once STOPPING is accepted, and until the process is reported gone, no   *)
(* late OpenVPN state, late config notice or late DelayTask makes the VPN  *)
(* connecting or connected again.  VpnStatus.java:423-426 has to drop the  *)
(* states; EipStatus.java:164-178 can still overwrite the EipLevel.        *)
StoppingNotConnected ==
  stopping /\ holder = "none" =>
    /\ vpnLevel = "STOPPING"
    /\ currentEipLevel \in {"DISCONNECTING", "DISCONNECTED", "BLOCKING"}

(* What the observers saw last never overstates the connection: between    *)
(* two updates they show CONNECTED only while the level is CONNECTED, or   *)
(* is one whose debouncing has not ended.  It relates the refresh() guard  *)
(* of EipStatus.java:80-82 to the unlocked refresh of onPostExecute.       *)
Overstates(level) == level \notin {"CONNECTED"} \cup Delayed
ShownNeverOverstates ==
  holder = "none" /\ shown = "CONNECTED" => ~Overstates(vpnLevel)

(* A level that is debounced is shown in the end: if the VPN stays without *)
(* network, or blocked, the EipLevel and the observers settle on           *)
(* DISCONNECTED, or BLOCKING, whatever other tasks and updates were in     *)
(* flight (EipStatus.java:142-179).                                        *)
DelayedLevelShown ==
  \A l \in Delayed :
    <>[](vpnLevel = l) =>
      <>[](currentEipLevel = DelayedEipLevel(l) /\ shown = DelayedEipLevel(l))

(* The same of one state, and so for the prover: between two updates a     *)
(* debounced level is what EipStatus and the observers show, or a          *)
(* DelayTask made for it sleeps, is posted, or is at work.  No other task, *)
(* update or skipped refresh() leaves it behind (EipStatus.java:142-179).  *)
Waiting(l, queue) == \E i \in 1..Len(queue) : queue[i] = l
DelayedOnItsWay ==
  holder = "none" /\ vpnLevel \in Delayed =>
    \/ currentEipLevel = DelayedEipLevel(vpnLevel) /\ shown = DelayedEipLevel(vpnLevel)
    \/ Waiting(vpnLevel, tasks) \/ Waiting(vpnLevel, posted) \/ post.level = vpnLevel

(* EipStatus.java:137 says of the debouncing that it is "ignoring states   *)
(* that are valid for less than a second": a DelayTask that finds its      *)
(* level in place shows it only if it has been there for a second.         *)
Debounced ==
  [][post.phase = "set" /\ post'.phase = "refresh" /\ vpnLevel = post.level
       => since >= 1]_vars
=============================================================================
