-------------------------- MODULE EipStatus_proofs --------------------------
(***************************************************************************)
(* Theorems about EipStatus, for every set of threads and state names,     *)
(* every delay and every bound on DelayTasks.                              *)
(***************************************************************************)
EXTENDS EipStatus, TLAPS

(* What the calls of Explicit are: names and levels of the hub, STOPPING   *)
(* only ever with its own level.                                           *)
LEMMA ExplicitTyped ==
  ASSUME NEW t \in Threads, NEW c \in Explicit[t]
  PROVE  /\ c \in [state : StateName, level : ConnectionStatus]
         /\ c.state = "STOPPING" => c.level = "STOPPING"
<1>1. t \in {"mgmt", "main", "eip", "start", "proc"}
  BY ThreadsAssumption DEF Explicit
<1>2. CASE t = "mgmt"  BY <1>2 DEF Explicit, At, StateName, ConnectionStatus
<1>3. CASE t = "main"  BY <1>3 DEF Explicit, At, StateName, ConnectionStatus
<1>4. CASE t = "eip"   BY <1>4 DEF Explicit, At, StateName, ConnectionStatus
<1>5. CASE t = "start" BY <1>5 DEF Explicit, At, StateName, ConnectionStatus
<1>6. CASE t = "proc"  BY <1>6 DEF Explicit, At, StateName, ConnectionStatus
<1>7. QED  BY <1>1, <1>2, <1>3, <1>4, <1>5, <1>6

(* A >STATE line makes a call of the right shape, never a STOPPING one.    *)
LEMMA StateLineTyped ==
  ASSUME NEW s \in OpenVpnStates
  PROVE  /\ At(s, FirstLook(s, mLaststate)) \in CallRecord
         /\ s # "STOPPING"
         /\ SecondLook(mLaststate) \in ConnectionStatus
<1>1. s \in StateName /\ s # "STOPPING"
  BY DEF StateName, OpenVpnStates, NoReplyYet, Reply, Connected, NotConnected
<1>2. FirstLook(s, mLaststate) \in ConnectionStatus \cup {Reread}
  <2>1. CASE s \in NotConnected
    BY <2>1 DEF FirstLook, ConnectionStatus
  <2>2. CASE s \notin NotConnected /\ mLaststate # "STOPPING"
    <3>1. ClassLevel(s) \in ConnectionStatus
      BY <2>2 DEF ClassLevel, OpenVpnStates, ConnectionStatus
    <3>2. QED  BY <2>2, <3>1 DEF FirstLook
  <2>3. CASE s \notin NotConnected /\ mLaststate = "STOPPING"
    BY <2>3 DEF FirstLook
  <2>4. QED  BY <2>1, <2>2, <2>3
<1>3. SecondLook(mLaststate) \in ConnectionStatus
  BY DEF SecondLook, ConnectionStatus
<1>4. QED  BY <1>1, <1>2, <1>3 DEF At, CallRecord

LEMMA EipLevelTyped ==
  ASSUME NEW l \in ConnectionStatus
  PROVE  /\ EipLevelOf(l) \in EipLevel
         /\ DelayedEipLevel(l) \in {"DISCONNECTED", "BLOCKING"}
BY DEF EipLevelOf, DelayedEipLevel, ConnectionStatus, EipLevel

-----------------------------------------------------------------------------
(* Type correctness. *)
LEMMA TypeInit == Init => TypeOK
<1> SUFFICES ASSUME Init PROVE TypeOK  OBVIOUS
<1>1. calls \in [Threads -> CallRecord]
  BY DEF Init, HubInit, CallRecord
<1>2. tasks \in Seq(Delayed) /\ posted \in Seq(Delayed) /\ post = PostIdle
  BY DEF Init
<1>3. slept \in 0..Delay /\ since \in 0..Delay
  BY EipAssumption DEF Init
<1>4. stopping \in BOOLEAN
  BY DEF Init
<1>5. QED
  BY <1>1, <1>2, <1>3, <1>4 DEF Init, HubInit, TypeOK, StateName, ConnectionStatus,
     EipLevel

LEMMA TypeStep == TypeOK /\ [Next]_vars => TypeOK'
<1> SUFFICES ASSUME TypeOK, [Next]_vars PROVE TypeOK'  OBVIOUS
<1> USE DEF TypeOK
<1>1. ASSUME NEW t \in Threads, Call(t) PROVE TypeOK'
  <2>1. calls' \in [Threads -> CallRecord]
    <3>1. CASE \E c \in Explicit[t] : CallWithLevel(t, c)
      <4>1. PICK c \in Explicit[t] : CallWithLevel(t, c)  BY <3>1
      <4>2. c \in CallRecord  BY ExplicitTyped DEF CallRecord
      <4>3. QED  BY <4>1, <4>2 DEF CallWithLevel
    <3>2. CASE \E s \in OpenVpnStates : CallWithoutLevel(t, s)
      <4>1. PICK s \in OpenVpnStates : CallWithoutLevel(t, s)  BY <3>2
      <4>2. QED  BY <4>1, StateLineTyped DEF CallWithoutLevel
    <3>3. QED  BY <1>1, <3>1, <3>2 DEF Call
  <2>2. UNCHANGED <<mLaststate, mLastLevel, holder, eipVars, taskVars>>
    BY <1>1 DEF Call, CallWithLevel, CallWithoutLevel
  <2>3. QED  BY <2>1, <2>2 DEF eipVars, taskVars
<1>2. ASSUME NEW t \in Threads, GetLevelAgain(t) PROVE TypeOK'
  <2>1. SecondLook(mLaststate) \in ConnectionStatus
    BY DEF SecondLook, ConnectionStatus
  <2>2. calls' \in [Threads -> CallRecord]
    BY <1>2, <2>1 DEF GetLevelAgain, LookAgain, CallRecord, Idle, At, Reread
  <2>3. QED  BY <1>2, <2>2 DEF GetLevelAgain, LookAgain, eipVars, taskVars
<1>3. ASSUME NEW t \in Threads, Ignore(t) PROVE TypeOK'
  <2>1. calls' \in [Threads -> CallRecord]
    BY <1>3 DEF Ignore, UpdateIgnored, Idle, At, CallRecord
  <2>2. QED  BY <1>3, <2>1 DEF Ignore, UpdateIgnored, eipVars, taskVars
<1>4. ASSUME NEW t \in Threads, UpdateState(t) PROVE TypeOK'
  <2>1. calls[t] \in CallRecord /\ calls[t].level \in ConnectionStatus
    BY <1>4 DEF UpdateState, UpdateAccepted, Ready
  <2>2. calls[t].state \in StateName
    BY <2>1 DEF CallRecord, Idle, At, ConnectionStatus
  <2>3. QED
    BY <1>4, <2>1, <2>2, EipAssumption DEF UpdateState, UpdateAccepted
<1>5. ASSUME NEW t \in Threads, SetEipLevel(t) PROVE TypeOK'
  <2>1. calls' \in [Threads -> CallRecord] /\ holder' = "none"
    BY <1>5 DEF SetEipLevel, UpdateReturns, Idle, At, CallRecord
  <2>2. currentEipLevel' \in EipLevel /\ tasks' \in Seq(Delayed)
    <3>1. CASE vpnLevel \in Delayed
      BY <1>5, <3>1 DEF SetEipLevel
    <3>2. CASE vpnLevel \notin Delayed
      BY <1>5, <3>2, EipLevelTyped DEF SetEipLevel
    <3>3. QED  BY <3>1, <3>2
  <2>3. QED
    BY <1>5, <2>1, <2>2 DEF SetEipLevel, UpdateReturns
<1>6. CASE Tick
  BY <1>6, EipAssumption DEF Tick, hubVars, eipVars
<1>7. CASE SleepOver
  <2>1. posted' \in Seq(Delayed) /\ tasks' \in Seq(Delayed) /\ slept' \in 0..Delay
    BY <1>7, EipAssumption DEF SleepOver
  <2>2. QED  BY <1>7, <2>1 DEF SleepOver, hubVars, eipVars
<1>8. CASE PostCompare
  <2>1. posted' \in Seq(Delayed) /\ Head(posted) \in Delayed
    BY <1>8 DEF PostCompare
  <2>2. QED  BY <1>8, <2>1 DEF PostCompare, hubVars, eipVars
<1>9. CASE PostSet
  <2>1. post \in [phase : {"set", "refresh"}, level : Delayed]
    BY <1>9 DEF PostSet, PostIdle
  <2>2. currentEipLevel' \in EipLevel
    BY <1>9 DEF PostSet, DelayedEipLevel, EipLevel
  <2>3. QED  BY <1>9, <2>1, <2>2 DEF PostSet, hubVars
<1>10. CASE PostRefresh
  BY <1>10 DEF PostRefresh, hubVars
<1>11. CASE UNCHANGED vars
  BY <1>11 DEF vars, hubVars, eipVars, taskVars
<1>12. QED
  BY <1>1, <1>2, <1>3, <1>4, <1>5, <1>6, <1>7, <1>8, <1>9, <1>10, <1>11 DEF Next

(* Every field stays in its range, for every instance. *)
THEOREM EipStatusTypeOK == Spec => []TypeOK
BY TypeInit, TypeStep, PTL DEF Spec

-----------------------------------------------------------------------------
LEMMA NoneIsNoThread == \A t \in Threads : t # "none"
BY ThreadsAssumption DEF Explicit

(* Why STOPPING is never undone.  The hub and EipStatus hold the same      *)
(* level; the thread that holds the lock is the one whose call they hold;  *)
(* STOPPING comes with its own level, from a call that names it and not    *)
(* from a >STATE line; and while it is the last state, Ignored lets only a *)
(* terminal state replace it.                                              *)
HubConsistent ==
  /\ vpnLevel = mLastLevel
  /\ holder # "none" => calls[holder] = At(mLaststate, mLastLevel)
  /\ \A t \in Threads : calls[t].state = "STOPPING" => calls[t].level = "STOPPING"
  /\ mLaststate = "STOPPING" => mLastLevel = "STOPPING"
  /\ stopping <=> mLaststate = "STOPPING"

StoppingInv == TypeOK /\ HubConsistent /\ StoppingNotConnected

LEMMA StoppingInit == Init => StoppingInv
<1> SUFFICES ASSUME Init PROVE StoppingInv  OBVIOUS
<1>1. HubConsistent
  BY DEF Init, HubInit, HubConsistent, Idle, At
<1>2. StoppingNotConnected
  BY DEF Init, HubInit, StoppingNotConnected
<1>3. QED  BY <1>1, <1>2, TypeInit DEF StoppingInv

LEMMA StoppingStep == StoppingInv /\ [Next]_vars => StoppingInv'
<1> SUFFICES ASSUME StoppingInv, [Next]_vars PROVE StoppingInv'  OBVIOUS
<1> USE DEF StoppingInv
<1>1. TypeOK /\ TypeOK'
  BY TypeStep
<1>2. ASSUME NEW t \in Threads, Call(t) PROVE HubConsistent' /\ StoppingNotConnected'
  <2>1. UNCHANGED <<mLaststate, mLastLevel, holder, vpnLevel, currentEipLevel, stopping>>
    BY <1>2 DEF Call, CallWithLevel, CallWithoutLevel, eipVars, taskVars
  <2>2. calls[t] = Idle
    BY <1>2 DEF Call, CallWithLevel, CallWithoutLevel
  <2>3. holder # t
    BY <2>2, <1>1, NoneIsNoThread DEF HubConsistent, Idle, At, TypeOK, ConnectionStatus
  <2>4. PICK c : /\ calls' = [calls EXCEPT ![t] = c]
                 /\ c.state = "STOPPING" => c.level = "STOPPING"
    <3>1. CASE \E c \in Explicit[t] : CallWithLevel(t, c)
      <4>1. PICK c \in Explicit[t] : CallWithLevel(t, c)  BY <3>1
      <4>2. calls' = [calls EXCEPT ![t] = c]  BY <4>1 DEF CallWithLevel
      <4>3. c.state = "STOPPING" => c.level = "STOPPING"  BY ExplicitTyped
      <4>4. QED  BY <4>2, <4>3
    <3>2. CASE \E s \in OpenVpnStates : CallWithoutLevel(t, s)
      <4>1. PICK s \in OpenVpnStates : CallWithoutLevel(t, s)  BY <3>2
      <4> DEFINE c == At(s, FirstLook(s, mLaststate))
      <4>2. calls' = [calls EXCEPT ![t] = c]  BY <4>1 DEF CallWithoutLevel
      <4>3. c.state # "STOPPING"  BY StateLineTyped DEF At
      <4> HIDE DEF c
      <4>4. QED  BY <4>2, <4>3
    <3>3. QED  BY <1>2, <3>1, <3>2 DEF Call
  <2>5. QED
    BY <2>1, <2>3, <2>4, <1>1 DEF HubConsistent, StoppingNotConnected, TypeOK
<1>3. ASSUME NEW t \in Threads, GetLevelAgain(t)
      PROVE HubConsistent' /\ StoppingNotConnected'
  <2>1. /\ UNCHANGED <<mLaststate, mLastLevel, holder, vpnLevel, currentEipLevel, stopping>>
        /\ calls[t].level = Reread
        /\ calls' = [calls EXCEPT ![t].level = SecondLook(mLaststate)]
    BY <1>3 DEF GetLevelAgain, LookAgain, eipVars, taskVars
  <2>2. holder # t /\ calls[t].state # "STOPPING"
    BY <2>1, <1>1, NoneIsNoThread
    DEF HubConsistent, At, Reread, TypeOK, ConnectionStatus
  <2>3. calls'[t].state = calls[t].state /\ \A u \in Threads \ {t} : calls'[u] = calls[u]
    BY <2>1, <1>1 DEF TypeOK, CallRecord, Idle, At
  <2>4. QED
    BY <2>1, <2>2, <2>3, <1>1 DEF HubConsistent, StoppingNotConnected, TypeOK
<1>4. ASSUME NEW t \in Threads, Ignore(t)
      PROVE HubConsistent' /\ StoppingNotConnected'
  <2>1. /\ UNCHANGED <<mLaststate, mLastLevel, holder, vpnLevel, currentEipLevel, stopping>>
        /\ holder = "none" /\ calls' = [calls EXCEPT ![t] = Idle]
    BY <1>4 DEF Ignore, UpdateIgnored, Ready, eipVars, taskVars
  <2>2. QED
    BY <2>1, <1>1 DEF HubConsistent, StoppingNotConnected, TypeOK, Idle, At
<1>5. ASSUME NEW t \in Threads, UpdateState(t)
      PROVE HubConsistent' /\ StoppingNotConnected'
  <2>1. /\ mLaststate' = calls[t].state /\ mLastLevel' = calls[t].level
        /\ holder' = t /\ UNCHANGED calls
        /\ vpnLevel' = calls[t].level
        /\ calls[t].level \in ConnectionStatus
        /\ stopping' = (calls[t].state = "STOPPING" \/ (stopping /\ calls[t].state \notin Terminal))
        /\ mLaststate = "STOPPING" => calls[t].state \in Terminal
    BY <1>5 DEF UpdateState, UpdateAccepted, Ready, Ignored
  <2>5. "STOPPING" \notin Terminal
    BY DEF Terminal, NotConnected
  <2>2. calls[t] = At(calls[t].state, calls[t].level)
    BY <1>1 DEF TypeOK, CallRecord, Idle, At
  <2>3. holder' # "none"
    BY <2>1, NoneIsNoThread
  <2>4. QED
    BY <2>1, <2>2, <2>3, <2>5, <1>1 DEF HubConsistent, StoppingNotConnected, TypeOK
<1>6. ASSUME NEW t \in Threads, SetEipLevel(t)
      PROVE HubConsistent' /\ StoppingNotConnected'
  <2>1. /\ holder = t /\ holder' = "none"
        /\ calls' = [calls EXCEPT ![t] = Idle]
        /\ UNCHANGED <<mLaststate, mLastLevel, vpnLevel, stopping>>
    BY <1>6 DEF SetEipLevel, UpdateReturns
  <2>2. HubConsistent'
    BY <2>1, <1>1 DEF HubConsistent, TypeOK, Idle, At
  <2>3. ASSUME mLaststate' = "STOPPING"
        PROVE  vpnLevel' = "STOPPING" /\ currentEipLevel' = "DISCONNECTING"
    BY <2>1, <2>3, <1>6 DEF HubConsistent, SetEipLevel, EipLevelOf, Delayed
  <2>4. QED  BY <2>1, <2>2, <2>3 DEF StoppingNotConnected, HubConsistent
<1>7. ASSUME Tick \/ SleepOver \/ PostCompare \/ PostRefresh \/ UNCHANGED vars
      PROVE HubConsistent' /\ StoppingNotConnected'
  <2>1. UNCHANGED <<hubVars, vpnLevel, currentEipLevel, stopping>>
    BY <1>7 DEF Tick, SleepOver, PostCompare, PostRefresh, vars, eipVars, taskVars
  <2>2. QED  BY <2>1 DEF hubVars, HubConsistent, StoppingNotConnected
<1>8. ASSUME PostSet PROVE HubConsistent' /\ StoppingNotConnected'
  <2>1. UNCHANGED <<hubVars, vpnLevel, stopping>> /\ currentEipLevel' \in {"DISCONNECTED", "BLOCKING"}
    BY <1>8 DEF PostSet, DelayedEipLevel
  <2>2. QED  BY <2>1 DEF hubVars, HubConsistent, StoppingNotConnected
<1>9. QED
  BY <1>1, <1>2, <1>3, <1>4, <1>5, <1>6, <1>7, <1>8 DEF Next

(* Once STOPPING is accepted nothing makes the shown level connecting or   *)
(* connected again, for every set of threads and every number of DelayTasks. *)
THEOREM EipStatusStopping == Spec => []StoppingNotConnected
<1>1. StoppingInv => StoppingNotConnected
  BY DEF StoppingInv
<1>2. QED  BY <1>1, StoppingInit, StoppingStep, PTL DEF Spec

-----------------------------------------------------------------------------
(* Why the observers are not misled.  The comparison with tmp decides      *)
(* whether they are told, so what they see is judged by vpnLevel between   *)
(* updates and by tmp inside one; a refresh from onPostExecute may come at *)
(* either time, so currentEipLevel has to be judged the same way.          *)
Judged == IF holder = "none" THEN vpnLevel ELSE tmp
ShownInv ==
  /\ TypeOK
  /\ "CONNECTED" \in {shown, currentEipLevel} => ~Overstates(Judged)

LEMMA ShownInit == Init => ShownInv
BY TypeInit DEF Init, HubInit, ShownInv, Judged

LEMMA ShownStep == ShownInv /\ [Next]_vars => ShownInv'
<1> SUFFICES ASSUME ShownInv, [Next]_vars PROVE ShownInv'  OBVIOUS
<1>1. TypeOK /\ TypeOK'
  BY TypeStep DEF ShownInv
<1>2. ASSUME NEW t \in Threads, Call(t) \/ GetLevelAgain(t) \/ Ignore(t) PROVE ShownInv'
  <2>1. UNCHANGED <<holder, vpnLevel, currentEipLevel, tmp, shown>>
    BY <1>2 DEF Call, CallWithLevel, CallWithoutLevel, GetLevelAgain, LookAgain,
       Ignore, UpdateIgnored, eipVars
  <2>2. QED  BY <2>1, <1>1 DEF ShownInv, Judged, Overstates, Delayed
<1>3. ASSUME NEW t \in Threads, UpdateState(t) PROVE ShownInv'
  <2>1. /\ holder = "none" /\ holder' # "none" /\ tmp' = vpnLevel
        /\ UNCHANGED <<currentEipLevel, shown>>
    BY <1>3, NoneIsNoThread DEF UpdateState, UpdateAccepted, Ready
  <2>2. QED  BY <2>1, <1>1 DEF ShownInv, Judged, Overstates, Delayed
<1>4. ASSUME NEW t \in Threads, SetEipLevel(t) PROVE ShownInv'
  <2>1. holder # "none" /\ holder' = "none" /\ UNCHANGED vpnLevel
    BY <1>4, NoneIsNoThread DEF SetEipLevel, UpdateReturns
  <2>2. CASE ~Overstates(vpnLevel)
    BY <1>1, <2>1, <2>2 DEF ShownInv, Judged, Overstates, Delayed
  <2>3. CASE Overstates(vpnLevel)
    <3>1. currentEipLevel' # "CONNECTED"
      BY <1>4, <2>3 DEF SetEipLevel, Overstates, EipLevelOf
    <3>2. shown' # "CONNECTED"
      <4>1. CASE tmp # vpnLevel
        BY <1>4, <3>1, <4>1 DEF SetEipLevel, RefreshNeeded
      <4>2. CASE tmp = vpnLevel
        <5>1. shown # "CONNECTED"
          BY <2>1, <2>3, <4>2 DEF ShownInv, Judged
        <5>2. QED  BY <1>4, <3>1, <5>1 DEF SetEipLevel
      <4>3. QED  BY <4>1, <4>2
    <3>3. QED  BY <1>1, <3>1, <3>2 DEF ShownInv
  <2>4. QED  BY <2>2, <2>3
<1>5. CASE Tick \/ SleepOver \/ PostCompare \/ UNCHANGED vars
  <2>1. UNCHANGED <<holder, vpnLevel, currentEipLevel, tmp, shown>>
    BY <1>5 DEF Tick, SleepOver, PostCompare, vars, hubVars, eipVars
  <2>2. QED  BY <2>1, <1>1 DEF ShownInv, Judged, Overstates, Delayed
<1>6. CASE PostSet
  <2>1. /\ UNCHANGED <<holder, vpnLevel, tmp, shown>>
        /\ currentEipLevel' # "CONNECTED"
    BY <1>6 DEF PostSet, DelayedEipLevel, hubVars
  <2>2. QED  BY <2>1, <1>1 DEF ShownInv, Judged, Overstates, Delayed
<1>7. CASE PostRefresh
  <2>1. /\ UNCHANGED <<holder, vpnLevel, tmp, currentEipLevel>>
        /\ shown' = currentEipLevel
    BY <1>7 DEF PostRefresh, hubVars
  <2>2. QED  BY <2>1, <1>1 DEF ShownInv, Judged, Overstates, Delayed
<1>8. QED
  BY <1>2, <1>3, <1>4, <1>5, <1>6, <1>7 DEF Next

(* What observers are shown never overstates the connection. *)
THEOREM EipStatusShown == Spec => []ShownNeverOverstates
<1>1. ShownInv => ShownNeverOverstates
  BY DEF ShownInv, Judged, ShownNeverOverstates
<1>2. QED  BY <1>1, ShownInit, ShownStep, PTL DEF Spec

-----------------------------------------------------------------------------
(* A queue after Append and Tail. *)
LEMMA WaitingAppend ==
  ASSUME NEW q \in Seq(Delayed), NEW x \in Delayed, NEW l
  PROVE  Waiting(l, Append(q, x)) <=> Waiting(l, q) \/ x = l
BY DEF Waiting

LEMMA WaitingTail ==
  ASSUME NEW q \in Seq(Delayed), q # <<>>, NEW l, Waiting(l, q)
  PROVE  Head(q) = l \/ Waiting(l, Tail(q))
<1>1. /\ Len(Tail(q)) = Len(q) - 1 /\ Len(q) \in Nat \ {0} /\ Head(q) = q[1]
      /\ Tail(q) \in Seq(Delayed) /\ Head(q) \in Delayed
  OBVIOUS
<1>2. \A i \in 1..Len(Tail(q)) : Tail(q)[i] = q[i + 1]
  OBVIOUS
<1>3. PICK i \in 1..Len(q) : q[i] = l
  BY DEF Waiting
<1>4. CASE i = 1  BY <1>1, <1>3, <1>4
<1>5. CASE i # 1
  <2>1. i - 1 \in 1..Len(Tail(q)) /\ (i - 1) + 1 = i  BY <1>1, <1>5
  <2>2. Tail(q)[i - 1] = l  BY <1>2, <1>3, <2>1
  <2>3. QED  BY <2>1, <2>2 DEF Waiting
<1>6. QED  BY <1>4, <1>5

(* Why a debounced level is not left behind.  Without a task that waits,   *)
(* the one at work was made for the level, and once it has overwritten the *)
(* EipLevel nothing has overwritten it again; one made for another level   *)
(* can only be at work while a newer one waits.                            *)
Queued == Waiting(vpnLevel, tasks) \/ Waiting(vpnLevel, posted)
OnItsWay ==
  holder = "none" /\ vpnLevel \in Delayed /\ ~Queued =>
    \/ /\ post = PostIdle
       /\ currentEipLevel = DelayedEipLevel(vpnLevel) /\ shown = DelayedEipLevel(vpnLevel)
    \/ post = [phase |-> "set", level |-> vpnLevel]
    \/ /\ post = [phase |-> "refresh", level |-> vpnLevel]
       /\ currentEipLevel = DelayedEipLevel(vpnLevel)

LEMMA OnItsWayInit == Init => OnItsWay
BY DEF Init, OnItsWay, Delayed

LEMMA OnItsWayStep == TypeOK /\ OnItsWay /\ [Next]_vars => OnItsWay'
<1> SUFFICES ASSUME TypeOK, OnItsWay, [Next]_vars,
                    holder' = "none", vpnLevel' \in Delayed, ~Queued'
             PROVE  \/ /\ post' = PostIdle
                       /\ currentEipLevel' = DelayedEipLevel(vpnLevel')
                       /\ shown' = DelayedEipLevel(vpnLevel')
                    \/ post' = [phase |-> "set", level |-> vpnLevel']
                    \/ /\ post' = [phase |-> "refresh", level |-> vpnLevel']
                       /\ currentEipLevel' = DelayedEipLevel(vpnLevel')
  BY DEF OnItsWay
<1> DEFINE Goal == \/ /\ post' = PostIdle
                      /\ currentEipLevel' = DelayedEipLevel(vpnLevel')
                      /\ shown' = DelayedEipLevel(vpnLevel')
                   \/ post' = [phase |-> "set", level |-> vpnLevel']
                   \/ /\ post' = [phase |-> "refresh", level |-> vpnLevel']
                      /\ currentEipLevel' = DelayedEipLevel(vpnLevel')
<1>t. /\ tasks \in Seq(Delayed) /\ posted \in Seq(Delayed)
      /\ post = PostIdle \/ post \in [phase : {"set", "refresh"}, level : Delayed]
  BY DEF TypeOK
<1>1. ASSUME NEW t \in Threads, Call(t) \/ GetLevelAgain(t) \/ Ignore(t) PROVE Goal
  <2>1. UNCHANGED <<holder, vpnLevel, currentEipLevel, shown, tasks, posted, post>>
    BY <1>1 DEF Call, CallWithLevel, CallWithoutLevel, GetLevelAgain, LookAgain,
       Ignore, UpdateIgnored, eipVars, taskVars
  <2>2. QED  BY <2>1 DEF OnItsWay, Queued
<1>2. ASSUME NEW t \in Threads, UpdateState(t) PROVE Goal
  BY <1>2, NoneIsNoThread DEF UpdateState, UpdateAccepted
<1>3. ASSUME NEW t \in Threads, SetEipLevel(t) PROVE Goal
  <2>1. UNCHANGED <<vpnLevel, posted>> /\ vpnLevel \in Delayed  BY <1>3 DEF SetEipLevel
  <2>2. tasks' = Append(tasks, vpnLevel)  BY <1>3, <2>1 DEF SetEipLevel
  <2>3. Queued'  BY <1>t, <2>1, <2>2, WaitingAppend DEF Queued
  <2>4. QED  BY <2>3
<1>4. CASE SleepOver
  <2>1. /\ UNCHANGED <<holder, vpnLevel, currentEipLevel, shown, post>>
        /\ tasks # <<>> /\ posted' = Append(posted, Head(tasks)) /\ tasks' = Tail(tasks)
    BY <1>4 DEF SleepOver, hubVars, eipVars
  <2>2. Head(tasks) \in Delayed  BY <1>t, <2>1
  <2>3. ~Waiting(vpnLevel, posted) /\ Head(tasks) # vpnLevel
    BY <1>t, <2>1, <2>2, WaitingAppend DEF Queued
  <2>4. ~Waiting(vpnLevel, tasks)
    BY <1>t, <2>1, <2>3, WaitingTail DEF Queued
  <2>5. QED  BY <2>1, <2>3, <2>4 DEF OnItsWay, Queued
<1>5. CASE PostCompare
  <2>1. /\ UNCHANGED <<holder, vpnLevel, currentEipLevel, shown, tasks>>
        /\ posted # <<>> /\ posted' = Tail(posted) /\ post = PostIdle
        /\ post' = IF Head(posted) = vpnLevel
                   THEN [phase |-> "set", level |-> Head(posted)] ELSE PostIdle
    BY <1>5 DEF PostCompare, hubVars, eipVars
  <2>2. CASE Head(posted) = vpnLevel  BY <2>1, <2>2
  <2>3. CASE Head(posted) # vpnLevel
    <3>1. ~Queued  BY <1>t, <2>1, <2>3, WaitingTail DEF Queued
    <3>2. QED  BY <2>1, <2>3, <3>1 DEF OnItsWay, PostIdle
  <2>4. QED  BY <2>2, <2>3
<1>6. CASE PostSet
  <2>1. /\ UNCHANGED <<holder, vpnLevel, tasks, posted>>
        /\ post.phase = "set" /\ currentEipLevel' = DelayedEipLevel(post.level)
        /\ post' = [post EXCEPT !.phase = "refresh"]
    BY <1>6 DEF PostSet, hubVars
  <2>2. post = [phase |-> "set", level |-> vpnLevel]
    BY <2>1 DEF OnItsWay, Queued, PostIdle
  <2>3. QED  BY <2>1, <2>2
<1>7. CASE PostRefresh
  <2>1. /\ UNCHANGED <<holder, vpnLevel, currentEipLevel, tasks, posted>>
        /\ post.phase = "refresh" /\ shown' = currentEipLevel /\ post' = PostIdle
    BY <1>7 DEF PostRefresh, hubVars
  <2>2. currentEipLevel = DelayedEipLevel(vpnLevel)
    BY <2>1 DEF OnItsWay, Queued, PostIdle
  <2>3. QED  BY <2>1, <2>2
<1>8. CASE Tick \/ UNCHANGED vars
  <2>1. UNCHANGED <<holder, vpnLevel, currentEipLevel, shown, tasks, posted, post>>
    BY <1>8 DEF Tick, vars, hubVars, eipVars, taskVars
  <2>2. QED  BY <2>1 DEF OnItsWay, Queued
<1>9. QED
  BY <1>1, <1>2, <1>3, <1>4, <1>5, <1>6, <1>7, <1>8 DEF Next

(* A debounced level is shown or on its way, for any threads, any order of *)
(* updates and tasks, and any delay: the safety behind DelayedLevelShown   *)
(* (EipStatus.java:142-179).                                               *)
THEOREM EipStatusDelayed == Spec => []DelayedOnItsWay
<1>1. OnItsWay => DelayedOnItsWay
  BY DEF OnItsWay, DelayedOnItsWay, Queued
<1>2. QED  BY <1>1, TypeInit, TypeStep, OnItsWayInit, OnItsWayStep, PTL DEF Spec
=============================================================================
