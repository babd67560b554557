------------------------- MODULE DeviceState_proofs -------------------------
(***************************************************************************)
(* Theorems about DeviceState, for every set of networks, both values of   *)
(* the preference and every bound.                                         *)
(***************************************************************************)
EXTENDS DeviceState, FiniteSetTheorems, TLAPS

Command == {"release", "SIGUSR1"}
Message == {"HOLD", "BYTECOUNT"}

LEMMA QueuedAppend ==
  ASSUME NEW S, NEW q \in Seq(S), NEW x \in S, NEW m
  PROVE  Queued(m, Append(q, x)) <=> Queued(m, q) \/ x = m
BY DEF Queued

LEMMA QueuedTail ==
  ASSUME NEW S, NEW q \in Seq(S), q # <<>>, NEW m
  PROVE  Queued(m, q) <=> Head(q) = m \/ Queued(m, Tail(q))
<1>1. Len(Tail(q)) = Len(q) - 1 /\ Len(q) \in Nat \ {0} /\ Head(q) = q[1]
  OBVIOUS
<1>2. \A i \in 1..Len(Tail(q)) : Tail(q)[i] = q[i + 1]
  OBVIOUS
<1>3. ASSUME Queued(m, q) PROVE Head(q) = m \/ Queued(m, Tail(q))
  <2>1. PICK i \in 1..Len(q) : q[i] = m
    BY <1>3 DEF Queued
  <2>2. CASE i = 1  BY <1>1, <2>1, <2>2
  <2>3. CASE i # 1
    <3>1. i - 1 \in 1..Len(Tail(q)) /\ Tail(q)[i - 1] = m
      BY <1>1, <1>2, <2>1, <2>3
    <3>2. QED  BY <3>1 DEF Queued
  <2>4. QED  BY <2>2, <2>3
<1>4. ASSUME Head(q) = m PROVE Queued(m, q)
  BY <1>1, <1>4 DEF Queued
<1>5. ASSUME Queued(m, Tail(q)) PROVE Queued(m, q)
  <2>1. PICK i \in 1..Len(Tail(q)) : Tail(q)[i] = m
    BY <1>5 DEF Queued
  <2>2. i + 1 \in 1..Len(q) /\ q[i + 1] = m
    BY <1>1, <1>2, <2>1
  <2>3. QED  BY <2>2 DEF Queued
<1>6. QED  BY <1>3, <1>4, <1>5

LEMMA TailTyped ==
  ASSUME NEW S, NEW q \in Seq(S), q # <<>>
  PROVE  Tail(q) \in Seq(S)
OBVIOUS

LEMMA NotQueuedEmpty == \A m, q : Len(q) = 0 => ~Queued(m, q)
BY DEF Queued

LEMMA QueuedConcat ==
  ASSUME NEW S, NEW q \in Seq(S), NEW x \in S, NEW n \in Nat, NEW m
  PROVE  LET c == q \o [i \in 1..n |-> x] IN
         /\ c \in Seq(S)
         /\ Queued(m, c) <=> Queued(m, q) \/ (n # 0 /\ x = m)
<1> DEFINE h == [i \in 1..n |-> x]
           c == q \o h
<1>1. h \in Seq(S) /\ Len(h) = n /\ \A i \in 1..n : h[i] = x
  OBVIOUS
<1> HIDE DEF h
<1>2. c \in Seq(S) /\ Len(c) = Len(q) + n
  BY <1>1
<1>3. /\ \A i \in 1..Len(q) : c[i] = q[i]
      /\ \A i \in 1..n : c[Len(q) + i] = x
  BY <1>1
<1> HIDE DEF c
<1>4. ASSUME Queued(m, c) PROVE Queued(m, q) \/ (n # 0 /\ x = m)
  <2>1. PICK i \in 1..Len(c) : c[i] = m  BY <1>4 DEF Queued
  <2>2. CASE i <= Len(q)  BY <1>2, <1>3, <2>1, <2>2 DEF Queued
  <2>3. CASE i > Len(q)
    <3>1. i - Len(q) \in 1..n /\ Len(q) + (i - Len(q)) = i  BY <1>2, <2>1, <2>3
    <3>2. QED  BY <1>3, <2>1, <3>1
  <2>4. QED  BY <1>2, <2>1, <2>2, <2>3
<1>5. ASSUME Queued(m, q) PROVE Queued(m, c)
  BY <1>2, <1>3, <1>5 DEF Queued
<1>6. ASSUME n # 0, x = m PROVE Queued(m, c)
  <2>1. Len(q) + 1 \in 1..Len(c) /\ c[Len(q) + 1] = m
    BY <1>2, <1>3, <1>6
  <2>2. QED  BY <2>1 DEF Queued
<1>7. QED  BY <1>2, <1>4, <1>5, <1>6 DEF c, h

LEMMA AppendTyped ==
  ASSUME NEW q \in Seq(Message), NEW m \in Message
  PROVE  Append(q, m) \in Seq(Message)
OBVIOUS

LEMMA HoldsTyped ==
  ASSUME NEW q \in Seq(Message), NEW n \in Nat
  PROVE  /\ q \o [i \in 1..n |-> "HOLD"] \in Seq(Message)
         /\ Append(q, "HOLD") \in Seq(Message)
<1>1. "HOLD" \in Message  BY DEF Message
<1>2. q \o [i \in 1..n |-> "HOLD"] \in Seq(Message)  BY <1>1, QueuedConcat
<1>3. QED  BY <1>1, <1>2, AppendTyped

(* What a read of k lines leaves on the socket, and what it finds. *)
LEMMA ReadsTyped ==
  ASSUME toProc \in Seq(Command), NEW k \in 1..Len(toProc),
         toProc' = SubSeq(toProc, k + 1, Len(toProc))
  PROVE  /\ toProc' \in Seq(Command) /\ Len(toProc') = Len(toProc) - k
         /\ \A i \in 1..Len(toProc') : toProc'[i] = toProc[k + i]
OBVIOUS

LEMMA ReadsSignals ==
  ASSUME NEW k \in Nat
  PROVE  /\ Signals(k) \in Nat
         /\ Signals(k) = 0 <=> \A i \in 1..k : toProc[i] # "SIGUSR1"
<1> DEFINE T == {i \in 1..k : toProc[i] = "SIGUSR1"}
<1>1. IsFiniteSet(1..k)  BY FS_Interval
<1>2. IsFiniteSet(T)  BY <1>1, FS_Subset
<1>3. Cardinality(T) \in Nat /\ (Cardinality(T) = 0 <=> T = {})
  BY <1>2, FS_CardinalityType, FS_EmptySet
<1>4. QED  BY <1>3 DEF Signals

-----------------------------------------------------------------------------
(* Type correctness. *)
LEMMA CallTyped ==
  ASSUME NEW n, NEW s
  PROVE  /\ Pause(GetPauseReason(n, s)) \in {Pause(r) : r \in PauseReason}
         /\ GetPauseReason(n, s) \in PauseReason
BY DEF GetPauseReason, PauseReason

LEMMA TypeInit == Init => TypeOK
<1> SUFFICES ASSUME Init PROVE TypeOK  OBVIOUS
<1>1. registered \in BOOLEAN /\ waiting \in BOOLEAN /\ doubled \in BOOLEAN
  BY DEF Init
<1>2. screenIsOn \in BOOLEAN
  BY DEF Init
<1>3. QED
  BY <1>1, <1>2, DeviceAssumption DEF Init, TypeOK, ConnectState, PauseReason

(* What networkStateChange leaves behind. *)
LEMMA NetworkStateChangeTyped ==
  ASSUME TypeOK, NetworkStateChange
  PROVE  /\ network' \in ConnectState /\ screen' \in ConnectState
         /\ lastConnected' \in Networks \cup {NoNet}
         /\ timers' \subseteq 0..Wait /\ lostFor' \in 0..Wait
         /\ call' \in {NoCall, Resume, NetworkChange, call}
<1> USE DeviceAssumption DEF TypeOK, ConnectState
<1>1. CASE NetworkConnected
  BY <1>1 DEF NetworkConnected, NetworkUp
<1>2. CASE NetworkLost
  BY <1>2 DEF NetworkLost
<1>3. CASE net # NoNet /\ ~NetworkUp(net) /\ UNCHANGED <<fieldVars, call>>
  BY <1>3 DEF fieldVars
<1>4. QED  BY <1>1, <1>2, <1>3 DEF NetworkStateChange

LEMMA ResumesBound ==
  ASSUME TypeOK
  PROVE  /\ resumes \in Nat /\ MaxResumes \in Nat /\ resumes <= MaxResumes
         /\ 0 \in 0..resumes /\ resumes \in 0..resumes
         /\ \A n \in 0..resumes : n \in 0..MaxResumes /\ (resumes < MaxResumes => n < MaxResumes)
<1>1. resumes \in 0..MaxResumes /\ MaxResumes \in Nat
  BY DeviceAssumption DEF TypeOK
<1>2. QED  BY <1>1

LEMMA HoldTyped ==
  ASSUME TypeOK,
         \/ \E r \in PauseReason : DoPause(r)
         \/ DoResume \/ DoNetworkChange
  PROVE  /\ waiting' \in BOOLEAN /\ resumes' \in 0..resumes
         /\ lastPauseReason' \in PauseReason
         /\ toProc' \in Seq(Command)
<1> USE DEF TypeOK, Command
<1>1. ASSUME NEW r \in PauseReason, DoPause(r)
      PROVE  /\ waiting' \in BOOLEAN /\ resumes' \in 0..resumes
             /\ lastPauseReason' \in PauseReason
             /\ toProc' \in Seq(Command)
  <2>1. resumes' \in 0..resumes /\ waiting' \in BOOLEAN
    BY <1>1, ResumesBound DEF DoPause
  <2>2. toProc' \in Seq(Command) /\ lastPauseReason' \in PauseReason
    BY <1>1 DEF DoPause, Send
  <2>3. QED  BY <2>1, <2>2
<1>2. ASSUME DoResume \/ DoNetworkChange
      PROVE  /\ waiting' \in BOOLEAN /\ resumes' \in 0..resumes
             /\ lastPauseReason' \in PauseReason
             /\ toProc' \in Seq(Command)
  <2>1. \/ resumes' = 0 /\ waiting' = FALSE /\ toProc' = Append(toProc, "release")
        \/ UNCHANGED <<resumes, waiting, toProc>>
    BY <1>2 DEF DoResume, DoNetworkChange, ReleaseHoldCmd, Send
  <2>2. waiting' \in BOOLEAN /\ resumes' \in 0..resumes
    BY <2>1, ResumesBound
  <2>3. toProc' \in Seq(Command)
    BY <2>1
  <2>4. lastPauseReason' \in PauseReason
    BY <1>2 DEF DoResume, DoNetworkChange, PauseReason
  <2>5. QED  BY <2>2, <2>3, <2>4
<1>3. QED  BY <1>1, <1>2

LEMMA TypeStep == TypeOK /\ [Next]_vars => TypeOK'
<1> SUFFICES ASSUME TypeOK, [Next]_vars PROVE TypeOK'  OBVIOUS
<1> USE DEF TypeOK
<1>1. CASE RegisterDeviceStateReceiver \/ ConnectivityAction
  <2>1. registered' \in BOOLEAN
    BY <1>1 DEF RegisterDeviceStateReceiver, ConnectivityAction
  <2>2. events' \in 0..MaxEvents
    BY <1>1, DeviceAssumption DEF RegisterDeviceStateReceiver, ConnectivityAction, envVars
  <2>3. NetworkStateChange
    BY <1>1 DEF RegisterDeviceStateReceiver, ConnectivityAction
  <2>4. UNCHANGED <<net, screenIsOn, holdVars, mgmt, procVars>>
    BY <1>1 DEF RegisterDeviceStateReceiver, ConnectivityAction, envVars
  <2>5. QED
    BY <2>1, <2>2, <2>3, <2>4, NetworkStateChangeTyped DEF holdVars, procVars
<1>2. CASE DelayDisconnect
  <2>1. /\ timers' \subseteq 0..Wait
        /\ network' \in ConnectState /\ screen' \in ConnectState
    BY <1>2 DEF DelayDisconnect, ConnectState
  <2>2. call' \in {NoCall, Resume, NetworkChange} \cup {Pause(r) : r \in PauseReason}
    BY <1>2, CallTyped DEF DelayDisconnect
  <2>3. QED
    BY <1>2, <2>1, <2>2 DEF DelayDisconnect, envVars, holdVars, procVars
<1>3. CASE ScreenOff
  <2>1. screenIsOn' \in BOOLEAN /\ screen' \in ConnectState
    BY <1>3 DEF ScreenOff, ConnectState
  <2>2. QED
    BY <1>3, <2>1 DEF ScreenOff, holdVars, procVars
<1>4. CASE ScreenOn
  <2>1. screenIsOn' \in BOOLEAN
    BY <1>4 DEF ScreenOn
  <2>2. timers' \subseteq 0..Wait /\ screen' \in ConnectState
    BY <1>4 DEF ScreenOn, ConnectState
  <2>3. call' \in {NoCall, Resume, NetworkChange} \cup {Pause(r) : r \in PauseReason}
    BY <1>4, CallTyped DEF ScreenOn
  <2>4. QED
    BY <1>4, <2>1, <2>2, <2>3 DEF ScreenOn, holdVars, procVars
<1>5. CASE ManagementCall
  <2>1. \/ \E r \in PauseReason : DoPause(r)
        \/ DoResume \/ DoNetworkChange
    <3>1. call.op = "pause" => call.reason \in PauseReason
      BY DEF NoCall, Resume, NetworkChange, Pause
    <3>2. QED  BY <1>5, <3>1 DEF ManagementCall
  <2>2. QED
    BY <1>5, <2>1, HoldTyped, ResumesBound DEF ManagementCall, envVars, fieldVars, Command
<1>6. CASE ResumeHold
  <2>1. \/ resumes' = 0 /\ waiting' = FALSE /\ toProc' = Append(toProc, "release")
        \/ resumes' = resumes - 1 /\ UNCHANGED <<waiting, toProc>>
    BY <1>6 DEF ResumeHold, ReleaseHoldCmd, Send
  <2>5. doubled' \in BOOLEAN
    BY <1>6 DEF ResumeHold
  <2>2. resumes' \in 0..resumes /\ waiting' \in BOOLEAN
    <3>1. resumes' = 0 \/ resumes' = resumes - 1
      BY <2>1
    <3>2. resumes > 0
      BY <1>6 DEF ResumeHold
    <3>3. resumes - 1 \in 0..resumes /\ 0 \in 0..resumes
      BY <3>2, ResumesBound
    <3>4. QED  BY <2>1, <3>1, <3>3
  <2>3. toProc' \in Seq({"release", "SIGUSR1"})
    BY <2>1
  <2>4. QED  BY <1>6, <2>2, <2>3, <2>5, ResumesBound DEF ResumeHold, envVars, fieldVars
<1>7. CASE HoldArrives \/ BytesArrive
  <2>1. waiting' \in BOOLEAN
    BY <1>7 DEF HoldArrives, BytesArrive, holdVars
  <2>2. toMgmt' \in Seq({"HOLD", "BYTECOUNT"})
    BY <1>7, TailTyped DEF HoldArrives, BytesArrive
  <2>3. mgmt' \in {"idle", "hold", "lowTraffic", "pause"}
    BY <1>7 DEF HoldArrives, BytesArrive
  <2>5. UNCHANGED resumes /\ (mgmt' = "hold" => resumes < MaxResumes)
    BY <1>7 DEF HoldArrives, BytesArrive, holdVars
  <2>4. QED
    BY <1>7, <2>1, <2>2, <2>3, <2>5 DEF HoldArrives, BytesArrive, envVars, fieldVars, holdVars
<1>8. CASE HoldDecides
  <2>1. resumes' \in 0..MaxResumes /\ mgmt' # "hold"
    BY <1>8, DeviceAssumption DEF HoldDecides
  <2>2. QED  BY <1>8, <2>1 DEF HoldDecides, envVars, fieldVars, procVars
<1>9. CASE LowTraffic
  BY <1>9 DEF LowTraffic, envVars, holdVars, procVars, ConnectState
<1>10. CASE LowTrafficPause
  <2>1. \E r \in PauseReason : DoPause(r)
    BY <1>10, CallTyped DEF LowTrafficPause
  <2>2. QED
    BY <1>10, <2>1, HoldTyped, ResumesBound DEF LowTrafficPause, envVars, fieldVars, Command
<1>11. CASE DeviceNetwork
  <2>1. net' \in Networks \cup {NoNet, Joining} /\ events' \in 0..MaxEvents
    BY <1>11, DeviceAssumption DEF DeviceNetwork
  <2>2. QED  BY <1>11, <2>1 DEF DeviceNetwork, fieldVars, holdVars, procVars
<1>12. CASE Tick
  <2>1. timers' \subseteq 0..Wait /\ lostFor' \in 0..Wait
    BY <1>12, DeviceAssumption DEF Tick
  <2>2. QED  BY <1>12, <2>1 DEF Tick, envVars, holdVars, procVars
<1>13. CASE ProcReads
  <2>1. PICK k \in 1..Len(toProc) :
          /\ toProc' = SubSeq(toProc, k + 1, Len(toProc))
          /\ HeldReads(k) \/ RunningReads(k)
    BY <1>13 DEF ProcReads
  <2>2. toProc' \in Seq({"release", "SIGUSR1"})
    BY <2>1, ReadsTyped DEF Command
  <2>3. Signals(k) \in Nat
    BY ReadsSignals
  <2>4. toMgmt' \in Seq(Message)
    <3>1. toMgmt \in Seq(Message)
      BY DEF Message
    <3>2. CASE HeldReads(k)
      <4>1. toMgmt' = toMgmt \o [i \in 1..Signals(k) |-> "HOLD"]
        BY <3>2 DEF HeldReads, Holds
      <4> HIDE DEF TypeOK
      <4>2. QED  BY <2>3, <3>1, <4>1, HoldsTyped
    <3>3. CASE RunningReads(k)
      <4>1. toMgmt' = toMgmt \/ toMgmt' = Append(toMgmt, "HOLD")
        BY <3>3 DEF RunningReads, ProcHolds
      <4> HIDE DEF TypeOK
      <4>2. QED  BY <3>1, <4>1, HoldsTyped
    <3>4. QED  BY <2>1, <3>2, <3>3
  <2>5. proc' \in {"running", "held"}
    BY <2>1 DEF HeldReads, RunningReads, ProcHolds
  <2>6. doubled' \in BOOLEAN
    BY <2>1 DEF HeldReads, RunningReads
  <2>7. QED  BY <1>13, <2>2, <2>4, <2>5, <2>6 DEF ProcReads, Message, envVars, fieldVars, holdVars
<1>14. CASE ProcRestarts \/ ProcCounts
  <2>1. toMgmt' \in Seq(Message)
    <3>1. toMgmt' = Append(toMgmt, "HOLD") \/ toMgmt' = Append(toMgmt, "BYTECOUNT")
      BY <1>14 DEF ProcRestarts, ProcCounts, ProcHolds
    <3>2. toMgmt \in Seq(Message)
      BY DEF Message
    <3> HIDE DEF TypeOK
    <3>3. "HOLD" \in Message /\ "BYTECOUNT" \in Message
      BY DEF Message
    <3>4. QED  BY <3>1, <3>2, <3>3, AppendTyped
  <2>2. QED
    BY <1>14, <2>1 DEF Message, ProcRestarts, ProcCounts, ProcHolds, envVars, fieldVars, holdVars
<1>15. CASE UNCHANGED vars
  BY <1>15 DEF vars, envVars, fieldVars, holdVars, procVars
<1>16. QED
  BY <1>1, <1>2, <1>3, <1>4, <1>5, <1>6, <1>7, <1>8, <1>9, <1>10, <1>11, <1>12,
     <1>13, <1>14, <1>15 DEF Next, Main, Management, Device, Process

(* Every field stays in its range, for every instance. *)
THEOREM DeviceTypeOK == Spec => []TypeOK
BY TypeInit, TypeStep, PTL DEF Spec

-----------------------------------------------------------------------------
(* Why no release and no pause is lost.  A call that main is about to make *)
(* was decided on fields that nobody has turned round since: only main     *)
(* moves network, and the management thread only moves screen towards      *)
(* DISCONNECTED.  So while the tunnel should run, a hold that is known to  *)
(* wait has someone who will release it: the question of handleHold still  *)
(* to be asked, a call of main, or the posted runnable, which only a pause *)
(* takes away.  And once the network is DISCONNECTED no release is sent,   *)
(* so the last command is the SIGUSR1, or a HOLD is on its way, or known.  *)
Releasing == {"resume", "networkChange"}
PauseDecided == call.op = "pause" => ~ShouldBeConnected
ResumeDecided == call.op \in Releasing => network = "SHOULDBECONNECTED"
UnregisteredRests == ~registered => network = "DISCONNECTED"
HoldAnswered ==
  waiting /\ ShouldBeRunning =>
    mgmt = "hold" \/ call.op \in Releasing \/ (resumes > 0 /\ mgmt # "pause")
SignalLast == Len(toProc) # 0 /\ toProc[Len(toProc)] = "SIGUSR1"
LossDelivered ==
  network = "DISCONNECTED" =>
    call.op = "pause" \/ waiting \/ Queued("HOLD", toMgmt) \/ SignalLast

Decided == PauseDecided /\ ResumeDecided /\ UnregisteredRests
HoldKnown ==
  proc = "held" /\ ~Queued("HOLD", toMgmt) => waiting \/ Queued("release", toProc)
Socket == HoldKnown /\ LossDelivered

(* As long as no hold is announced twice or released twice, a hold is at   *)
(* one place at a time: announced, known to wait, or about to be released. *)
Once(m, q) == \A i, j \in 1..Len(q) : q[i] = m /\ q[j] = m => i = j
InSync ==
  ~doubled =>
    /\ proc = "running" =>
         ~waiting /\ ~Queued("HOLD", toMgmt) /\ ~Queued("release", toProc)
    /\ waiting => ~Queued("HOLD", toMgmt) /\ ~Queued("release", toProc)
    /\ Queued("HOLD", toMgmt) => ~Queued("release", toProc)
    /\ Once("HOLD", toMgmt) /\ Once("release", toProc)

HoldInv == TypeOK /\ Decided /\ HoldAnswered /\ Socket /\ InSync

LEMMA CallOps ==
  /\ NoCall.op = "none" /\ Resume.op = "resume" /\ NetworkChange.op = "networkChange"
  /\ \A r : Pause(r).op = "pause"
BY DEF NoCall, Resume, NetworkChange, Pause

LEMMA HoldInit == Init => HoldInv
<1> SUFFICES ASSUME Init PROVE HoldInv  OBVIOUS
<1>1. Queued("HOLD", toMgmt)
  BY DEF Init, Queued
<1>2. Socket
  BY <1>1 DEF Socket, HoldKnown, LossDelivered
<1>3. Decided /\ HoldAnswered
  BY CallOps DEF Init, Decided, PauseDecided, ResumeDecided, UnregisteredRests,
     HoldAnswered, Releasing
<1>4. InSync
  BY DEF Init, InSync, Once, Queued
<1>5. QED  BY <1>2, <1>3, <1>4, TypeInit DEF HoldInv

(* networkStateChange decides a release whenever it leaves the fields so   *)
(* that the tunnel should run.                                             *)
LEMMA NetworkStateChangeDecides ==
  ASSUME MainIdle, NetworkStateChange
  PROVE  /\ call'.op # "pause"
         /\ call'.op \in Releasing => network' = "SHOULDBECONNECTED"
         /\ ShouldBeConnected' =>
              call'.op \in Releasing \/ (ShouldBeConnected /\ UNCHANGED network)
         /\ network' = "DISCONNECTED" => network = "DISCONNECTED"
<1>1. CASE NetworkConnected
  <2>1. network' = "SHOULDBECONNECTED"
    BY <1>1 DEF NetworkConnected
  <2>2. call' \in {NoCall, Resume, NetworkChange}
    BY <1>1 DEF NetworkConnected
  <2>3. ShouldBeConnected' => call'.op \in Releasing
    BY <1>1, CallOps DEF NetworkConnected, ShouldBeConnected, ShouldBe, Releasing
  <2>4. QED  BY <2>1, <2>2, <2>3, CallOps
<1>2. CASE NetworkLost
  BY <1>2, CallOps DEF NetworkLost, MainIdle, Releasing, ShouldBeConnected, ShouldBe
<1>3. CASE net # NoNet /\ ~NetworkUp(net) /\ UNCHANGED <<fieldVars, call>>
  BY <1>3, CallOps DEF fieldVars, MainIdle, Releasing, ShouldBeConnected, ShouldBe
<1>4. QED  BY <1>1, <1>2, <1>3 DEF NetworkStateChange

(* What the main thread decides, and what it finds decided.                *)
LEMMA DecidedStep == HoldInv /\ [Next]_vars => Decided'
<1> SUFFICES ASSUME HoldInv, [Next]_vars PROVE Decided'  OBVIOUS
<1> USE DEF HoldInv, Decided, PauseDecided, ResumeDecided, UnregisteredRests
<1>1. CASE RegisterDeviceStateReceiver \/ ConnectivityAction
  <2>1. NetworkStateChange /\ MainIdle /\ registered'
    BY <1>1 DEF RegisterDeviceStateReceiver, ConnectivityAction
  <2>2. QED  BY <2>1, NetworkStateChangeDecides
<1>2. CASE DelayDisconnect
  <2>1. registered' = registered /\ call = NoCall
    BY <1>2 DEF DelayDisconnect, MainIdle
  <2>2. CASE network # "PENDINGDISCONNECT"
    BY <1>2, <2>1, <2>2, CallOps DEF DelayDisconnect, Releasing
  <2>3. CASE network = "PENDINGDISCONNECT"
    BY <1>2, <2>1, <2>3, CallOps
    DEF DelayDisconnect, Releasing, ShouldBeConnected, ShouldBe
  <2>4. QED  BY <2>2, <2>3
<1>3. CASE ScreenOff
  BY <1>3, CallOps DEF ScreenOff, MainIdle, Releasing
<1>4. CASE ScreenOn
  <2>1. /\ screen' = "SHOULDBECONNECTED" /\ UNCHANGED <<network, registered>>
        /\ \/ call' = Resume /\ network = "SHOULDBECONNECTED"
           \/ call' = Pause(GetPauseReason(network, "SHOULDBECONNECTED"))
                /\ network # "SHOULDBECONNECTED"
           \/ call' = NoCall
    BY <1>4 DEF ScreenOn, ShouldBeConnected, ShouldBe
  <2>2. QED  BY <2>1, CallOps DEF Releasing, ShouldBeConnected, ShouldBe
<1>5. CASE ManagementCall
  BY <1>5, CallOps DEF ManagementCall, envVars, fieldVars, Releasing
<1>6. CASE LowTraffic
  BY <1>6 DEF LowTraffic, ShouldBeConnected, ShouldBe
<1>7. CASE \/ ResumeHold \/ HoldArrives \/ HoldDecides \/ BytesArrive
           \/ LowTrafficPause \/ DeviceNetwork \/ Tick \/ Process \/ UNCHANGED vars
  <2>1. UNCHANGED <<registered, network, screen, call>>
    BY <1>7 DEF ResumeHold, HoldArrives, HoldDecides, BytesArrive, LowTrafficPause,
       DeviceNetwork, Tick, Process, ProcReads, ProcRestarts, ProcCounts,
       vars, envVars, fieldVars
  <2>2. QED  BY <2>1 DEF ShouldBeConnected
<1>8. QED
  BY <1>1, <1>2, <1>3, <1>4, <1>5, <1>6, <1>7 DEF Next, Main, Management, Device

LEMMA HoldAnsweredStep == HoldInv /\ [Next]_vars => HoldAnswered'
<1> SUFFICES ASSUME HoldInv, [Next]_vars PROVE HoldAnswered'  OBVIOUS
<1> USE DEF HoldInv, HoldAnswered, ShouldBeRunning
<1>1. CASE RegisterDeviceStateReceiver \/ ConnectivityAction
  <2>1. /\ NetworkStateChange /\ MainIdle
        /\ registered \/ network = "DISCONNECTED"
        /\ UNCHANGED <<waiting, resumes, mgmt>>
    BY <1>1 DEF RegisterDeviceStateReceiver, ConnectivityAction, holdVars,
       Decided, UnregisteredRests
  <2>2. call.op \notin Releasing
    BY <2>1, CallOps DEF MainIdle, Releasing
  <2>3. ShouldBeConnected' => call'.op \in Releasing \/ (ShouldBeConnected /\ registered)
    BY <2>1, NetworkStateChangeDecides DEF ShouldBeConnected, ShouldBe
  <2>4. QED  BY <2>1, <2>2, <2>3
<1>2. CASE DelayDisconnect
  <2>1. /\ call = NoCall
        /\ ShouldBeConnected' => ShouldBeConnected
        /\ UNCHANGED <<waiting, resumes, mgmt, registered>>
    BY <1>2 DEF DelayDisconnect, MainIdle, holdVars, ShouldBeConnected, ShouldBe
  <2>2. QED  BY <2>1, CallOps DEF Releasing
<1>3. CASE ScreenOff
  BY <1>3 DEF ScreenOff, holdVars, ShouldBeConnected, ShouldBe
<1>4. CASE ScreenOn
  <2>1. /\ call = NoCall
        /\ ShouldBeConnected' => ShouldBeConnected \/ call' = Resume
        /\ UNCHANGED <<waiting, resumes, mgmt, registered>>
    BY <1>4 DEF ScreenOn, MainIdle, holdVars, ShouldBeConnected, ShouldBe
  <2>2. QED  BY <2>1, CallOps DEF Releasing
<1>5. CASE ManagementCall
  <2>1. UNCHANGED <<registered, network, screen, mgmt>>
    BY <1>5 DEF ManagementCall, fieldVars
  <2>2. CASE call.op = "pause"
    BY <2>1, <2>2 DEF Decided, PauseDecided, ShouldBeConnected
  <2>3. CASE call.op # "pause"
    BY <1>5, <2>1, <2>3
    DEF ManagementCall, DoResume, DoNetworkChange, ReleaseHoldCmd
  <2>4. QED  BY <2>2, <2>3
<1>6. CASE ResumeHold
  <2>1. UNCHANGED <<registered, network, screen, mgmt, call>>
    BY <1>6 DEF ResumeHold, fieldVars
  <2>2. QED
    BY <1>6, <2>1 DEF ResumeHold, ReleaseHoldCmd, ShouldBeConnected
<1>7. CASE HoldArrives
  BY <1>7 DEF HoldArrives
<1>8. CASE HoldDecides
  <2>1. /\ UNCHANGED <<registered, network, screen, call, waiting>>
        /\ ShouldBeRunning => resumes' > 0 /\ mgmt' # "pause"
    BY <1>8, ResumesBound DEF HoldInv, HoldDecides, fieldVars
  <2>2. QED  BY <2>1 DEF ShouldBeConnected
<1>9. CASE BytesArrive
  <2>1. /\ UNCHANGED <<registered, network, screen, call, waiting, resumes>>
        /\ mgmt = "idle" /\ mgmt' # "pause"
    BY <1>9 DEF BytesArrive, fieldVars, holdVars
  <2>2. QED  BY <2>1 DEF ShouldBeConnected
<1>10. CASE LowTraffic
  BY <1>10 DEF LowTraffic, ShouldBeConnected, ShouldBe
<1>11. CASE LowTrafficPause
  <2>1. /\ UNCHANGED <<registered, network, screen, call, waiting>>
        /\ mgmt = "pause"
    BY <1>11 DEF LowTrafficPause, DoPause, fieldVars
  <2>2. QED  BY <2>1 DEF ShouldBeConnected
<1>12. CASE DeviceNetwork \/ Tick \/ Process \/ UNCHANGED vars
  <2>1. UNCHANGED <<registered, network, screen, call, waiting, resumes, mgmt>>
    BY <1>12 DEF DeviceNetwork, Tick, Process, ProcReads, ProcRestarts, ProcCounts,
       vars, fieldVars, holdVars
  <2>2. QED  BY <2>1 DEF ShouldBeConnected
<1>13. QED
  BY <1>1, <1>2, <1>3, <1>4, <1>5, <1>6, <1>7, <1>8, <1>9, <1>10, <1>11, <1>12
  DEF Next, Main, Management, Device

-----------------------------------------------------------------------------
LEMMA LastAppend ==
  ASSUME NEW S, NEW q \in Seq(S), NEW x \in S
  PROVE  Len(Append(q, x)) # 0 /\ Append(q, x)[Len(Append(q, x))] = x
OBVIOUS

LEMMA LastTail ==
  ASSUME NEW S, NEW q \in Seq(S), q # <<>>
  PROVE  /\ Len(Tail(q)) # 0 => Tail(q)[Len(Tail(q))] = q[Len(q)]
         /\ Len(Tail(q)) = 0 => Head(q) = q[Len(q)]
<1> DEFINE n == Len(q)
<1>1. n \in Nat \ {0} /\ Head(q) = q[1]
  OBVIOUS
<1>2. Len(Tail(q)) = n - 1
  OBVIOUS
<1>3. \A i \in 1..(n - 1) : Tail(q)[i] = q[i + 1]
  OBVIOUS
<1> HIDE DEF n
<1>4. CASE n = 1
  <2>1. Head(q) = q[n] /\ Len(Tail(q)) = 0
    BY <1>1, <1>2, <1>4
  <2>2. QED  BY <2>1 DEF n
<1>5. CASE n # 1
  <2>1. n - 1 \in 1..(n - 1) /\ (n - 1) + 1 = n /\ n - 1 # 0
    BY <1>1, <1>5
  <2>2. Tail(q)[n - 1] = q[n]
    BY <1>3, <2>1
  <2>3. QED  BY <1>2, <2>1, <2>2 DEF n
<1>6. QED  BY <1>4, <1>5

(* The three things a step can do to the hold: write a release, write a    *)
(* SIGUSR1 while the hold is not known, or leave both ends alone.          *)
LEMMA ReleaseKeepsSocket ==
  ASSUME HoldInv, network # "DISCONNECTED", network' = network,
         toProc' = Append(toProc, "release"), UNCHANGED <<proc, toMgmt>>
  PROVE  Socket'
<1>1. toProc \in Seq(Command)
  BY DEF HoldInv, TypeOK, Command
<1>2. Queued("release", toProc')
  BY <1>1, QueuedAppend DEF Command
<1>3. QED  BY <1>2 DEF Socket, HoldKnown, LossDelivered

LEMMA PauseKeepsSocket ==
  ASSUME HoldInv, NEW r \in PauseReason, DoPause(r), UNCHANGED <<proc, toMgmt>>
  PROVE  Socket'
<1>1. toProc \in Seq(Command)
  BY DEF HoldInv, TypeOK, Command
<1>2. CASE waiting
  BY <1>2 DEF DoPause, Socket, HoldKnown, LossDelivered
<1>3. CASE ~waiting
  <2>1. toProc' = Append(toProc, "SIGUSR1")
    BY <1>3 DEF DoPause, Send
  <2>2. SignalLast'
    BY <1>1, <2>1, LastAppend DEF SignalLast, Command
  <2>3. Queued("release", toProc) => Queued("release", toProc')
    BY <1>1, <2>1, QueuedAppend DEF Command
  <2>4. HoldKnown'
    BY <1>3, <2>3 DEF HoldInv, Socket, HoldKnown
  <2>5. QED  BY <2>2, <2>4 DEF Socket, LossDelivered
<1>4. QED  BY <1>2, <1>3

LEMMA SocketStep == HoldInv /\ [Next]_vars => Socket'
<1> SUFFICES ASSUME HoldInv, [Next]_vars PROVE Socket'  OBVIOUS
<1>1. Socket /\ toProc \in Seq(Command) /\ toMgmt \in Seq(Message)
  BY DEF HoldInv, TypeOK, Command, Message
<1>2. CASE RegisterDeviceStateReceiver \/ ConnectivityAction
  <2>1. MainIdle /\ NetworkStateChange /\ UNCHANGED <<waiting, proc, toProc, toMgmt>>
    BY <1>2 DEF RegisterDeviceStateReceiver, ConnectivityAction, holdVars, procVars
  <2>2. call.op # "pause" /\ (network' = "DISCONNECTED" => network = "DISCONNECTED")
    BY <2>1, CallOps, NetworkStateChangeDecides DEF MainIdle
  <2>3. QED
    BY <1>1, <2>1, <2>2 DEF Socket, HoldKnown, LossDelivered, SignalLast
<1>3. CASE DelayDisconnect
  <2>1. /\ call = NoCall /\ UNCHANGED <<waiting, proc, toProc, toMgmt>>
        /\ UNCHANGED network \/ call'.op = "pause"
    BY <1>3, CallOps DEF DelayDisconnect, MainIdle, holdVars, procVars
  <2>2. QED
    BY <1>1, <2>1, CallOps DEF Socket, HoldKnown, LossDelivered, SignalLast
<1>4. CASE ScreenOff \/ ScreenOn
  <2>1. call = NoCall /\ UNCHANGED <<network, waiting, proc, toProc, toMgmt>>
    BY <1>4 DEF ScreenOff, ScreenOn, MainIdle, holdVars, procVars
  <2>2. QED
    BY <1>1, <2>1, CallOps DEF Socket, HoldKnown, LossDelivered, SignalLast
<1>5. CASE ManagementCall
  <2>1. UNCHANGED <<network, proc, toMgmt>>
    BY <1>5 DEF ManagementCall, fieldVars
  <2>2. CASE call.op = "pause"
    <3>1. call.reason \in PauseReason
      BY <2>2, CallOps DEF HoldInv, TypeOK, Pause
    <3>2. DoPause(call.reason)
      BY <1>5, <2>2 DEF ManagementCall
    <3>3. QED  BY <2>1, <3>1, <3>2, PauseKeepsSocket
  <2>3. CASE call.op # "pause"
    <3>1. network = "SHOULDBECONNECTED"
      BY <1>5, <2>3 DEF ManagementCall, HoldInv, Decided, ResumeDecided, Releasing
    <3>2. \/ toProc' = Append(toProc, "release")
          \/ UNCHANGED <<waiting, toProc>>
      BY <1>5, <2>3 DEF ManagementCall, DoResume, DoNetworkChange, ReleaseHoldCmd, Send
    <3>3. CASE toProc' = Append(toProc, "release")
      BY <2>1, <3>1, <3>3, ReleaseKeepsSocket
    <3>4. CASE UNCHANGED <<waiting, toProc>>
      BY <1>1, <2>1, <3>1, <3>4 DEF Socket, HoldKnown, LossDelivered
    <3>5. QED  BY <3>2, <3>3, <3>4
  <2>4. QED  BY <2>2, <2>3
<1>6. CASE ResumeHold
  <2>1. UNCHANGED <<network, call, proc, toMgmt>>
    BY <1>6 DEF ResumeHold, fieldVars
  <2>2. CASE ShouldBeRunning
    BY <1>6, <2>1, <2>2, ReleaseKeepsSocket
    DEF ResumeHold, ReleaseHoldCmd, Send, ShouldBeRunning, ShouldBeConnected, ShouldBe
  <2>3. CASE ~ShouldBeRunning
    <3>1. UNCHANGED <<waiting, toProc>>
      BY <1>6, <2>3 DEF ResumeHold
    <3>2. QED
      BY <1>1, <2>1, <3>1 DEF Socket, HoldKnown, LossDelivered, SignalLast
  <2>4. QED  BY <2>2, <2>3
<1>7. CASE HoldArrives
  BY <1>7 DEF HoldArrives, Socket, HoldKnown, LossDelivered
<1>8. CASE BytesArrive
  <2>1. /\ Queued("HOLD", toMgmt) => Queued("HOLD", toMgmt')
        /\ Queued("HOLD", toMgmt') => Queued("HOLD", toMgmt)
    BY <1>1, <1>8, QueuedTail DEF BytesArrive
  <2>2. UNCHANGED <<network, call, waiting, proc, toProc>>
    BY <1>8 DEF BytesArrive, fieldVars, holdVars
  <2>3. QED
    BY <1>1, <2>1, <2>2 DEF Socket, HoldKnown, LossDelivered, SignalLast
<1>9. CASE LowTrafficPause
  BY <1>9, CallTyped, PauseKeepsSocket DEF LowTrafficPause
<1>10. CASE ProcReads
  <2>1. UNCHANGED <<network, call, waiting>>
    BY <1>10 DEF ProcReads, fieldVars, holdVars
  <2>2. PICK k \in 1..Len(toProc) :
          /\ toProc' = SubSeq(toProc, k + 1, Len(toProc))
          /\ HeldReads(k) \/ RunningReads(k)
    BY <1>10 DEF ProcReads
  <2>3. /\ toProc' \in Seq(Command) /\ Len(toProc') = Len(toProc) - k
        /\ \A i \in 1..Len(toProc') : toProc'[i] = toProc[k + i]
    BY <1>1, <2>2, ReadsTyped
  <2>4. Signals(k) \in Nat /\ (Signals(k) = 0 <=> \A i \in 1..k : toProc[i] # "SIGUSR1")
    BY ReadsSignals
  <2>5. CASE Signals(k) # 0
    <3>1. Queued("HOLD", toMgmt')
      <4>1. CASE HeldReads(k)
        <5>1. toMgmt' = toMgmt \o [i \in 1..Signals(k) |-> "HOLD"]
          BY <4>1 DEF HeldReads, Holds
        <5>2. Queued("HOLD", toMgmt \o [i \in 1..Signals(k) |-> "HOLD"])
          <6>1. toMgmt \in Seq(Message) /\ "HOLD" \in Message
            BY <1>1 DEF Message
          <6>2. Signals(k) \in Nat /\ Signals(k) # 0
            BY <2>4, <2>5
          <6>3. QED  BY <6>1, <6>2, QueuedConcat
        <5>3. QED  BY <5>1, <5>2
      <4>2. CASE RunningReads(k)
        <5>1. Signals(k) > 0
          BY <2>4, <2>5
        <5>2. toMgmt' = Append(toMgmt, "HOLD")
          BY <4>2, <5>1 DEF RunningReads, ProcHolds
        <5>3. QED  BY <1>1, <5>2, QueuedAppend DEF Message
      <4>3. QED  BY <2>2, <4>1, <4>2
    <3>2. QED  BY <3>1 DEF Socket, HoldKnown, LossDelivered
  <2>6. CASE Signals(k) = 0
    <3>1. Queued("HOLD", toMgmt) <=> Queued("HOLD", toMgmt')
      <4>1. CASE HeldReads(k)
        <5>1. toMgmt' = toMgmt \o [i \in 1..Signals(k) |-> "HOLD"]
          BY <4>1 DEF HeldReads, Holds
        <5>2. QED  BY <1>1, <2>4, <2>6, <5>1, QueuedConcat DEF Message
      <4>2. CASE RunningReads(k)
        BY <2>6, <4>2 DEF RunningReads
      <4>3. QED  BY <2>2, <4>1, <4>2
    <3>2. SignalLast => SignalLast'
      <4>1. SUFFICES ASSUME SignalLast PROVE SignalLast'  OBVIOUS
      <4>2. Len(toProc) \in Nat /\ toProc[Len(toProc)] = "SIGUSR1"
        BY <1>1, <4>1 DEF SignalLast
      <4>3. k < Len(toProc)
        BY <2>4, <2>6, <4>2
      <4>4. Len(toProc') \in 1..Len(toProc') /\ k + Len(toProc') = Len(toProc)
        BY <2>3, <4>2, <4>3
      <4>5. toProc'[Len(toProc')] = toProc[Len(toProc)]
        BY <2>3, <4>4
      <4>6. QED  BY <4>2, <4>4, <4>5 DEF SignalLast
    <3>3. ASSUME proc' = "held", Queued("release", toProc)
          PROVE  Queued("release", toProc')
      <4>1. proc = "held" /\ ~Released(k)
        BY <2>2, <2>6, <3>3, <1>1 DEF HeldReads, RunningReads
      <4>2. PICK i \in 1..Len(toProc) : toProc[i] = "release"
        BY <3>3 DEF Queued
      <4>3. i - k \in 1..Len(toProc') /\ k + (i - k) = i
        BY <1>1, <2>3, <4>1, <4>2 DEF Released
      <4>4. QED  BY <2>3, <4>2, <4>3 DEF Queued
    <3>4. proc' = "held" => proc = "held"
      BY <2>2, <2>6 DEF HeldReads, RunningReads
    <3>5. QED
      BY <1>1, <2>1, <3>1, <3>2, <3>3, <3>4 DEF Socket, HoldKnown, LossDelivered
  <2>7. QED  BY <2>5, <2>6
<1>11. CASE ProcRestarts
  <2>1. toMgmt' = Append(toMgmt, "HOLD")
    BY <1>11 DEF ProcRestarts, ProcHolds
  <2>2. Queued("HOLD", toMgmt')
    BY <1>1, <2>1, QueuedAppend DEF Message
  <2>3. QED  BY <2>2 DEF Socket, HoldKnown, LossDelivered
<1>12. CASE ProcCounts
  <2>1. /\ Queued("HOLD", toMgmt) => Queued("HOLD", toMgmt')
        /\ Queued("HOLD", toMgmt') => Queued("HOLD", toMgmt)
    BY <1>1, <1>12, QueuedAppend DEF ProcCounts, Message
  <2>2. UNCHANGED <<network, call, waiting, proc, toProc>>
    BY <1>12 DEF ProcCounts, fieldVars, holdVars
  <2>3. QED
    BY <1>1, <2>1, <2>2 DEF Socket, HoldKnown, LossDelivered, SignalLast
<1>13. CASE HoldDecides \/ LowTraffic \/ DeviceNetwork \/ Tick \/ UNCHANGED vars
  <2>1. UNCHANGED <<network, call, waiting, proc, toProc, toMgmt>>
    BY <1>13 DEF HoldDecides, LowTraffic, DeviceNetwork, Tick, vars, fieldVars,
       holdVars, procVars
  <2>2. QED
    BY <1>1, <2>1 DEF Socket, HoldKnown, LossDelivered, SignalLast
<1>14. QED
  BY <1>2, <1>3, <1>4, <1>5, <1>6, <1>7, <1>8, <1>9, <1>10, <1>11, <1>12, <1>13
  DEF Next, Main, Management, Device, Process

-----------------------------------------------------------------------------
LEMMA OnceAppend ==
  ASSUME NEW S, NEW q \in Seq(S), NEW x \in S, NEW m, Once(m, q), x = m => ~Queued(m, q)
  PROVE  Once(m, Append(q, x))
BY DEF Once, Queued

LEMMA OnceTail ==
  ASSUME NEW S, NEW q \in Seq(S), q # <<>>, NEW m, Once(m, q)
  PROVE  Once(m, Tail(q)) /\ (Head(q) = m => ~Queued(m, Tail(q)))
<1>1. Len(Tail(q)) = Len(q) - 1 /\ Len(q) \in Nat \ {0} /\ Head(q) = q[1]
  OBVIOUS
<1>2. \A i \in 1..Len(Tail(q)) : Tail(q)[i] = q[i + 1]
  OBVIOUS
<1>3. Once(m, Tail(q))
  <2> SUFFICES ASSUME NEW i \in 1..Len(Tail(q)), NEW j \in 1..Len(Tail(q)),
                      Tail(q)[i] = m, Tail(q)[j] = m
               PROVE  i = j
    BY DEF Once
  <2>1. i + 1 \in 1..Len(q) /\ j + 1 \in 1..Len(q) /\ q[i + 1] = m /\ q[j + 1] = m
    BY <1>1, <1>2
  <2>2. i + 1 = j + 1  BY <2>1 DEF Once
  <2>3. QED  BY <2>2, <1>1
<1>4. ASSUME Head(q) = m, Queued(m, Tail(q)) PROVE FALSE
  <2>1. PICK i \in 1..Len(Tail(q)) : Tail(q)[i] = m  BY <1>4 DEF Queued
  <2>2. i + 1 \in 1..Len(q) /\ 1 \in 1..Len(q) /\ q[i + 1] = m /\ q[1] = m
    BY <1>1, <1>2, <1>4, <2>1
  <2>3. i + 1 = 1  BY <2>2 DEF Once
  <2>4. QED  BY <2>1, <2>3, <1>1
<1>5. QED  BY <1>3, <1>4

(* Main writes to the socket. *)
LEMMA ReleaseKeepsSync ==
  ASSUME HoldInv, waiting \/ doubled', ~waiting', toProc' = Append(toProc, "release"),
         UNCHANGED <<proc, toMgmt>>, doubled \in {doubled'} \/ ~doubled
  PROVE  InSync'
<1> SUFFICES ASSUME ~doubled' PROVE InSync'  BY DEF InSync
<1>1. ~doubled /\ waiting /\ toProc \in Seq(Command) /\ proc = "held"
  BY DEF HoldInv, InSync, TypeOK, Command
<1>2. ~Queued("HOLD", toMgmt) /\ ~Queued("release", toProc)
      /\ Once("HOLD", toMgmt) /\ Once("release", toProc)
  BY <1>1 DEF HoldInv, InSync
<1>3. Once("release", toProc')
  BY <1>1, <1>2, OnceAppend DEF Command
<1>4. QED  BY <1>1, <1>2, <1>3 DEF InSync

LEMMA PauseKeepsSync ==
  ASSUME HoldInv, NEW r \in PauseReason, DoPause(r), UNCHANGED <<proc, toMgmt, doubled>>
  PROVE  InSync'
<1>1. toProc \in Seq(Command) /\ UNCHANGED waiting
  BY DEF HoldInv, TypeOK, Command, DoPause
<1>2. CASE waiting
  BY <1>1, <1>2 DEF DoPause, HoldInv, InSync
<1>3. CASE ~waiting
  <2>1. toProc' = Append(toProc, "SIGUSR1")
    BY <1>3 DEF DoPause, Send
  <2>2. Queued("release", toProc') <=> Queued("release", toProc)
    BY <1>1, <2>1, QueuedAppend DEF Command
  <2>3. Once("release", toProc) => Once("release", toProc')
    BY <1>1, <2>1, OnceAppend DEF Command
  <2>4. QED  BY <1>1, <2>2, <2>3 DEF HoldInv, InSync
<1>4. QED  BY <1>2, <1>3

LEMMA InSyncStep == HoldInv /\ [Next]_vars => InSync'
<1> SUFFICES ASSUME HoldInv, [Next]_vars PROVE InSync'  OBVIOUS
<1>1. /\ InSync /\ toProc \in Seq(Command) /\ toMgmt \in Seq(Message)
      /\ proc \in {"running", "held"} /\ doubled \in BOOLEAN
  BY DEF HoldInv, TypeOK, Command, Message
<1>2. CASE ManagementCall
  <2>1. UNCHANGED <<proc, toMgmt, doubled>>
    BY <1>2 DEF ManagementCall
  <2>2. CASE call.op = "pause"
    <3>1. call.reason \in PauseReason
      BY <2>2, CallOps DEF HoldInv, TypeOK, Pause
    <3>2. DoPause(call.reason)
      BY <1>2, <2>2 DEF ManagementCall
    <3>3. QED  BY <2>1, <3>1, <3>2, PauseKeepsSync
  <2>3. CASE call.op # "pause"
    <3>1. \/ waiting /\ ~waiting' /\ toProc' = Append(toProc, "release")
          \/ UNCHANGED <<waiting, toProc>>
      BY <1>2, <2>3 DEF ManagementCall, DoResume, DoNetworkChange, ReleaseHoldCmd, Send
    <3>2. CASE waiting /\ ~waiting' /\ toProc' = Append(toProc, "release")
      BY <2>1, <3>2, ReleaseKeepsSync
    <3>3. CASE UNCHANGED <<waiting, toProc>>
      BY <1>1, <2>1, <3>3 DEF InSync
    <3>4. QED  BY <3>1, <3>2, <3>3
  <2>4. QED  BY <2>2, <2>3
<1>3. CASE ResumeHold
  <2>1. UNCHANGED <<proc, toMgmt>>
    BY <1>3 DEF ResumeHold
  <2>2. CASE ShouldBeRunning
    <3>1. /\ ~waiting' /\ toProc' = Append(toProc, "release")
          /\ doubled' = (doubled \/ ~waiting)
      BY <1>3, <2>2 DEF ResumeHold, ReleaseHoldCmd, Send
    <3>2. QED  BY <1>1, <2>1, <3>1, ReleaseKeepsSync
  <2>3. CASE ~ShouldBeRunning
    BY <1>1, <1>3, <2>1, <2>3 DEF ResumeHold, InSync
  <2>4. QED  BY <2>2, <2>3
<1>4. CASE LowTrafficPause
  BY <1>4, CallTyped, PauseKeepsSync DEF LowTrafficPause
<1>5. CASE HoldArrives \/ BytesArrive
  <2>1. toMgmt # <<>> /\ toMgmt' = Tail(toMgmt) /\ UNCHANGED <<proc, toProc, doubled>>
    BY <1>5 DEF HoldArrives, BytesArrive
  <2>2. /\ Once("HOLD", toMgmt) => Once("HOLD", toMgmt')
        /\ Once("HOLD", toMgmt) /\ Head(toMgmt) = "HOLD" => ~Queued("HOLD", toMgmt')
        /\ Queued("HOLD", toMgmt) <=> Head(toMgmt) = "HOLD" \/ Queued("HOLD", toMgmt')
    BY <1>1, <2>1, OnceTail, QueuedTail
  <2>3. waiting' => waiting \/ Head(toMgmt) = "HOLD"
    BY <1>5 DEF HoldArrives, BytesArrive, holdVars
  <2>4. QED  BY <1>1, <2>1, <2>2, <2>3 DEF InSync
<1>6. CASE ProcReads
  <2>1. UNCHANGED waiting
    BY <1>6 DEF ProcReads, holdVars
  <2>2. PICK k \in 1..Len(toProc) :
          /\ toProc' = SubSeq(toProc, k + 1, Len(toProc))
          /\ HeldReads(k) \/ RunningReads(k)
    BY <1>6 DEF ProcReads
  <2>3. /\ toProc' \in Seq(Command) /\ Len(toProc') = Len(toProc) - k
        /\ \A i \in 1..Len(toProc') : toProc'[i] = toProc[k + i] /\ k + i \in 1..Len(toProc)
    BY <1>1, <2>2, ReadsTyped
  <2>4. Queued("release", toProc') => Queued("release", toProc)
    BY <2>3 DEF Queued
  <2>5. Once("release", toProc) => Once("release", toProc')
    <3> SUFFICES ASSUME Once("release", toProc), NEW i \in 1..Len(toProc'), NEW j \in 1..Len(toProc'),
                        toProc'[i] = "release", toProc'[j] = "release"
                 PROVE  i = j
      BY DEF Once
    <3>1. /\ k + i \in 1..Len(toProc) /\ toProc[k + i] = "release"
          /\ k + j \in 1..Len(toProc) /\ toProc[k + j] = "release"
      BY <2>3
    <3>2. k + i = k + j  BY <3>1 DEF Once
    <3>3. k \in Nat /\ i \in Nat /\ j \in Nat  BY <1>1, <2>3
    <3>4. QED  BY <3>2, <3>3
  <2>6. Signals(k) \in Nat
    BY ReadsSignals
  <2>7. SUFFICES ASSUME ~doubled' PROVE InSync'
    BY DEF InSync
  <2>8. ~doubled
    BY <1>1, <2>2, <2>7 DEF HeldReads, RunningReads
  <2>9. CASE HeldReads(k)
    <3>1. Signals(k) = 0
      <4>1. ~(Signals(k) > 0)
        BY <2>7, <2>9 DEF HeldReads
      <4>2. QED  BY <2>6, <4>1
    <3>2. toMgmt' = toMgmt
      BY <1>1, <2>9, <3>1 DEF HeldReads, Holds
    <3>3. CASE Released(k)
      <4>1. PICK i \in 1..k : toProc[i] = "release"
        BY <3>3 DEF Released
      <4>2. i \in 1..Len(toProc)
        BY <1>1, <2>2
      <4>3. Queued("release", toProc) /\ Once("release", toProc)
        BY <1>1, <2>8, <4>1, <4>2 DEF InSync, Queued
      <4>4. ~Queued("release", toProc')
        BY <2>3, <4>1, <4>2, <4>3 DEF Queued, Once
      <4>5. QED  BY <1>1, <2>1, <2>5, <2>8, <3>2, <4>3, <4>4 DEF InSync
    <3>4. CASE ~Released(k)
      <4>1. proc' = "held"  BY <2>9, <3>4 DEF HeldReads
      <4>2. QED  BY <1>1, <2>1, <2>4, <2>5, <2>8, <3>2, <4>1 DEF InSync
    <3>5. QED  BY <3>3, <3>4
  <2>10. CASE RunningReads(k)
    <3>1. /\ ~waiting /\ ~Queued("HOLD", toMgmt) /\ ~Queued("release", toProc)
          /\ Once("HOLD", toMgmt) /\ Once("release", toProc)
      BY <1>1, <2>8, <2>10 DEF RunningReads, InSync
    <3>2. Once("HOLD", Append(toMgmt, "HOLD"))
      BY <1>1, <3>1, OnceAppend DEF Message
    <3>3. \/ UNCHANGED <<proc, toMgmt>>
          \/ proc' = "held" /\ toMgmt' = Append(toMgmt, "HOLD")
      BY <2>10 DEF RunningReads, ProcHolds
    <3>4. QED  BY <2>1, <2>4, <2>5, <3>1, <3>2, <3>3 DEF InSync
  <2>11. QED  BY <2>2, <2>9, <2>10
<1>7. CASE ProcRestarts
  <2>1. /\ proc = "running" /\ proc' = "held" /\ toMgmt' = Append(toMgmt, "HOLD")
        /\ UNCHANGED <<waiting, toProc, doubled>>
    BY <1>7 DEF ProcRestarts, ProcHolds, holdVars
  <2>2. Once("HOLD", toMgmt) /\ ~Queued("HOLD", toMgmt) => Once("HOLD", toMgmt')
    BY <1>1, <2>1, OnceAppend DEF Message
  <2>3. QED  BY <1>1, <2>1, <2>2 DEF InSync
<1>8. CASE ProcCounts
  <2>1. /\ toMgmt' = Append(toMgmt, "BYTECOUNT")
        /\ UNCHANGED <<proc, waiting, toProc, doubled>>
    BY <1>8 DEF ProcCounts, holdVars
  <2>2. /\ Once("HOLD", toMgmt) => Once("HOLD", toMgmt')
        /\ Queued("HOLD", toMgmt) <=> Queued("HOLD", toMgmt')
    BY <1>1, <2>1, OnceAppend, QueuedAppend DEF Message
  <2>3. QED  BY <1>1, <2>1, <2>2 DEF InSync
<1>9. CASE Tick
  <2>1. /\ toProc = <<>> /\ toMgmt = <<>> /\ UNCHANGED <<waiting, proc, toProc, toMgmt>>
        /\ doubled' = (doubled /\ waiting # (proc = "held"))
    BY <1>9 DEF Tick, holdVars
  <2>2. Len(toProc') = 0 /\ Len(toMgmt') = 0
    BY <2>1
  <2>3. /\ ~Queued("HOLD", toMgmt') /\ ~Queued("release", toProc')
        /\ Once("HOLD", toMgmt') /\ Once("release", toProc')
    BY <2>2, NotQueuedEmpty DEF Once
  <2>4. ~doubled' => (proc = "running" => ~waiting)
    BY <1>1, <2>1 DEF InSync, HoldInv, TypeOK
  <2>5. QED  BY <2>1, <2>3, <2>4 DEF InSync
<1>10. CASE \/ RegisterDeviceStateReceiver \/ ConnectivityAction \/ DelayDisconnect
            \/ ScreenOff \/ ScreenOn \/ HoldDecides \/ LowTraffic \/ DeviceNetwork
            \/ UNCHANGED vars
  <2>1. UNCHANGED <<waiting, procVars>>
    BY <1>10 DEF RegisterDeviceStateReceiver, ConnectivityAction, DelayDisconnect,
       ScreenOff, ScreenOn, HoldDecides, LowTraffic, DeviceNetwork, vars, holdVars
  <2>2. QED  BY <1>1, <2>1 DEF InSync, procVars
<1>11. QED
  BY <1>2, <1>3, <1>4, <1>5, <1>6, <1>7, <1>8, <1>9, <1>10
  DEF Next, Main, Management, Device, Process

LEMMA HoldStep == HoldInv /\ [Next]_vars => HoldInv'
BY TypeStep, DecidedStep, HoldAnsweredStep, SocketStep, InSyncStep DEF HoldInv

-----------------------------------------------------------------------------
(* A process that waits for a release is known to wait; and only such a    *)
(* process is, while no hold has been announced or released twice.         *)
THEOREM DeviceWaitingAgrees == Spec => []WaitingAgrees
<1>1. HoldInv => WaitingAgrees
  BY DEF HoldInv, Socket, HoldKnown, InSync, TypeOK, WaitingAgrees
<1>2. QED  BY <1>1, HoldInit, HoldStep, PTL DEF Spec

(* No release is lost: with everything handled and the tunnel due to run,  *)
(* the process is not held, for every set of networks and any traffic.     *)
THEOREM DeviceNoLostRelease == Spec => []NoLostRelease
<1>1. HoldInv => NoLostRelease
  <2> SUFFICES ASSUME HoldInv, Quiet, ShouldBeRunning, proc # "running"
               PROVE  FALSE
    BY DEF NoLostRelease
  <2>1. waiting
    BY NotQueuedEmpty DEF HoldInv, TypeOK, Socket, HoldKnown, Quiet, SocketQuiet
  <2>2. call.op \notin Releasing /\ mgmt = "idle" /\ resumes = 0
    BY CallOps DEF Quiet, MainIdle, Releasing
  <2>3. QED  BY <2>1, <2>2 DEF HoldInv, HoldAnswered
<1>2. QED  BY <1>1, HoldInit, HoldStep, PTL DEF Spec

(* No pause is lost: with everything handled after the network is gone for *)
(* good, the process is held, unless a hold was announced or released      *)
(* twice since app and process last agreed.                                *)
THEOREM DeviceNetworkLossPauses == Spec => []NetworkLossPauses
<1>1. HoldInv => NetworkLossPauses
  <2> SUFFICES ASSUME HoldInv, Quiet, network = "DISCONNECTED" PROVE proc = "held" \/ doubled
    BY DEF NetworkLossPauses
  <2>1. waiting
    BY CallOps, NotQueuedEmpty
    DEF HoldInv, Socket, LossDelivered, Quiet, SocketQuiet, MainIdle, SignalLast
  <2>2. QED  BY <2>1 DEF HoldInv, InSync, TypeOK
<1>2. QED  BY <1>1, HoldInit, HoldStep, PTL DEF Spec
=============================================================================
