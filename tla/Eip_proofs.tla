------------------------------ MODULE Eip_proofs ------------------------------
(***************************************************************************)
(* Theorems about Eip.  TypeOK is not inductive alone: that the number of  *)
(* the next gateway stays in range rests on the observer, whose number is  *)
(* that of the gateway it has set up, and on an invalid profile being      *)
(* reported only for a gateway that exists.                                *)
(***************************************************************************)
EXTENDS Eip, SequenceTheorems, TLAPS

LEMMA AppendTyped ==
  ASSUME NEW S, NEW q \in Seq(S), NEW e \in S PROVE Append(q, e) \in Seq(S)
OBVIOUS

LEMMA TailTyped ==
  ASSUME NEW S, NEW q \in Seq(S), q # <<>>
  PROVE  Tail(q) \in Seq(S) /\ Head(q) \in S /\ Len(q) > 0
OBVIOUS

LEMMA JobTyped ==
  /\ \A n \in 0..Gateways, early \in BOOLEAN : Start(n, early) \in Job
  /\ Stop \in Job /\ Block \in Job
BY DEF Start, Job

LEMMA MessageTyped ==
  /\ \A n \in Gateway : [kind |-> "setup", n |-> n] \in Message
                        /\ [kind |-> "startVPN", n |-> n] \in Message
  /\ [kind |-> "stopBlocking"] \in Message /\ BlockIntent \in Message
  /\ Failed("NO_MORE_GATEWAYS") \in Message /\ Failed("ERROR_INVALID_PROFILE") \in Message
  /\ Failed("ERROR_INVALID_VPN_CERTIFICATE") \in Message
BY DEF Message, BlockIntent, Failed

(* The observer's number is that of its gateway, or 0 without one. *)
Numbered == setupN = IF setup = NoGateway THEN 0 ELSE setup
InvalidReported ==
  \A i \in 1..Len(posted) : posted[i] = Failed("ERROR_INVALID_PROFILE") => Gateways # 0
TypeInv == TypeOK /\ Numbered /\ InvalidReported

LEMMA TypeInit == Init => TypeInv
<1> SUFFICES ASSUME Init PROVE TypeInv  OBVIOUS
<1>1. worker.job \in Job
  BY JobTyped DEF Init, Idle
<1>2. jobs \in Seq(Job) /\ posted \in Seq(Message)
  BY DEF Init
<1>3. /\ commands \in 0..MaxCommands /\ setupN \in 0..Gateways
      /\ starting \in Nat /\ replacing \in Nat /\ starting + replacing <= MaxStarting
      /\ setup \in Gateway \cup {NoGateway} /\ observed \in Gateway \cup {NoGateway}
  BY EipAssumption DEF Init
<1>4. level \in Level
  BY DEF Init, Level
<1>5. TypeOK
  BY <1>1, <1>2, <1>3, <1>4 DEF Init, TypeOK
<1>6. Numbered /\ InvalidReported
  BY DEF Init, Numbered, InvalidReported
<1> QED BY <1>5, <1>6 DEF TypeInv

HubTyped == level \in Level
ObserverTyped ==
  /\ setup \in Gateway \cup {NoGateway} /\ observed \in Gateway \cup {NoGateway}
  /\ setupN \in 0..Gateways /\ download \in BOOLEAN
  /\ jobs \in Seq(Job)
  /\ Numbered

(* Publishing keeps hub and observer in range. *)
LEMMA PublishTyped ==
  ASSUME TypeInv, NEW state, NEW lvl \in Level, Publish(state, lvl)
  PROVE  HubTyped' /\ ObserverTyped'
<1>1. HubTyped'
  BY DEF TypeInv, TypeOK, HubTyped, Publish, Update
<1>2. ASSUME UNCHANGED <<observerVars, jobs>> PROVE ObserverTyped'
  BY <1>2 DEF TypeInv, TypeOK, ObserverTyped, Numbered, observerVars
<1>3. ASSUME ObserverUpdate(state, lvl) PROVE ObserverTyped'
  <2>1. /\ setup' \in Gateway \cup {NoGateway} /\ observed' \in Gateway \cup {NoGateway}
        /\ setupN' \in 0..Gateways /\ Numbered'
    BY <1>3, EipAssumption
    DEF ObserverUpdate, FinishGatewaySetup, TypeInv, TypeOK, Numbered
  <2>2. download' \in BOOLEAN
    BY <1>3 DEF ObserverUpdate, TypeInv, TypeOK
  <2>3. jobs' \in Seq(Job)
    <3> DEFINE retrying == observed # NoGateway /\ observed = setup /\ state = "CONNECTRETRY"
    <3>1. CASE retrying
      <4>1. setupN + 1 \in 0..Gateways
        BY <3>1, EipAssumption DEF TypeInv, TypeOK, Numbered, Gateway, NoGateway
      <4>2. jobs' = Append(jobs, Start(setupN + 1, FALSE))
        BY <1>3, <3>1 DEF ObserverUpdate
      <4> QED BY <4>1, <4>2, JobTyped, AppendTyped DEF TypeInv, TypeOK
    <3>2. CASE ~retrying
      BY <1>3, <3>2 DEF ObserverUpdate, TypeInv, TypeOK
    <3> QED BY <3>1, <3>2
  <2> QED BY <2>1, <2>2, <2>3 DEF ObserverTyped
<1> QED BY <1>1, <1>2, <1>3 DEF Publish

PostedTyped == posted \in Seq(Message) /\ InvalidReported
Reportable(m) == m \in Message /\ (m = Failed("ERROR_INVALID_PROFILE") => Gateways # 0)

LEMMA PostTyped ==
  ASSUME PostedTyped, NEW msgs \in Seq(Message),
         \A i \in 1..Len(msgs) : Reportable(msgs[i]), Post(msgs)
  PROVE  PostedTyped'
<1>1. posted' = posted \o msgs /\ posted \in Seq(Message)
  BY DEF Post, PostedTyped
<1>2. posted' \in Seq(Message) /\ Len(posted') = Len(posted) + Len(msgs)
  BY <1>1
<1>3. ASSUME NEW i \in 1..Len(posted'), posted'[i] = Failed("ERROR_INVALID_PROFILE")
      PROVE  Gateways # 0
  <2>1. CASE i <= Len(posted)
    BY <1>1, <1>2, <1>3, <2>1 DEF PostedTyped, InvalidReported
  <2>2. CASE i > Len(posted)
    <3>1. i - Len(posted) \in 1..Len(msgs) /\ posted'[i] = msgs[i - Len(posted)]
      BY <1>1, <1>2, <2>2
    <3> QED BY <1>3, <3>1 DEF Reportable
  <2> QED BY <1>1, <1>2, <2>1, <2>2
<1> QED BY <1>2, <1>3 DEF PostedTyped, InvalidReported

LEMMA PostOneTyped ==
  ASSUME PostedTyped, NEW m, Reportable(m), Post(<<m>>)
  PROVE  PostedTyped'
<1>1. <<m>> \in Seq(Message) /\ \A i \in 1..Len(<<m>>) : Reportable(<<m>>[i])
  BY DEF Reportable
<1> QED BY <1>1, PostTyped

LEMMA HandleTyped ==
  ASSUME PostedTyped, NEW kind, Handle(kind)
  PROVE  PostedTyped' /\ Head(posted) \in Message /\ Head(posted).kind = kind
<1>1. posted \in Seq(Message) /\ posted # <<>> /\ posted' = Tail(posted)
  BY DEF PostedTyped, Handle
<1>2. posted' \in Seq(Message) /\ Head(posted) \in Message /\ Len(posted) > 0
  BY <1>1, TailTyped
<1>3. InvalidReported'
  BY <1>1, <1>2 DEF PostedTyped, InvalidReported
<1> QED BY <1>2, <1>3 DEF PostedTyped, Handle

LEMMA LaunchActiveGatewayTyped ==
  ASSUME PostedTyped, NEW n, LaunchActiveGateway(n)
  PROVE  PostedTyped'
<1> DEFINE setupMsg == [kind |-> "setup", n |-> n]
<1>1. CASE Post(<<Failed("NO_MORE_GATEWAYS")>>)
  <2>1. Reportable(Failed("NO_MORE_GATEWAYS"))
    BY MessageTyped DEF Reportable, Failed
  <2> QED BY <1>1, <2>1, PostOneTyped
<1>2. CASE n \in Broken /\ Post(<<setupMsg, Failed("ERROR_INVALID_PROFILE")>>)
  <2>1. n \in Gateway /\ Gateways # 0
    BY <1>2, EipAssumption DEF Gateway
  <2>2. Reportable(setupMsg) /\ Reportable(Failed("ERROR_INVALID_PROFILE"))
    BY <2>1, MessageTyped DEF Reportable
  <2> HIDE DEF setupMsg
  <2>3. /\ <<setupMsg, Failed("ERROR_INVALID_PROFILE")>> \in Seq(Message)
        /\ \A i \in 1..Len(<<setupMsg, Failed("ERROR_INVALID_PROFILE")>>) :
             Reportable(<<setupMsg, Failed("ERROR_INVALID_PROFILE")>>[i])
    BY <2>2 DEF Reportable
  <2> QED BY <1>2, <2>3, PostTyped
<1>3. CASE n \in Gateway /\ Post(<<setupMsg, [kind |-> "startVPN", n |-> n]>>)
  <2> DEFINE start == [kind |-> "startVPN", n |-> n]
  <2>1. setupMsg # Failed("ERROR_INVALID_PROFILE") /\ start # Failed("ERROR_INVALID_PROFILE")
    BY DEF Failed
  <2>2. Reportable(setupMsg) /\ Reportable(start)
    BY <1>3, <2>1, MessageTyped DEF Reportable
  <2>3. Post(<<setupMsg, start>>)
    BY <1>3
  <2> HIDE DEF setupMsg, start
  <2>4. /\ <<setupMsg, start>> \in Seq(Message)
        /\ \A i \in 1..Len(<<setupMsg, start>>) : Reportable(<<setupMsg, start>>[i])
    BY <2>2 DEF Reportable
  <2> QED BY <2>3, <2>4, PostTyped
<1> QED BY <1>1, <1>2, <1>3 DEF LaunchActiveGateway

RestTyped ==
  /\ commands \in 0..MaxCommands /\ wanted \in {"on", "off", "open"}
  /\ worker.job \in Job
  /\ main \in {"idle", "establishing", "closing"} /\ disturbed \in BOOLEAN
  /\ starting \in Nat /\ replacing \in Nat /\ starting + replacing <= MaxStarting
  /\ proc \in {"none", "launched", "held", "managed", "tunnel", "connected", "told"}
  /\ opened \in BOOLEAN /\ attached \in BOOLEAN /\ stale \in BOOLEAN
  /\ tun \in {"none", "void", "ovpn"}

Parts == HubTyped /\ ObserverTyped /\ PostedTyped /\ RestTyped

LEMMA TypeParts == (TypeInv <=> Parts) /\ (TypeInv' <=> Parts')
BY DEF Parts, TypeInv, TypeOK, HubTyped, ObserverTyped, PostedTyped, RestTyped

LEMMA CommandTyped ==
  ASSUME TypeInv, NEW job \in Job, NEW want \in {"on", "off"}, Command(job, want)
  PROVE  TypeInv'
<1>1. HubTyped' /\ PostedTyped'
  BY TypeParts DEF Parts, Command, HubTyped, PostedTyped, InvalidReported
<1>2. ObserverTyped'
  BY TypeParts, AppendTyped DEF Parts, Command, ObserverTyped, Numbered, observerVars
<1>3. RestTyped'
  BY TypeParts, EipAssumption DEF Parts, Command, RestTyped, startVars, procVars, tunVars
<1> QED BY <1>1, <1>2, <1>3, TypeParts DEF Parts

LEMMA UserTyped == TypeInv /\ User => TypeInv'
<1>1. ASSUME TypeInv, UserStart PROVE TypeInv'
  BY <1>1, CommandTyped, JobTyped, EipAssumption DEF UserStart
<1>2. ASSUME TypeInv, UserStop PROVE TypeInv'
  BY <1>2, CommandTyped, JobTyped DEF UserStop
<1>3. ASSUME TypeInv, UserStopsBlocking PROVE TypeInv'
  <2>1. HubTyped' /\ ObserverTyped'
    BY <1>3, TypeParts
    DEF Parts, UserStopsBlocking, HubTyped, ObserverTyped, Numbered, observerVars
  <2>2. Post(<<[kind |-> "stopBlocking"]>>)
    BY <1>3, TypeParts DEF Parts, UserStopsBlocking, Post, PostedTyped
  <2>3. Reportable([kind |-> "stopBlocking"])
    BY MessageTyped DEF Reportable, Failed
  <2>4. PostedTyped'
    BY <1>3, <2>2, <2>3, TypeParts, PostOneTyped DEF Parts
  <2>5. RestTyped'
    BY <1>3, TypeParts, EipAssumption DEF Parts, UserStopsBlocking, RestTyped, startVars, procVars, tunVars
  <2> QED BY <2>1, <2>4, <2>5, TypeParts DEF Parts
<1> QED BY <1>1, <1>2, <1>3 DEF User

LEMMA AtTyped ==
  ASSUME TypeInv, NEW step, At(step) PROVE worker'.job \in Job
<1>1. CASE worker' = Idle
  BY <1>1, JobTyped DEF Idle
<1>2. CASE worker' = [worker EXCEPT !.steps = Tail(@)]
  <2>1. worker'.job = worker.job
    BY <1>2
  <2> QED BY <2>1 DEF TypeInv, TypeOK
<1> QED BY <1>1, <1>2 DEF At

LEMMA WorkerTyped == TypeInv /\ Worker => TypeInv'
<1> SUFFICES ASSUME TypeInv, Worker PROVE TypeInv'  OBVIOUS
<1> USE TypeParts DEF Parts
<1>1. CASE TakeJob
  <2>1. jobs' \in Seq(Job) /\ Head(jobs) \in Job
    BY <1>1, TailTyped DEF TakeJob, ObserverTyped
  <2>2. worker'.job \in Job
    BY <1>1, <2>1 DEF TakeJob
  <2>3. HubTyped' /\ PostedTyped' /\ ObserverTyped' /\ RestTyped'
    BY <1>1, <2>1, <2>2
    DEF TakeJob, HubTyped, PostedTyped, InvalidReported, ObserverTyped, Numbered,
        observerVars, RestTyped, userVars, startVars, procVars, tunVars
  <2> QED BY <2>3
<1>2. CASE EarlyRoutes \/ Launch \/ StopBlocking \/ StartBlocking
  <2>1. HubTyped' /\ ObserverTyped'
    BY <1>2 DEF EarlyRoutes, Launch, StopBlocking, StartBlocking, HubTyped,
                ObserverTyped, Numbered, observerVars
  <2>2. worker'.job \in Job
    BY <1>2, AtTyped DEF EarlyRoutes, Launch, StopBlocking, StartBlocking
  <2>3. RestTyped'
    BY <1>2, <2>2 DEF EarlyRoutes, Launch, StopBlocking, StartBlocking,
                      RestTyped, userVars, startVars, procVars, tunVars
  <2>4. /\ Reportable(BlockIntent) /\ Reportable([kind |-> "stopBlocking"])
        /\ Reportable(Failed("ERROR_INVALID_VPN_CERTIFICATE"))
    BY MessageTyped DEF Reportable, Failed, BlockIntent
  <2>5. ASSUME UNCHANGED posted PROVE PostedTyped'
    BY <2>5 DEF PostedTyped, InvalidReported
  <2>6. ASSUME NEW m \in {BlockIntent, [kind |-> "stopBlocking"],
                           Failed("ERROR_INVALID_VPN_CERTIFICATE")}, Post(<<m>>)
        PROVE  PostedTyped'
    BY <2>4, <2>6, PostOneTyped
  <2>7. ASSUME LaunchActiveGateway(worker.job.n) PROVE PostedTyped'
    BY <2>7, LaunchActiveGatewayTyped
  <2>8. PostedTyped'
    BY <1>2, <2>5, <2>6, <2>7 DEF EarlyRoutes, Launch, StopBlocking, StartBlocking
  <2> QED BY <2>1, <2>3, <2>8
<1>3. CASE PublishStopping
  <2>1. HubTyped' /\ ObserverTyped'
    BY <1>3, PublishTyped DEF PublishStopping, Level
  <2>2. worker'.job \in Job
    BY <1>3, AtTyped DEF PublishStopping
  <2>3. PostedTyped' /\ RestTyped'
    BY <1>3, <2>2 DEF PublishStopping, PostedTyped, InvalidReported, RestTyped, userVars,
                      startVars, procVars, tunVars
  <2> QED BY <2>1, <2>3
<1>4. CASE Disconnect
  <2>1. worker'.job \in Job
    BY <1>4, AtTyped DEF Disconnect
  <2>2. PostedTyped' /\ RestTyped'
    BY <1>4, <2>1 DEF Disconnect, StopsTrying, PostedTyped, InvalidReported, RestTyped,
                      userVars, startVars, tunVars
  <2>3. CASE UNCHANGED <<jobs, level, observerVars>>
    <3>1. HubTyped' /\ ObserverTyped'
      BY <2>3 DEF HubTyped, ObserverTyped, Numbered, observerVars
    <3> QED BY <2>2, <3>1
  <2>4. CASE Publish("NOPROCESS", "NOTCONNECTED")
    <3>1. HubTyped' /\ ObserverTyped'
      BY <2>4, PublishTyped DEF Level
    <3> QED BY <2>2, <3>1
  <2> QED BY <1>4, <2>3, <2>4 DEF Disconnect
<1> QED BY <1>1, <1>2, <1>3, <1>4 DEF Worker

(* Without a setup the number is 0; with one a next gateway may be asked. *)
LEMMA FinishTyped ==
  ASSUME TypeInv, FinishGatewaySetup, download' = download,
         NEW job \in Job, jobs' = Append(jobs, job) \/ jobs' = jobs
  PROVE  ObserverTyped'
<1>1. /\ setup' \in Gateway \cup {NoGateway} /\ observed' \in Gateway \cup {NoGateway}
      /\ setupN' \in 0..Gateways /\ Numbered'
  BY EipAssumption DEF FinishGatewaySetup, Numbered
<1>2. jobs' \in Seq(Job) /\ download' \in BOOLEAN
  BY TypeParts, AppendTyped DEF Parts, ObserverTyped
<1> QED BY <1>1, <1>2 DEF ObserverTyped

(* An invalid profile is the profile of a gateway: a next number exists.  *)
LEMMA NextTyped ==
  ASSUME TypeInv, FailedStart("ERROR_INVALID_PROFILE")
  PROVE  Start(setupN + 1, FALSE) \in Job
<1>1. posted \in Seq(Message) /\ posted # <<>> /\ Head(posted).kind = "eipEvent"
      /\ Head(posted).error = "ERROR_INVALID_PROFILE"
  BY DEF TypeInv, TypeOK, FailedStart, Handle
<1>2. Head(posted) = posted[1] /\ 1 \in 1..Len(posted) /\ posted[1] \in Message
  BY <1>1
<1>3. posted[1] = Failed("ERROR_INVALID_PROFILE")
  BY <1>1, <1>2 DEF Message, Failed
<1>4. Gateways # 0
  BY <1>2, <1>3 DEF TypeInv, InvalidReported
<1>5. setupN + 1 \in 0..Gateways
  BY <1>4, EipAssumption DEF TypeInv, TypeOK, Numbered, Gateway, NoGateway
<1> QED BY <1>5, JobTyped

LEMMA MainTyped == TypeInv /\ Main => TypeInv'
<1> SUFFICES ASSUME TypeInv, Main PROVE TypeInv'  OBVIOUS
<1> USE TypeParts DEF Parts
<1>1. CASE OnSetupObserverEvent \/ OnStartVPN
  <2>1. PICK kind \in {"setup", "startVPN"} : Handle(kind)
    BY <1>1 DEF OnSetupObserverEvent, OnStartVPN
  <2>2. PostedTyped' /\ Head(posted) \in Message /\ Head(posted).kind = kind
    BY <2>1, HandleTyped
  <2>3. Head(posted).n \in Gateway
    BY <2>2 DEF Message
  <2>4. HubTyped'
    BY <1>1 DEF OnSetupObserverEvent, OnStartVPN, Update, HubTyped, Level
  <2>5. ObserverTyped'
    BY <1>1, <2>3, EipAssumption
    DEF OnSetupObserverEvent, OnStartVPN, ObserverTyped, Numbered, Gateway, NoGateway
  <2>6. RestTyped'
    BY <1>1, EipAssumption
    DEF OnSetupObserverEvent, OnStartVPN, RestTyped, userVars, startVars, procVars, tunVars
  <2> QED BY <2>2, <2>4, <2>5, <2>6
<1>2. CASE NoMoreGateways \/ InvalidProfile \/ InvalidCertificate
  <2>1. PostedTyped'
    BY <1>2, HandleTyped DEF NoMoreGateways, InvalidProfile, InvalidCertificate, FailedStart
  <2>2. HubTyped' /\ RestTyped'
    BY <1>2 DEF NoMoreGateways, InvalidProfile, InvalidCertificate,
                HubTyped, RestTyped, userVars, startVars, procVars, tunVars
  <2>3. ASSUME NoMoreGateways \/ InvalidCertificate PROVE ObserverTyped'
    BY <2>3, FinishTyped, JobTyped DEF NoMoreGateways, InvalidCertificate
  <2>4. ASSUME InvalidProfile PROVE ObserverTyped'
    BY <2>4, NextTyped, AppendTyped DEF InvalidProfile, ObserverTyped, Numbered, observerVars
  <2> QED BY <1>2, <2>1, <2>2, <2>3, <2>4
<1>3. CASE OnStartBlocking
  <2>1. HubTyped' /\ ObserverTyped'
    BY <1>3, PublishTyped DEF OnStartBlocking, Level
  <2>2. PostedTyped' /\ RestTyped'
    BY <1>3, HandleTyped DEF OnStartBlocking, RestTyped, userVars, startVars, procVars, tunVars
  <2> QED BY <2>1, <2>2
<1>4. CASE Establish
  <2>1. HubTyped' /\ ObserverTyped' /\ PostedTyped'
    BY <1>4 DEF Establish, HubTyped, ObserverTyped, Numbered, observerVars,
                PostedTyped, InvalidReported
  <2>2. RestTyped'
    BY <1>4 DEF Establish, RestTyped, userVars, startVars, procVars
  <2> QED BY <2>1, <2>2
<1>5. CASE OnStopBlocking
  <2>1. HubTyped' /\ ObserverTyped'
    BY <1>5 DEF OnStopBlocking, HubTyped, ObserverTyped, Numbered, observerVars
  <2>2. PostedTyped' /\ RestTyped'
    BY <1>5, HandleTyped DEF OnStopBlocking, CloseVoid, RestTyped, userVars, startVars, procVars
  <2> QED BY <2>1, <2>2
<1>6. CASE EndBlocking
  <2>1. HubTyped' /\ ObserverTyped'
    BY <1>6, PublishTyped DEF EndBlocking, Level
  <2>2. PostedTyped' /\ RestTyped'
    BY <1>6 DEF EndBlocking, PostedTyped, InvalidReported, RestTyped, userVars, startVars,
                procVars, tunVars
  <2> QED BY <2>1, <2>2
<1> QED BY <1>1, <1>2, <1>3, <1>4, <1>5, <1>6 DEF Main

LEMMA OthersTyped ==
  TypeInv /\ (OnRevoke \/ OnServiceJson \/ UNCHANGED vars) => TypeInv'
<1> SUFFICES ASSUME TypeInv, OnRevoke \/ OnServiceJson \/ UNCHANGED vars
    PROVE  TypeInv'
  OBVIOUS
<1>0. Start(0, FALSE) \in Job
  BY EipAssumption DEF Start, Job
<1> USE TypeParts DEF Parts
<1>1. HubTyped' /\ PostedTyped'
  BY DEF OnRevoke, OnServiceJson, vars, HubTyped, PostedTyped,
         InvalidReported
<1>2. RestTyped'
  BY DEF OnRevoke, CloseVoid, OnServiceJson, vars, RestTyped, userVars,
         startVars, procVars, tunVars
<1>3. jobs' \in Seq(Job)
  BY <1>0, AppendTyped
  DEF OnRevoke, OnServiceJson, vars, observerVars, ObserverTyped
<1>4. ObserverTyped'
  BY <1>3 DEF OnRevoke, OnServiceJson, vars, observerVars, ObserverTyped, Numbered
<1> QED BY <1>1, <1>2, <1>4

(* What the service publishes is never that the traffic is blocked. *)
Published ==
  \E state \in {"VPN_GENERATE_CONFIG", "EXITING", "NOPROCESS", "PAUSED", "CONNECTRETRY",
               "RECONNECTING", "CONNECTING"}, lvl \in Level \ {"BLOCKING", "STOPPING"} :
    Publish(state, lvl)

LEMMA ServicePublishes ==
  Service => UNCHANGED <<jobs, level, observerVars>> \/ Published \/ Connects
<1> SUFFICES ASSUME Service
             PROVE  UNCHANGED <<jobs, level, observerVars>> \/ Published \/ Connects
  OBVIOUS
<1>1. CASE StartThread
  BY <1>1 DEF Published, Level, StartThread, PublishConfig, ConfigFails, StartOpenVPN,
              ManagementFails, ReplaceOld
<1>2. CASE FirstHold \/ Restarts
  BY <1>2 DEF Published, Level, FirstHold, Pauses, Hold, Restarts, ConnectRetry, Reconnects, Pause
<1>3. CASE Tries \/ OpenTun \/ StaleOpens \/ Exits \/ Dies
  BY <1>3 DEF Published, Level, Tries, OpenTun, StaleOpens, Exits, Dies, Ends
<1> QED BY <1>1, <1>2, <1>3 DEF Service

LEMMA ServiceTyped == TypeInv /\ Service => TypeInv'
<1> SUFFICES ASSUME TypeInv, Service PROVE TypeInv'  OBVIOUS
<1> USE TypeParts DEF Parts
<1>1. PostedTyped'
  BY DEF PostedTyped, InvalidReported, Service, StartThread, PublishConfig, ConfigFails,
         StartOpenVPN, ManagementFails, ReplaceOld, FirstHold, Pauses, Hold, Tries, OpenTun,
         StaleOpens, Connects, Restarts, ConnectRetry, Reconnects, Pause, Exits, Dies, Ends
<1>2. RestTyped'
  <2>0. ASSUME NEW state, NEW lvl, Hold(state, lvl), stale' \in BOOLEAN PROVE RestTyped'
    BY <2>0 DEF Hold, RestTyped, userVars, startVars, tunVars
  <2>1. CASE StartThread
    <3>1. starting' \in Nat /\ replacing' \in Nat /\ starting' + replacing' <= MaxStarting
      <4>1. starting \in Nat /\ replacing \in Nat /\ starting + replacing <= MaxStarting
        BY DEF RestTyped
      <4>2. \/ starting > 0 /\ starting' = starting - 1 /\ replacing' = replacing + 1
            \/ replacing > 0 /\ replacing' = replacing - 1 /\ starting' = starting
        BY <2>1 DEF StartThread, PublishConfig, ConfigFails, StartOpenVPN, ManagementFails, ReplaceOld
      <4> HIDE DEF Parts
      <4> QED BY <4>1, <4>2, EipAssumption
    <3>2. CASE PublishConfig
      BY <3>1, <3>2 DEF RestTyped, userVars, procVars, tunVars, PublishConfig
    <3>3. CASE ConfigFails
      BY <3>1, <3>3 DEF RestTyped, tunVars, ConfigFails, NoLongerOn
    <3>4. CASE StartOpenVPN \/ ManagementFails
      BY <3>1, <3>4 DEF RestTyped, StartOpenVPN, ManagementFails, ReplaceOld, StopsTrying,
                        NoLongerOn, CloseTunnel
    <3> QED BY <2>1, <3>2, <3>3, <3>4 DEF StartThread
  <2>2. CASE FirstHold \/ Restarts \/ Tries
    <3>1. CASE proc' = "held" /\ UNCHANGED <<userVars, worker, main, startVars, opened,
                                             attached, stale, tunVars>>
      BY <3>1 DEF RestTyped, userVars, startVars, tunVars
    <3>2. stale' \in BOOLEAN
      BY <2>2 DEF FirstHold, Restarts, ConnectRetry, Reconnects, Pause, StopsTrying, Tries, RestTyped
    <3>3. CASE Tries
      BY <3>3 DEF RestTyped, userVars, startVars, tunVars, Tries
    <3> QED
      BY <2>0, <2>2, <3>1, <3>2, <3>3
      DEF FirstHold, Pauses, Restarts, ConnectRetry, Reconnects, Pause
  <2>3. CASE OpenTun \/ StaleOpens \/ Connects
    BY <2>3 DEF RestTyped, userVars, startVars, procVars, tunVars, OpenTun, StaleOpens,
                Connects, NoLongerOn
  <2>4. CASE Exits \/ Dies
    BY <2>4 DEF RestTyped, userVars, startVars, tunVars, Exits, Dies, Ends, StopsTrying,
                NoLongerOn, CloseTunnel
  <2> QED BY <2>1, <2>2, <2>3, <2>4 DEF Service
<1>3. CASE UNCHANGED <<jobs, level, observerVars>>
  <2>1. HubTyped' /\ ObserverTyped'
    BY <1>3 DEF HubTyped, ObserverTyped, Numbered, observerVars
  <2> QED BY <1>1, <1>2, <2>1
<1>4. ASSUME NEW state, NEW lvl \in Level, Publish(state, lvl) PROVE TypeInv'
  BY <1>1, <1>2, <1>4, PublishTyped
<1> QED BY <1>3, <1>4, ServicePublishes DEF Published, Connects, Level

LEMMA TypeStep == TypeInv /\ [Next]_vars => TypeInv'
BY UserTyped, WorkerTyped, MainTyped, OthersTyped, ServiceTyped DEF Next

(* Every job, message and field stays in its range; in particular          *)
(* EipSetupObserver never asks for a gateway beyond the first one that     *)
(* does not exist, for any number of gateways, commands and bounds.        *)
THEOREM EipTypeOK == Spec => []TypeOK
<1>1. Spec => []TypeInv
  BY TypeInit, TypeStep, PTL DEF Spec
<1>2. TypeInv => TypeOK
  BY DEF TypeInv
<1> QED BY <1>1, <1>2, PTL

-----------------------------------------------------------------------------
(* Why BLOCKING is not shown in vain.  The level only becomes BLOCKING     *)
(* while main is about to establish the void VPN, and a step that takes    *)
(* the interface away from it either publishes another level, or is        *)
(* followed by one that does (stop() has closed, a tunnel was opened), or  *)
(* is one of those that tell nobody.  The hub drops an update while it     *)
(* waits for the end of a stop, but then the level is STOPPING.            *)
LEMMA PublishedLevel ==
  ASSUME NEW state, NEW lvl, Publish(state, lvl), level' = "BLOCKING"
  PROVE  lvl = "BLOCKING"
BY DEF Publish, Update, Ignores

LEMMA BlockingInit == Init => BlockingShownIsBlocking
BY DEF Init, BlockingShownIsBlocking

LEMMA BlockingStep == BlockingShownIsBlocking /\ [Next]_vars => BlockingShownIsBlocking'
<1> SUFFICES ASSUME BlockingShownIsBlocking, [Next]_vars PROVE BlockingShownIsBlocking'
  OBVIOUS
<1>1. ASSUME NEW state, NEW lvl, Publish(state, lvl), lvl # "BLOCKING"
      PROVE  BlockingShownIsBlocking'
  BY <1>1, PublishedLevel DEF BlockingShownIsBlocking
<1>2. CASE UNCHANGED <<level, main, proc, tunVars>>
  BY <1>2 DEF BlockingShownIsBlocking, tunVars
<1>3. CASE User \/ OnServiceJson \/ UNCHANGED vars
  BY <1>2, <1>3 DEF User, UserStart, UserStop, Command, UserStopsBlocking, OnServiceJson,
                    vars, procVars
<1>4. CASE TakeJob \/ EarlyRoutes \/ Launch \/ StopBlocking \/ StartBlocking
  BY <1>2, <1>4 DEF TakeJob, EarlyRoutes, Launch, StopBlocking, StartBlocking, procVars
<1>5. CASE PublishStopping
  BY <1>1, <1>5 DEF PublishStopping
<1>6. CASE Disconnect
  <2>1. CASE UNCHANGED <<level, proc>>
    BY <1>2, <1>6, <2>1 DEF Disconnect
  <2>2. CASE Publish("NOPROCESS", "NOTCONNECTED")
    BY <1>1, <2>2
  <2> QED BY <1>6, <2>1, <2>2 DEF Disconnect
<1>7. CASE OnSetupObserverEvent \/ NoMoreGateways \/ InvalidProfile \/ InvalidCertificate
  BY <1>2, <1>7 DEF OnSetupObserverEvent, NoMoreGateways, InvalidProfile, InvalidCertificate,
                    procVars
<1>8. CASE OnStartVPN
  BY <1>8 DEF OnStartVPN, Update, Ignores, BlockingShownIsBlocking
<1>9. CASE OnStartBlocking \/ OnStopBlocking
  BY <1>9 DEF OnStartBlocking, OnStopBlocking, BlockingShownIsBlocking
<1>10. CASE Establish
  BY <1>10 DEF Establish, BlockingShownIsBlocking
<1>11. CASE EndBlocking
  BY <1>1, <1>11 DEF EndBlocking
<1>12. CASE OnRevoke
  BY <1>12 DEF OnRevoke, BlockingShownIsBlocking
<1>13. CASE Service
  <2>1. CASE Published \/ Connects
    BY <1>1, <2>1 DEF Published, Connects
  <2>2. CASE UNCHANGED level
    <3>1. CASE ConfigFails
      BY <1>2, <2>2, <3>1 DEF ConfigFails
    <3>2. CASE ReplaceOld
      BY <2>2, <3>2 DEF ReplaceOld, CloseTunnel, BlockingShownIsBlocking
    <3>3. CASE proc = "launched" /\ proc' = "held" /\ UNCHANGED <<main, tunVars>>
      BY <2>2, <3>3 DEF BlockingShownIsBlocking, tunVars
    <3>4. CASE OpenTun \/ StaleOpens
      BY <2>2, <3>4 DEF OpenTun, StaleOpens, BlockingShownIsBlocking
    <3> QED
      BY <1>1, <1>13, <3>1, <3>2, <3>3, <3>4
      DEF Service, StartThread, PublishConfig, StartOpenVPN, ManagementFails, FirstHold, Pauses,
          Hold, Restarts, ConnectRetry, Reconnects, Pause, Tries, Connects, Exits, Dies, Ends
  <2> QED BY <1>13, <2>1, <2>2, ServicePublishes
<1> QED BY <1>3, <1>4, <1>5, <1>6, <1>7, <1>8, <1>9, <1>10, <1>11, <1>12, <1>13
        DEF Next, Worker, Main

(* Whatever starts, stops, retries and ends of a process cross it:         *)
(* LEVEL_BLOCKING is the level only while the traffic goes to the void     *)
(* VPN, or main is about to call establish() or, having closed, to publish *)
(* that, or OpenVPN's tunnel took its place and its status is to follow;   *)
(* unless the void VPN failed, was revoked, or was replaced by a tunnel    *)
(* that was closed with no status.                                         *)
THEOREM EipBlocking == Spec => []BlockingShownIsBlocking
BY BlockingInit, BlockingStep, PTL DEF Spec

-----------------------------------------------------------------------------
(* Why the failover is carried on, and tries the gateways in turn.  Up to  *)
(* the first CONNECTED nothing asks for a stop, so no STOPPING and no      *)
(* CONNECTED finishes an observation; the messages of a launch come in     *)
(* pairs, so the gateway that a startVPN is about is the one set up when   *)
(* it is handled.  While a gateway is set up, a start is on its way or the *)
(* observer listens for a process that runs or is about to; without one,   *)
(* a start is on its way, or the traffic is blocked or on the way to it,   *)
(* or was until a process nobody watches opened its tunnel.  A block       *)
(* disconnects, which would end a process that is watched: but once it is  *)
(* asked for, no gateway is set up again, because none is asked for.       *)
First == commands = 1 /\ wanted = "on"

Untouched ==
  commands = 0 =>
    /\ jobs = <<>> /\ worker = Idle /\ posted = <<>> /\ main = "idle"
    /\ wanted = "off" /\ level = "NOTCONNECTED" /\ ~download /\ setup = NoGateway
    /\ starting = 0 /\ replacing = 0 /\ proc = "none" /\ ~stale /\ tun = "none"

Task(job, steps) == [job |-> job, steps |-> steps]

NoStopQueued == \A i \in 1..Len(jobs) : jobs[i] # Stop
NoStopAtWork ==
  \/ worker = Idle
  \/ worker \in {Task(Block, <<"disconnect", "establish">>), Task(Block, <<"establish">>)}
  \/ \E n \in 0..Gateways, early \in BOOLEAN :
       worker \in {Task(Start(n, early), <<"earlyRoutes", "launch">>),
                   Task(Start(n, early), <<"launch">>)}
NoStopPosted == \A i \in 1..Len(posted) : posted[i].kind # "stopBlocking"
NotThere == level # "STOPPING" /\ ~download /\ proc # "connected" /\ main # "closing"
NothingStops == NoStopQueued /\ NoStopAtWork /\ NoStopPosted /\ NotThere

InPair(q, i) ==
  q[i].kind = "setup" =>
    /\ i < Len(q)
    /\ \/ q[i + 1] = [kind |-> "startVPN", n |-> q[i].n]
       \/ q[i + 1] = Failed("ERROR_INVALID_PROFILE")
Paired ==
  \A i \in 1..Len(posted) :
    /\ InPair(posted, i)
    /\ posted[i].kind = "startVPN" =>
         IF i = 1 THEN setup = posted[i].n
         ELSE posted[i - 1] = [kind |-> "setup", n |-> posted[i].n]

BlockQueued == \E i \in 1..Len(jobs) : jobs[i] = Block
BlockJob == BlockQueued \/ worker.job = Block
BlockPosted == \E i \in 1..Len(posted) : posted[i] = BlockIntent
BlocksNext == BlockJob \/ BlockPosted \/ main = "establishing" \/ tun = "void" \/ disturbed

StartQueued == \E i \in 1..Len(jobs) : jobs[i].op = "start"
StartPosted ==
  \E i \in 1..Len(posted) : posted[i].kind \in {"setup", "startVPN", "eipEvent"}
StartsNext == StartQueued \/ worker.job.op = "start" \/ StartPosted

Watched ==
  /\ setup # NoGateway /\ observed = setup
  /\ \/ starting > 0 \/ replacing > 0
     \/ proc \in {"launched", "held", "managed", "tunnel"}

Carried ==
  StartsNext \/ IF setup = NoGateway THEN BlocksNext \/ Unwatched ELSE Watched
CarriedInv == Untouched /\ (First => NothingStops /\ Paired /\ Carried)

(* The gateways asked for and not yet set up stand in one line: those of   *)
(* the posted messages, then that of the worker, then those of the jobs.   *)
AskedBy(m, n) ==
  \/ m.kind = "setup" /\ m.n = n
  \/ m = Failed("NO_MORE_GATEWAYS") /\ n = Gateways

Asked(p, n) ==
  \/ p \in 1..Len(posted) /\ AskedBy(posted[p], n)
  \/ p = Len(posted) + 1 /\ worker.job.op = "start" /\ worker.job.n = n
  \/ \E i \in 1..Len(jobs) : /\ p = Len(posted) + 1 + i
                             /\ jobs[i].op = "start" /\ jobs[i].n = n

GaveUp ==
  setup = NoGateway /\ \A p \in Nat : \A n \in 0..Gateways : Asked(p, n) => n = Gateways
GivesUp == BlockJob => GaveUp

LEMMA CarriedInit == Init => CarriedInv
BY DEF Init, CarriedInv, Untouched, First

LEMMA Concatenated ==
  ASSUME NEW a, NEW b PROVE <<a>> \o <<b>> = <<a, b>> /\ <<>> \o <<b>> = <<b>>
<1>1. <<a>> \in Seq({a, b}) /\ <<b>> \in Seq({a, b}) /\ <<a, b>> \in Seq({a, b})
  OBVIOUS
<1>2. <<>> \o <<b>> = <<b>>
  BY <1>1, ConcatEmptySeq
<1>3. /\ <<a>> \o <<b>> \in Seq({a, b}) /\ Len(<<a>> \o <<b>>) = 2
      /\ (<<a>> \o <<b>>)[1] = a /\ (<<a>> \o <<b>>)[2] = b
  BY <1>1, ConcatProperties
<1>4. <<a>> \o <<b>> = <<a, b>>
  <2> DEFINE s == <<a>> \o <<b>>
              t == <<a, b>>
  <2>1. /\ s \in Seq({a, b}) /\ t \in Seq({a, b}) /\ Len(s) = 2 /\ Len(t) = 2
        /\ s[1] = t[1] /\ s[2] = t[2]
    BY <1>1, <1>3
  <2> HIDE DEF s, t
  <2>2. \A i \in 1..Len(s) : s[i] = t[i]
    BY <2>1
  <2>3. s = t
    BY <2>1, <2>2, SeqEqual
  <2> QED BY <2>3 DEF s, t
<1> QED BY <1>2, <1>4

(* A job more or fewer, a message more or fewer. *)
LEMMA JobAdded ==
  ASSUME jobs \in Seq(Job), NEW job \in Job, job # Stop, jobs' = Append(jobs, job)
  PROVE  /\ NoStopQueued => NoStopQueued'
         /\ BlockQueued => BlockQueued'
         /\ StartQueued => StartQueued'
         /\ job = Block => BlockQueued'
         /\ job.op = "start" => StartQueued'
         /\ job # Block /\ BlockQueued' => BlockQueued
<1>1. /\ Len(jobs') = Len(jobs) + 1 /\ Len(jobs) \in Nat /\ jobs'[Len(jobs) + 1] = job
      /\ \A i \in 1..Len(jobs) : jobs'[i] = jobs[i]
  OBVIOUS
<1>2. \A i \in 1..Len(jobs') : i \in 1..Len(jobs) \/ i = Len(jobs) + 1
  BY <1>1
<1>3. /\ NoStopQueued => NoStopQueued'
      /\ job # Block /\ BlockQueued' => BlockQueued
  BY <1>1, <1>2 DEF NoStopQueued, BlockQueued
<1>4. /\ BlockQueued => BlockQueued'
      /\ StartQueued => StartQueued'
      /\ job = Block => BlockQueued'
      /\ job.op = "start" => StartQueued'
  BY <1>1 DEF BlockQueued, StartQueued
<1> QED BY <1>3, <1>4

LEMMA JobTaken ==
  ASSUME jobs \in Seq(Job), jobs # <<>>, jobs' = Tail(jobs)
  PROVE  /\ NoStopQueued => NoStopQueued' /\ Head(jobs) # Stop
         /\ BlockQueued => BlockQueued' \/ Head(jobs) = Block
         /\ StartQueued => StartQueued' \/ Head(jobs).op = "start"
         /\ BlockQueued' \/ Head(jobs) = Block => BlockQueued
<1>1. /\ Len(jobs') = Len(jobs) - 1 /\ Len(jobs) \in Nat \ {0} /\ Head(jobs) = jobs[1]
      /\ \A i \in 1..(Len(jobs) - 1) : jobs'[i] = jobs[i + 1]
  OBVIOUS
<1>2. NoStopQueued => NoStopQueued' /\ Head(jobs) # Stop
  BY <1>1 DEF NoStopQueued
<1>3. ASSUME NEW i \in 1..Len(jobs), i # 1
      PROVE  i - 1 \in 1..Len(jobs') /\ jobs'[i - 1] = jobs[i]
  BY <1>1, <1>3
<1>4. BlockQueued => BlockQueued' \/ Head(jobs) = Block
  BY <1>1, <1>3 DEF BlockQueued
<1>5. StartQueued => StartQueued' \/ Head(jobs).op = "start"
  BY <1>1, <1>3 DEF StartQueued
<1>6. BlockQueued' \/ Head(jobs) = Block => BlockQueued
  <2>1. \A i \in 1..Len(jobs') : i + 1 \in 1..Len(jobs) /\ jobs'[i] = jobs[i + 1]
    BY <1>1
  <2>2. 1 \in 1..Len(jobs)
    BY <1>1
  <2> QED BY <1>1, <2>1, <2>2 DEF BlockQueued
<1> QED BY <1>2, <1>4, <1>5, <1>6

(* What may be posted: a launch whole, and nothing that stops. *)
Postable(msgs) ==
  /\ msgs \in Seq(Message)
  /\ \A i \in 1..Len(msgs) :
       /\ msgs[i].kind # "stopBlocking" /\ InPair(msgs, i)
       /\ msgs[i].kind = "startVPN" =>
            i # 1 /\ msgs[i - 1] = [kind |-> "setup", n |-> msgs[i].n]

LEMMA PostCarried ==
  ASSUME posted \in Seq(Message), NoStopPosted, Paired, NEW msgs, Postable(msgs), Post(msgs),
         UNCHANGED setup
  PROVE  /\ NoStopPosted' /\ Paired'
         /\ BlockPosted => BlockPosted'
         /\ StartPosted => StartPosted'
         /\ \A i \in 1..Len(msgs) : /\ msgs[i] = BlockIntent => BlockPosted'
                                    /\ msgs[i].kind \in {"setup", "eipEvent"} => StartPosted'
<1> DEFINE L == Len(posted)
<1>1. /\ Len(posted') = L + Len(msgs) /\ L \in Nat /\ Len(msgs) \in Nat
      /\ \A i \in 1..L : posted'[i] = posted[i]
      /\ \A i \in 1..Len(msgs) : L + i \in 1..Len(posted') /\ posted'[L + i] = msgs[i]
  BY DEF Post, Postable
<1>2. ASSUME NEW i \in 1..Len(posted')
      PROVE  i \in 1..L \/ \E k \in 1..Len(msgs) : i = L + k
  <2>1. CASE i > L
    <3>1. i - L \in 1..Len(msgs) /\ i = L + (i - L)
      BY <1>1, <2>1
    <3> QED BY <3>1
  <2> QED BY <1>1, <2>1
<1> HIDE DEF L
<1>3. NoStopPosted'
  <2>1. \A i \in 1..L : posted'[i].kind # "stopBlocking"
    BY <1>1 DEF NoStopPosted, L
  <2>2. \A k \in 1..Len(msgs) : posted'[L + k].kind # "stopBlocking"
    BY <1>1 DEF Postable
  <2>3. \A i \in 1..Len(posted') : posted'[i].kind # "stopBlocking"
    BY <1>2, <2>1, <2>2
  <2> QED BY <2>3 DEF NoStopPosted
<1>4. ASSUME NEW i \in 1..L
      PROVE  /\ InPair(posted', i)
             /\ posted'[i].kind = "startVPN" =>
                  IF i = 1 THEN setup' = posted'[i].n
                  ELSE posted'[i - 1] = [kind |-> "setup", n |-> posted'[i].n]
  <2>1. InPair(posted', i)
    <3>1. InPair(posted, i)
      BY DEF Paired, L
    <3>2. i < L => i + 1 \in 1..L
      BY <1>1
    <3> QED BY <1>1, <3>1, <3>2 DEF InPair, L
  <2>2. i # 1 => i - 1 \in 1..L
    BY <1>1
  <2> QED BY <1>1, <2>1, <2>2 DEF Paired, L
<1>5. ASSUME NEW k \in 1..Len(msgs)
      PROVE  /\ InPair(posted', L + k)
             /\ posted'[L + k].kind = "startVPN" =>
                  L + k # 1
                  /\ posted'[(L + k) - 1] = [kind |-> "setup", n |-> posted'[L + k].n]
  <2>1. InPair(posted', L + k)
    <3>1. InPair(msgs, k) /\ posted'[L + k] = msgs[k]
      BY <1>1 DEF Postable
    <3>2. ASSUME k < Len(msgs)
          PROVE  L + k < Len(posted') /\ posted'[(L + k) + 1] = msgs[k + 1]
      <4>1. k + 1 \in 1..Len(msgs) /\ L + (k + 1) = (L + k) + 1
        BY <1>1, <3>2
      <4> QED BY <1>1, <3>2, <4>1
    <3> QED BY <3>1, <3>2 DEF InPair
  <2>2. ASSUME k # 1
        PROVE  L + k # 1 /\ posted'[(L + k) - 1] = msgs[k - 1]
    <3>1. k - 1 \in 1..Len(msgs) /\ L + (k - 1) = (L + k) - 1 /\ L + k # 1
      BY <1>1, <2>2
    <3> QED BY <1>1, <3>1
  <2> QED BY <1>1, <2>1, <2>2 DEF Postable
<1>6. Paired'
  <2> DEFINE Fits(i) ==
        /\ InPair(posted', i)
        /\ posted'[i].kind = "startVPN" =>
             IF i = 1 THEN setup' = posted'[i].n
             ELSE posted'[i - 1] = [kind |-> "setup", n |-> posted'[i].n]
  <2>1. \A i \in 1..L : Fits(i)
    BY <1>4
  <2>2. \A k \in 1..Len(msgs) : Fits(L + k)
    BY <1>5
  <2> HIDE DEF Fits
  <2>3. \A i \in 1..Len(posted') : Fits(i)
    BY <1>2, <2>1, <2>2
  <2> QED BY <2>3 DEF Fits, Paired, InPair
<1>7. /\ BlockPosted => BlockPosted'
      /\ StartPosted => StartPosted'
      /\ \A i \in 1..Len(msgs) : /\ msgs[i] = BlockIntent => BlockPosted'
                                 /\ msgs[i].kind \in {"setup", "eipEvent"} => StartPosted'
  BY <1>1 DEF BlockPosted, StartPosted, L
<1> QED BY <1>3, <1>6, <1>7

LEMMA HandleCarried ==
  ASSUME posted \in Seq(Message), NoStopPosted, Paired, NEW kind, Handle(kind),
         kind = "setup" => setup' = Head(posted).n
  PROVE  /\ Head(posted) \in Message /\ Head(posted).kind = kind /\ kind # "stopBlocking"
         /\ NoStopPosted' /\ Paired'
         /\ BlockPosted /\ kind # "startBlocking" => BlockPosted'
         /\ StartPosted /\ kind = "startBlocking" => StartPosted'
         /\ kind = "setup" => StartPosted'
         /\ kind = "startVPN" => setup = Head(posted).n
<1>1. /\ Len(posted) \in Nat \ {0} /\ Len(posted') = Len(posted) - 1
      /\ Head(posted) = posted[1] /\ posted[1].kind = kind /\ 1 \in 1..Len(posted)
      /\ posted[1] \in Message
      /\ \A i \in 1..Len(posted') : i + 1 \in 1..Len(posted) /\ posted'[i] = posted[i + 1]
  BY DEF Handle
<1>2. ASSUME NEW i \in 1..Len(posted), i # 1
      PROVE  i - 1 \in 1..Len(posted') /\ posted'[i - 1] = posted[i]
  BY <1>1, <1>2
<1>3. kind # "stopBlocking" /\ NoStopPosted'
  BY <1>1 DEF NoStopPosted
<1>4. kind = "setup" => StartPosted'
  <2>1. CASE kind = "setup"
    <3>1. 2 \in 1..Len(posted) /\ posted[2].kind \in {"startVPN", "eipEvent"}
      <4>1. InPair(posted, 1)
        BY <1>1 DEF Paired
      <4>2. 1 < Len(posted) /\ (\/ posted[1 + 1] = [kind |-> "startVPN", n |-> posted[1].n]
                               \/ posted[1 + 1] = Failed("ERROR_INVALID_PROFILE"))
        BY <1>1, <2>1, <4>1 DEF InPair
      <4>3. posted[2].kind \in {"startVPN", "eipEvent"}
        BY <4>2 DEF Failed
      <4> QED BY <1>1, <4>2, <4>3
    <3>2. 1 \in 1..Len(posted') /\ posted'[1] = posted[2]
      BY <1>2, <3>1
    <3> QED BY <3>1, <3>2 DEF StartPosted
  <2> QED BY <2>1
<1>5. Paired'
  <2> SUFFICES ASSUME NEW i \in 1..Len(posted')
               PROVE  /\ InPair(posted', i)
                      /\ posted'[i].kind = "startVPN" =>
                           IF i = 1 THEN setup' = posted'[i].n
                           ELSE posted'[i - 1] = [kind |-> "setup", n |-> posted'[i].n]
    BY DEF Paired, InPair
  <2>1. i + 1 \in 1..Len(posted) /\ posted'[i] = posted[i + 1] /\ (i + 1) - 1 = i
    BY <1>1
  <2>2. InPair(posted', i)
    <3>1. InPair(posted, i + 1)
      BY <2>1 DEF Paired
    <3>2. i + 1 < Len(posted) => i + 1 \in 1..Len(posted') /\ i < Len(posted')
      BY <1>1
    <3> QED BY <1>1, <2>1, <3>1, <3>2 DEF InPair
  <2>3. CASE posted'[i].kind = "startVPN"
    <3>1. posted[i] = [kind |-> "setup", n |-> posted'[i].n]
      BY <2>1, <2>3 DEF Paired
    <3>2. CASE i = 1
      <4>1. kind = "setup" /\ Head(posted).n = posted'[i].n
        BY <1>1, <3>1, <3>2
      <4> QED BY <2>2, <3>2, <4>1
    <3>3. CASE i # 1
      <4>1. posted'[i - 1] = posted[i]
        BY <1>1, <2>1, <3>3
      <4> QED BY <2>2, <3>1, <3>3, <4>1
    <3> QED BY <3>2, <3>3
  <2> QED BY <2>2, <2>3
<1>6. /\ BlockPosted /\ kind # "startBlocking" => BlockPosted'
      /\ StartPosted /\ kind = "startBlocking" => StartPosted'
  BY <1>1, <1>2 DEF BlockPosted, StartPosted, BlockIntent
<1>7. kind = "startVPN" => setup = Head(posted).n
  <2>1. posted[1].kind = "startVPN" => setup = posted[1].n
    BY <1>1 DEF Paired
  <2> QED BY <1>1, <2>1
<1> QED BY <1>1, <1>3, <1>4, <1>5, <1>6, <1>7

(* A task of the worker is a block or a start, and goes on with the same job. *)
LEMMA AtCarried ==
  ASSUME NoStopAtWork, NEW step, At(step)
  PROVE  /\ NoStopAtWork'
         /\ \/ step = "earlyRoutes" /\ worker.job.op = "start" /\ worker'.job = worker.job
            \/ step = "launch" /\ worker.job.op = "start"
            \/ step = "disconnect" /\ worker.job = Block /\ worker'.job = Block
            \/ step = "establish" /\ worker.job = Block
<1>1. worker # Idle
  BY DEF At, WorkerIdle, Idle
<1>2. CASE worker = Task(Block, <<"disconnect", "establish">>)
  <2>1. step = "disconnect" /\ worker' = Task(Block, <<"establish">>)
    BY <1>2 DEF At, Task
  <2> QED BY <1>2, <2>1 DEF NoStopAtWork, Task
<1>3. CASE worker = Task(Block, <<"establish">>)
  <2>1. step = "establish" /\ worker' = Idle
    BY <1>3 DEF At, Task
  <2> QED BY <1>3, <2>1 DEF NoStopAtWork, Task
<1>4. ASSUME NEW n \in 0..Gateways, NEW early \in BOOLEAN,
             worker = Task(Start(n, early), <<"earlyRoutes", "launch">>)
      PROVE  /\ NoStopAtWork'
             /\ step = "earlyRoutes" /\ worker.job.op = "start" /\ worker'.job = worker.job
  <2>1. step = "earlyRoutes" /\ worker' = Task(Start(n, early), <<"launch">>)
    BY <1>4 DEF At, Task
  <2> QED BY <1>4, <2>1 DEF NoStopAtWork, Task, Start
<1>5. ASSUME NEW n \in 0..Gateways, NEW early \in BOOLEAN,
             worker = Task(Start(n, early), <<"launch">>)
      PROVE  NoStopAtWork' /\ step = "launch" /\ worker.job.op = "start"
  <2>1. step = "launch" /\ worker' = Idle
    BY <1>5 DEF At, Task
  <2> QED BY <1>5, <2>1 DEF NoStopAtWork, Task, Start
<1> QED BY <1>1, <1>2, <1>3, <1>4, <1>5 DEF NoStopAtWork

(* Nothing finishes the observation, and a retry only adds a start. *)
LEMMA PublishCarried ==
  ASSUME TypeInv, NotThere, NEW state, NEW lvl, Publish(state, lvl),
         state \notin {"CONNECTED", "STOPPING"}, lvl # "STOPPING"
  PROVE  /\ UNCHANGED <<setup, observed, download>> /\ level' # "STOPPING"
         /\ NoStopQueued => NoStopQueued'
         /\ BlockQueued <=> BlockQueued'
         /\ StartQueued => StartQueued'
<1>1. UNCHANGED <<setup, observed, download>> /\ level' # "STOPPING"
  BY DEF Publish, Update, Ignores, ObserverUpdate, NotThere
<1>2. jobs' = jobs \/ \E n \in 0..Gateways : jobs' = Append(jobs, Start(n, FALSE))
  <2> DEFINE retrying == observed # NoGateway /\ observed = setup /\ state = "CONNECTRETRY"
  <2>1. CASE retrying
    <3>1. setupN + 1 \in 0..Gateways
      BY <2>1, EipAssumption DEF TypeInv, TypeOK, Numbered, Gateway, NoGateway
    <3> QED BY <2>1, <3>1 DEF Publish, ObserverUpdate, NotThere
  <2>2. CASE ~retrying
    BY <2>2 DEF Publish, ObserverUpdate, NotThere
  <2> QED BY <2>1, <2>2
<1>3. jobs \in Seq(Job)
  BY DEF TypeInv, TypeOK
<1>4. ASSUME jobs' = jobs
      PROVE  /\ NoStopQueued => NoStopQueued'
             /\ BlockQueued <=> BlockQueued'
             /\ StartQueued => StartQueued'
  BY <1>4 DEF NoStopQueued, BlockQueued, StartQueued
<1>5. ASSUME NEW n \in 0..Gateways, jobs' = Append(jobs, Start(n, FALSE))
      PROVE  /\ NoStopQueued => NoStopQueued'
             /\ BlockQueued <=> BlockQueued'
             /\ StartQueued => StartQueued'
  <2>1. /\ Start(n, FALSE) \in Job /\ Start(n, FALSE) # Stop
        /\ Start(n, FALSE) # Block
    BY JobTyped DEF Start, Stop, Block
  <2> QED BY <1>3, <1>5, <2>1, JobAdded
<1> QED BY <1>1, <1>2, <1>4, <1>5

LEMMA CarriedKept ==
  /\ UNCHANGED jobs => /\ NoStopQueued => NoStopQueued'
                       /\ BlockQueued <=> BlockQueued'
                       /\ StartQueued => StartQueued'
  /\ UNCHANGED worker => (NoStopAtWork => NoStopAtWork')
  /\ UNCHANGED posted => /\ NoStopPosted => NoStopPosted'
                         /\ BlockPosted => BlockPosted'
                         /\ StartPosted => StartPosted'
  /\ UNCHANGED <<posted, setup>> => (Paired => Paired')
BY DEF NoStopQueued, BlockQueued, StartQueued, NoStopAtWork, NoStopPosted, BlockPosted,
       StartPosted, Paired, InPair

(* Before the first command nothing moves but the user. *)
LEMMA UntouchedNext ==
  ASSUME Untouched, commands = 0, [Next]_vars
  PROVE  UserStart \/ UserStop \/ UNCHANGED vars
<1>2. /\ jobs = <<>> /\ worker.steps = <<>> /\ posted = <<>> /\ main = "idle"
      /\ wanted = "off" /\ level = "NOTCONNECTED" /\ ~download
      /\ starting = 0 /\ replacing = 0 /\ proc = "none" /\ ~stale /\ tun = "none"
  BY DEF Untouched, Idle
<1>3. ~UserStopsBlocking /\ ~OnRevoke /\ ~OnServiceJson
  BY <1>2 DEF UserStopsBlocking, OnRevoke, OnServiceJson
<1>4. ~Worker
  BY <1>2 DEF Worker, TakeJob, EarlyRoutes, Launch, PublishStopping, StopBlocking,
              Disconnect, StartBlocking, At, WorkerIdle
<1>5. ~Main
  BY <1>2 DEF Main, OnSetupObserverEvent, NoMoreGateways, InvalidProfile,
              InvalidCertificate, OnStartVPN, OnStartBlocking, Establish, OnStopBlocking,
              EndBlocking, FailedStart, Handle
<1>6. ~Service
  BY <1>2 DEF Service, StartThread, PublishConfig, ConfigFails, StartOpenVPN, ManagementFails,
              ReplaceOld, FirstHold, Restarts, ConnectRetry, Reconnects, Pause, Trying, Tries,
              OpenTun, StaleOpens, Connects, Exits, Dies
<1> QED BY <1>3, <1>4, <1>5, <1>6 DEF Next, User

LEMMA UntouchedStep ==
  ASSUME TypeInv, CarriedInv, commands = 0, [Next]_vars PROVE CarriedInv'
<1>1. Untouched /\ ~First
  BY DEF CarriedInv, First
<1>2. /\ jobs = <<>> /\ worker.steps = <<>> /\ posted = <<>> /\ main = "idle"
      /\ wanted = "off" /\ level = "NOTCONNECTED" /\ ~download
      /\ starting = 0 /\ replacing = 0 /\ proc = "none" /\ ~stale /\ tun = "none"
  BY <1>1 DEF Untouched, Idle
<1>3. UserStart \/ UserStop \/ UNCHANGED vars
  BY <1>1, UntouchedNext
<1>4. CASE UNCHANGED vars
  <2>1. commands' = 0 /\ Untouched'
    BY <1>1, <1>4 DEF vars, userVars, observerVars, startVars, procVars, tunVars, Untouched
  <2> QED BY <2>1 DEF CarriedInv, First
<1>5. CASE UserStop
  BY <1>5, <1>2 DEF UserStop, Command, CarriedInv, Untouched, First
<1>6. CASE UserStart
  <2>1. PICK early \in BOOLEAN : Command(Start(0, early), "on")
    BY <1>6 DEF UserStart
  <2>2. /\ jobs' = Append(jobs, Start(0, early)) /\ commands' = 1
        /\ UNCHANGED <<worker, posted, main, level, download, proc>>
    BY <2>1 DEF Command, observerVars, procVars
  <2>3. Start(0, early) \in Job /\ Start(0, early) # Stop /\ Start(0, early).op = "start"
    BY EipAssumption, JobTyped DEF Start, Stop
  <2>4. NoStopQueued /\ jobs \in Seq(Job)
    BY <1>2 DEF NoStopQueued
  <2>5. NoStopQueued' /\ StartQueued'
    BY <2>2, <2>3, <2>4, JobAdded
  <2>6. NoStopAtWork' /\ NoStopPosted' /\ NotThere' /\ Paired'
    BY <1>1, <1>2, <2>2 DEF Untouched, NoStopAtWork, NoStopPosted, NotThere, Paired
  <2>7. Untouched'
    BY <2>2 DEF Untouched
  <2> QED BY <2>5, <2>6, <2>7 DEF CarriedInv, NothingStops, Carried, StartsNext
<1> QED BY <1>3, <1>4, <1>5, <1>6

CarriedFirst == First /\ NothingStops /\ Paired /\ Carried /\ GivesUp
CarriedNext == NothingStops' /\ Paired' /\ Carried'

(* Every step of the worker that is not a stop's hands its task on. *)
LEMMA WorkerCarried ==
  ASSUME TypeInv, CarriedFirst, Worker PROVE CarriedNext
<1> USE DEF CarriedFirst, CarriedNext
<1>1. jobs \in Seq(Job) /\ posted \in Seq(Message)
  BY DEF TypeInv, TypeOK
<1>2. NoStopQueued /\ NoStopAtWork /\ NoStopPosted /\ NotThere
  BY DEF NothingStops
<1>3. CASE TakeJob
  <2>1. /\ jobs # <<>> /\ jobs' = Tail(jobs) /\ worker' = Task(Head(jobs), Steps(Head(jobs)))
        /\ Head(jobs) \in Job /\ WorkerIdle
    BY <1>1, <1>3, TailTyped DEF TakeJob, Task
  <2>2. /\ UNCHANGED <<posted, main, level, setup, observed, download>>
        /\ UNCHANGED <<starting, replacing, proc, tun, disturbed>>
    BY <1>3 DEF TakeJob, observerVars, startVars, procVars, tunVars
  <2>3. /\ NoStopQueued' /\ Head(jobs) # Stop
        /\ BlockQueued => BlockQueued' \/ Head(jobs) = Block
        /\ StartQueued => StartQueued' \/ Head(jobs).op = "start"
    BY <1>1, <1>2, <2>1, JobTaken
  <2>4. worker'.job = Head(jobs)
    BY <2>1 DEF Task
  <2>5. NoStopAtWork'
    <3>1. CASE Head(jobs) = Block
      <4>1. Steps(Head(jobs)) = <<"disconnect", "establish">>
        BY <3>1 DEF Steps, Block
      <4> QED BY <2>1, <3>1, <4>1 DEF NoStopAtWork
    <3>2. ASSUME NEW n \in 0..Gateways, NEW early \in BOOLEAN, Head(jobs) = Start(n, early)
          PROVE  NoStopAtWork'
      <4>1. Steps(Head(jobs)) \in {<<"earlyRoutes", "launch">>, <<"launch">>}
        <5>1. Steps(Head(jobs)) =
                (IF early THEN <<"earlyRoutes">> ELSE <<>>) \o <<"launch">>
          BY <3>2 DEF Steps, Start
        <5>2. /\ <<"earlyRoutes">> \o <<"launch">> = <<"earlyRoutes", "launch">>
              /\ <<>> \o <<"launch">> = <<"launch">>
          BY Concatenated
        <5> QED BY <5>1, <5>2
      <4> QED BY <2>1, <3>2, <4>1 DEF NoStopAtWork
    <3>3. Head(jobs) = Block \/ \E n \in 0..Gateways, early \in BOOLEAN :
                                  Head(jobs) = Start(n, early)
      BY <2>1, <2>3 DEF Job, Start
    <3> QED BY <3>1, <3>2, <3>3
  <2>6. worker.job # Block /\ worker.job.op # "start"
    <3>1. worker = Idle
      <4>1. NoStopAtWork /\ worker.steps = <<>>
        BY <1>2, <2>1 DEF WorkerIdle
      <4> HIDE DEF CarriedFirst, CarriedNext
      <4> QED BY <4>1 DEF NoStopAtWork, Task
    <3> QED BY <3>1 DEF Idle, Stop, Block
  <2>7. NothingStops' /\ Paired'
    BY <1>2, <2>2, <2>3, <2>5, CarriedKept DEF NothingStops, NotThere
  <2>8. BlocksNext => BlocksNext'
    BY <2>2, <2>3, <2>4, <2>6, CarriedKept DEF BlocksNext, BlockJob
  <2>9. StartsNext => StartsNext'
    BY <2>2, <2>3, <2>4, <2>6, CarriedKept DEF StartsNext
  <2>10. (Watched => Watched') /\ (Unwatched => Unwatched')
    BY <2>2 DEF Watched, Unwatched
  <2> QED BY <2>2, <2>7, <2>8, <2>9, <2>10 DEF Carried
<1>4. CASE EarlyRoutes \/ Launch \/ StopBlocking \/ StartBlocking
  <2>1. UNCHANGED <<jobs, main, level, setup, download, proc>>
    BY <1>4 DEF EarlyRoutes, Launch, StopBlocking, StartBlocking, observerVars, procVars
  <2>3. ASSUME NoStopAtWork', NoStopPosted', Paired'
        PROVE  NothingStops' /\ Paired'
    BY <1>2, <2>1, <2>3, CarriedKept DEF NothingStops, NotThere
  <2>4. Postable(<<BlockIntent>>) /\ <<BlockIntent>>[1] = BlockIntent /\ Len(<<BlockIntent>>) = 1
    BY MessageTyped DEF Postable, BlockIntent, InPair
  <2>5. ASSUME Post(<<BlockIntent>>)
        PROVE  NoStopPosted' /\ Paired' /\ BlockPosted'
    BY <1>1, <1>2, <2>1, <2>4, <2>5, PostCarried
  <2>6. CASE EarlyRoutes
    <3>1. NoStopAtWork' /\ worker.job.op = "start" /\ worker'.job.op = "start"
      BY <1>2, <2>6, AtCarried DEF EarlyRoutes
    <3>2. StartsNext'
      BY <3>1 DEF StartsNext
    <3>3. NoStopPosted' /\ Paired'
      BY <1>2, <2>1, <2>5, <2>6, CarriedKept DEF EarlyRoutes
    <3> QED BY <2>3, <3>1, <3>2, <3>3 DEF Carried
  <2>7. CASE StartBlocking
    <3>1. NoStopAtWork' /\ setup' = NoGateway
      BY <1>2, <2>1, <2>7, AtCarried DEF StartBlocking, GivesUp, GaveUp, BlockJob
    <3>2. NoStopPosted' /\ Paired' /\ BlockPosted'
      BY <2>5, <2>7 DEF StartBlocking
    <3> QED BY <2>3, <3>1, <3>2 DEF Carried, BlocksNext
  <2>8. ~StopBlocking
    BY <1>2, AtCarried DEF StopBlocking
  <2>9. CASE Launch
    <3>1. NoStopAtWork'
      BY <1>2, <2>9, AtCarried DEF Launch
    <3>2. PICK msgs : /\ Post(msgs) /\ Postable(msgs)
                      /\ 1 \in 1..Len(msgs) /\ msgs[1].kind \in {"setup", "eipEvent"}
      <4>1. ASSUME NEW error, Failed(error) \in Message
            PROVE  /\ Postable(<<Failed(error)>>) /\ 1 \in 1..Len(<<Failed(error)>>)
                   /\ <<Failed(error)>>[1].kind = "eipEvent"
        BY <4>1 DEF Postable, Failed, InPair
      <4>2. CASE Post(<<Failed("ERROR_INVALID_VPN_CERTIFICATE")>>)
        BY <4>1, <4>2, MessageTyped
      <4>3. CASE Post(<<Failed("NO_MORE_GATEWAYS")>>)
        BY <4>1, <4>3, MessageTyped
      <4>4. ASSUME NEW n \in Gateway, NEW second \in Message,
                   second \in {[kind |-> "startVPN", n |-> n], Failed("ERROR_INVALID_PROFILE")}
            PROVE  LET msgs == <<[kind |-> "setup", n |-> n], second>>
                   IN  /\ Postable(msgs) /\ 1 \in 1..Len(msgs)
                       /\ msgs[1].kind = "setup"
        <5> DEFINE first == [kind |-> "setup", n |-> n]
        <5>1. first \in Message /\ first.kind = "setup" /\ first.n = n
          BY MessageTyped
        <5>2. /\ second.kind \in {"startVPN", "eipEvent"}
              /\ second.kind = "startVPN" => second.n = n
              /\ second = [kind |-> "startVPN", n |-> n] \/ second = Failed("ERROR_INVALID_PROFILE")
          BY <4>4 DEF Failed
        <5> HIDE DEF first
        <5>3. InPair(<<first, second>>, 1) /\ InPair(<<first, second>>, 2)
          BY <5>1, <5>2 DEF InPair
        <5>4. <<first, second>> \in Seq(Message) /\ Len(<<first, second>>) = 2
          BY <4>4, <5>1
        <5>5. second.kind = "startVPN" => first = [kind |-> "setup", n |-> second.n]
          BY <5>2 DEF first
        <5>6. Postable(<<first, second>>)
          BY <5>1, <5>2, <5>3, <5>4, <5>5 DEF Postable
        <5> QED BY <5>1, <5>4, <5>6 DEF first
      <4>5. ASSUME NEW n, n \in Broken,
                   Post(<<[kind |-> "setup", n |-> n], Failed("ERROR_INVALID_PROFILE")>>)
            PROVE  \E msgs : /\ Post(msgs) /\ Postable(msgs)
                             /\ 1 \in 1..Len(msgs) /\ msgs[1].kind = "setup"
        <5>1. n \in Gateway
          BY <4>5, EipAssumption DEF Gateway
        <5> DEFINE msgs == <<[kind |-> "setup", n |-> n], Failed("ERROR_INVALID_PROFILE")>>
        <5>2. Postable(msgs) /\ 1 \in 1..Len(msgs) /\ msgs[1].kind = "setup"
          BY <4>4, <5>1, MessageTyped
        <5>3. Post(msgs)
          BY <4>5
        <5> HIDE DEF msgs
        <5> QED BY <5>2, <5>3
      <4>6. ASSUME NEW n \in Gateway,
                   Post(<<[kind |-> "setup", n |-> n], [kind |-> "startVPN", n |-> n]>>)
            PROVE  \E msgs : /\ Post(msgs) /\ Postable(msgs)
                             /\ 1 \in 1..Len(msgs) /\ msgs[1].kind = "setup"
        <5> DEFINE msgs == <<[kind |-> "setup", n |-> n], [kind |-> "startVPN", n |-> n]>>
        <5>1. Postable(msgs) /\ 1 \in 1..Len(msgs) /\ msgs[1].kind = "setup"
          BY <4>4, MessageTyped
        <5>2. Post(msgs)
          BY <4>6
        <5> HIDE DEF msgs
        <5> QED BY <5>1, <5>2
      <4> QED BY <2>9, <4>2, <4>3, <4>5, <4>6 DEF Launch, LaunchActiveGateway
    <3>3. NoStopPosted' /\ Paired' /\ StartPosted'
      BY <1>1, <1>2, <2>1, <3>2, PostCarried
    <3> QED BY <2>3, <3>1, <3>3 DEF Carried, StartsNext
  <2> QED BY <1>4, <2>6, <2>7, <2>8, <2>9
<1>5. ~PublishStopping
  BY <1>2, AtCarried DEF PublishStopping
<1>6. CASE Disconnect
  <2>1. NoStopAtWork' /\ worker'.job = Block /\ setup = NoGateway
    BY <1>2, <1>6, AtCarried DEF Disconnect, GivesUp, GaveUp, BlockJob
  <2>2. UNCHANGED <<posted, main>> /\ proc' \in {proc, "told"}
    BY <1>6 DEF Disconnect
  <2>3. NoStopQueued' /\ setup' = setup /\ NotThere'
    <3>1. CASE UNCHANGED <<jobs, level, observerVars>>
      BY <1>2, <2>2, <3>1, CarriedKept DEF NotThere, observerVars
    <3>2. CASE Publish("NOPROCESS", "NOTCONNECTED")
      <4>1. NoStopQueued' /\ UNCHANGED <<setup, download>> /\ level' # "STOPPING"
        BY <1>2, <3>2, PublishCarried
      <4> QED BY <1>2, <2>2, <3>2, <4>1 DEF NotThere
    <3> QED BY <1>6, <3>1, <3>2 DEF Disconnect
  <2>4. NoStopPosted' /\ Paired'
    BY <1>2, <2>2, <2>3, CarriedKept
  <2> QED BY <2>1, <2>3, <2>4 DEF NothingStops, Carried, BlocksNext, BlockJob
<1> QED BY <1>3, <1>4, <1>5, <1>6 DEF Worker

(* A launched start is watched once it is handled: the gateway it is for   *)
(* is the one set up.                                                      *)
LEMMA MainCarried ==
  ASSUME TypeInv, CarriedFirst, Main, First' PROVE CarriedNext
<1> USE DEF CarriedFirst, CarriedNext
<1>1. jobs \in Seq(Job) /\ posted \in Seq(Message) /\ starting \in Nat
  BY DEF TypeInv, TypeOK
<1>2. NoStopQueued /\ NoStopAtWork /\ NoStopPosted /\ NotThere
  BY DEF NothingStops
<1>3. CASE OnSetupObserverEvent
  <2>1. /\ Handle("setup") /\ setup' = Head(posted).n
        /\ UNCHANGED <<jobs, worker, main, level, download, proc>>
    BY <1>3 DEF OnSetupObserverEvent, procVars
  <2>2. NoStopPosted' /\ Paired' /\ StartPosted'
    BY <1>1, <1>2, <2>1, HandleCarried
  <2>3. NothingStops'
    BY <1>2, <2>1, <2>2, CarriedKept DEF NothingStops, NotThere
  <2> QED BY <2>2, <2>3 DEF Carried, StartsNext
<1>4. CASE NoMoreGateways \/ InvalidProfile
  <2>1. /\ Handle("eipEvent") /\ UNCHANGED <<worker, main, level, download, proc>>
    BY <1>4 DEF NoMoreGateways, InvalidProfile, FailedStart, observerVars, procVars
  <2>2. NoStopPosted' /\ Paired'
    BY <1>1, <1>2, <2>1, HandleCarried
  <2>3. NoStopQueued' /\ (StartQueued' \/ (setup' = NoGateway /\ BlockQueued'))
    <3>1. CASE NoMoreGateways
      <4>1. Block # Stop
        BY DEF Block, Stop
      <4> QED
        BY <1>1, <1>2, <3>1, <4>1, JobAdded, JobTyped DEF NoMoreGateways, FinishGatewaySetup
    <3>2. CASE InvalidProfile
      <4>1. Start(setupN + 1, FALSE) \in Job
        BY <3>2, NextTyped DEF InvalidProfile
      <4>2. Start(setupN + 1, FALSE) # Stop /\ Start(setupN + 1, FALSE).op = "start"
        BY DEF Start, Stop
      <4> QED BY <1>1, <1>2, <3>2, <4>1, <4>2, JobAdded DEF InvalidProfile
    <3> QED BY <1>4, <3>1, <3>2
  <2>4. NothingStops'
    BY <1>2, <2>1, <2>2, <2>3, CarriedKept DEF NothingStops, NotThere
  <2> QED BY <2>2, <2>3, <2>4 DEF Carried, BlocksNext, BlockJob, StartsNext
<1>5. ~InvalidCertificate
  BY DEF InvalidCertificate, First
<1>6. CASE OnStartVPN
  <2>1. /\ Handle("startVPN") /\ starting' = starting + 1
        /\ Update("VPN_GENERATE_CONFIG", "CONNECTING")
        /\ observed' = IF setup # NoGateway THEN Head(posted).n ELSE observed
        /\ UNCHANGED <<jobs, worker, main, setup, download, proc>>
    BY <1>6 DEF OnStartVPN, procVars
  <2>2. /\ NoStopPosted' /\ Paired' /\ setup = Head(posted).n
        /\ Head(posted) \in Message /\ Head(posted).kind = "startVPN"
    BY <1>1, <1>2, <2>1, HandleCarried
  <2>3. setup \in Gateway
    BY <2>2 DEF Message
  <2>4. setup # NoGateway
    BY <2>3, EipAssumption DEF Gateway, NoGateway
  <2>5. Watched'
    BY <1>1, <2>1, <2>2, <2>4 DEF Watched, NoGateway
  <2>6. level' # "STOPPING"
    BY <1>2, <2>1 DEF Update, Ignores, NotThere
  <2>7. NothingStops'
    BY <1>2, <2>1, <2>2, <2>6, CarriedKept DEF NothingStops, NotThere
  <2> QED BY <2>1, <2>2, <2>4, <2>5, <2>7 DEF Carried
<1>7. CASE OnStartBlocking
  <2>1. /\ Handle("startBlocking") /\ Publish("ESTABLISHVOIDVPN", "BLOCKING")
        /\ main' = "establishing" /\ UNCHANGED <<worker, starting, replacing, proc>>
    BY <1>7 DEF OnStartBlocking, startVars, procVars
  <2>2. /\ UNCHANGED <<setup, observed, download>> /\ level' # "STOPPING" /\ NoStopQueued'
        /\ StartQueued => StartQueued'
    BY <1>2, <2>1, PublishCarried
  <2>3. NoStopPosted' /\ Paired' /\ (StartPosted => StartPosted')
    BY <1>1, <1>2, <2>1, HandleCarried
  <2>4. NothingStops'
    BY <1>2, <2>1, <2>2, <2>3, CarriedKept DEF NothingStops, NotThere
  <2>5. (StartsNext => StartsNext') /\ (Watched => Watched') /\ BlocksNext'
    BY <2>1, <2>2, <2>3 DEF StartsNext, Watched, BlocksNext
  <2> QED BY <2>2, <2>3, <2>4, <2>5 DEF Carried
<1>8. CASE Establish
  <2>1. /\ tun' = "void" \/ disturbed'
        /\ main' = "idle" /\ UNCHANGED <<jobs, worker, posted, level, download, setup, observed>>
        /\ UNCHANGED <<starting, replacing, proc>>
    BY <1>8 DEF Establish, observerVars, startVars, procVars
  <2>2. NothingStops' /\ Paired'
    BY <1>2, <2>1, CarriedKept DEF NothingStops, NotThere
  <2>3. (StartsNext => StartsNext') /\ (Watched => Watched') /\ BlocksNext'
    BY <2>1, CarriedKept DEF StartsNext, Watched, BlocksNext
  <2> QED BY <2>1, <2>2, <2>3 DEF Carried
<1>9. ~OnStopBlocking /\ ~EndBlocking
  <2>1. ~Handle("stopBlocking")
    BY <1>1, <1>2 DEF Handle, NoStopPosted
  <2> QED BY <1>2, <2>1 DEF OnStopBlocking, EndBlocking, NotThere
<1> QED BY <1>3, <1>4, <1>5, <1>6, <1>7, <1>8, <1>9 DEF Main

(* The process is replaced, held, tries and retries, but is not left       *)
(* alone; a tunnel that nobody watches stays, or the void VPN is disturbed. *)
LEMMA ServiceCarried ==
  ASSUME TypeInv, CarriedFirst, Service, First' PROVE CarriedNext
<1> USE DEF CarriedFirst, CarriedNext
<1>1. NoStopQueued /\ NoStopAtWork /\ NoStopPosted /\ NotThere
  BY DEF NothingStops
<1>2. ~ConfigFails /\ ~ManagementFails /\ ~Connects /\ ~Dies
  BY DEF ConfigFails, ManagementFails, Connects, Dies, NoLongerOn, First
<1>3. /\ UNCHANGED <<setup, observed, download>> /\ level' # "STOPPING" /\ NoStopQueued'
      /\ BlockQueued <=> BlockQueued'
      /\ StartQueued => StartQueued'
  <2>1. CASE UNCHANGED <<jobs, level, observerVars>>
    BY <1>1, <2>1, CarriedKept DEF NotThere, observerVars
  <2>2. CASE Published
    <3>1. PICK state \in {"VPN_GENERATE_CONFIG", "EXITING", "NOPROCESS", "PAUSED",
                          "CONNECTRETRY", "RECONNECTING", "CONNECTING"},
               lvl \in Level \ {"BLOCKING", "STOPPING"} : Publish(state, lvl)
      BY <2>2 DEF Published
    <3> QED BY <1>1, <3>1, PublishCarried
  <2> QED BY <1>2, <2>1, <2>2, ServicePublishes
<1>4. ASSUME UNCHANGED <<worker, posted, main>>, proc' # "connected",
             Watched => Watched', tun = "void" => tun' = "void" \/ disturbed' \/ Unwatched',
             Unwatched => Unwatched' \/ disturbed', disturbed => disturbed'
      PROVE  CarriedNext
  <2>1. NothingStops' /\ Paired'
    BY <1>1, <1>3, <1>4, CarriedKept DEF NothingStops, NotThere
  <2>2. /\ StartsNext => StartsNext'
        /\ BlocksNext \/ Unwatched => BlocksNext' \/ Unwatched'
    BY <1>3, <1>4, CarriedKept DEF StartsNext, BlocksNext, BlockJob
  <2> QED BY <1>3, <1>4, <2>1, <2>2 DEF Carried
<1>5. CASE PublishConfig
  <2>1. /\ UNCHANGED <<worker, posted, main, proc, tun, disturbed>> /\ replacing' > 0
    BY <1>5 DEF PublishConfig, procVars, tunVars, TypeInv, TypeOK
  <2> QED BY <1>1, <1>3, <1>4, <2>1 DEF Watched, Unwatched, NotThere, NoGateway
<1>6. CASE StartOpenVPN
  <2>1. /\ UNCHANGED <<worker, posted, main>> /\ proc' = "launched"
        /\ tun = "void" => tun' = "void"
        /\ tun = "ovpn" /\ setup = NoGateway => disturbed'
        /\ disturbed => disturbed'
    BY <1>6 DEF StartOpenVPN, ReplaceOld, CloseTunnel
  <2> QED BY <1>3, <1>4, <2>1 DEF Watched, Unwatched, NoGateway
<1>7. CASE FirstHold \/ Restarts \/ Tries
  <2>1. proc' \in {"held", "managed"} /\ UNCHANGED <<worker, posted, main, starting, replacing, tun, disturbed>>
    <3>1. ASSUME NEW state, NEW lvl, Hold(state, lvl)
          PROVE  proc' = "held" /\ UNCHANGED <<worker, posted, main, starting, replacing, tun, disturbed>>
      BY <3>1 DEF Hold, startVars, tunVars
    <3>2. CASE Tries
      BY <3>2 DEF Tries, startVars, tunVars
    <3>3. CASE proc' = "held" /\ UNCHANGED <<worker, posted, main, startVars, tunVars>>
      BY <3>3 DEF startVars, tunVars
    <3> QED BY <1>7, <3>1, <3>2, <3>3
            DEF FirstHold, Restarts, ConnectRetry, Reconnects, Pause, Pauses
  <2> QED BY <1>3, <1>4, <2>1 DEF Watched, Unwatched, NoGateway
<1>8. CASE OpenTun
  <2>1. /\ UNCHANGED <<worker, posted, main, starting, replacing, disturbed>>
        /\ proc' = "tunnel" /\ tun' = "ovpn" /\ proc = "managed"
    BY <1>8 DEF OpenTun, startVars
  <2>2. CASE setup = NoGateway
    BY <1>3, <1>4, <2>1, <2>2 DEF Watched, Unwatched, NoGateway
  <2>3. CASE setup # NoGateway
    <3>1. (StartsNext => StartsNext') /\ (Watched => Watched')
      BY <1>3, <2>1, CarriedKept DEF StartsNext, Watched, NoGateway
    <3>2. NothingStops' /\ Paired'
      BY <1>1, <1>3, <2>1, CarriedKept DEF NothingStops, NotThere
    <3> QED BY <1>3, <2>3, <3>1, <3>2 DEF Carried, NoGateway
  <2> QED BY <2>2, <2>3
<1>9. CASE StaleOpens
  <2>1. /\ UNCHANGED <<worker, posted, main, starting, replacing, proc>>
        /\ tun # "none" => disturbed'
        /\ disturbed => disturbed'
    BY <1>9 DEF StaleOpens, startVars
  <2> QED BY <1>1, <1>3, <1>4, <2>1 DEF Watched, Unwatched, NotThere, NoGateway
<1>10. CASE Exits
  <2>1. /\ UNCHANGED <<worker, posted, main, starting, replacing, disturbed>>
        /\ proc = "told" /\ proc' = "none" /\ (tun = "void" => tun' = "void")
    BY <1>10 DEF Exits, Ends, CloseTunnel, startVars
  <2> QED BY <1>3, <1>4, <2>1 DEF Watched, Unwatched, NoGateway
<1> QED BY <1>2, <1>5, <1>6, <1>7, <1>8, <1>9, <1>10 DEF Service, StartThread

(* While the first VPN asked for is on its way, the user does nothing. *)
LEMMA FirstStep ==
  ASSUME TypeInv, CarriedInv, First => GivesUp, [Next]_vars, commands # 0
  PROVE  /\ Untouched'
         /\ First' => CarriedFirst /\ ~User
<1>1. commands \in Nat \ {0}
  BY EipAssumption DEF TypeInv, TypeOK
<1>2. (commands' = commands + 1 /\ User) \/ (commands' = commands /\ ~User)
  <2>1. User => commands' = commands + 1
    BY DEF User, UserStart, UserStop, UserStopsBlocking, Command
  <2>2. Worker => commands' = commands
    BY DEF Worker, TakeJob, EarlyRoutes, Launch, PublishStopping, StopBlocking, Disconnect,
           StartBlocking, userVars
  <2>3. Main => commands' = commands
    BY DEF Main, OnSetupObserverEvent, NoMoreGateways, InvalidProfile, InvalidCertificate,
           OnStartVPN, OnStartBlocking, Establish, OnStopBlocking, EndBlocking, userVars
  <2>4. Service => commands' = commands
    BY DEF Service, StartThread, PublishConfig, ConfigFails, StartOpenVPN, ManagementFails,
           ReplaceOld, FirstHold, Pauses, Hold, Restarts, ConnectRetry, Reconnects, Pause, Tries,
           OpenTun, StaleOpens, Connects, Exits, Dies, Ends, NoLongerOn, userVars
  <2>5. OnRevoke \/ OnServiceJson \/ UNCHANGED vars => commands' = commands
    BY DEF OnRevoke, OnServiceJson, vars, userVars
  <2> QED BY <1>1, <2>1, <2>2, <2>3, <2>4, <2>5 DEF Next
<1>3. Untouched'
  BY <1>1, <1>2 DEF Untouched
<1>4. SUFFICES ASSUME First' PROVE CarriedFirst /\ ~User
  BY <1>3
<1>5. commands = 1 /\ commands' = commands /\ ~User
  BY <1>1, <1>2, <1>4 DEF First
<1>6. wanted = "on"
  <2>1. Worker => wanted' = wanted
    BY DEF Worker, TakeJob, EarlyRoutes, Launch, PublishStopping, StopBlocking, Disconnect,
           StartBlocking, userVars
  <2>2. Main => wanted' \in {wanted, "off"}
    BY DEF Main, OnSetupObserverEvent, NoMoreGateways, InvalidProfile, InvalidCertificate,
           OnStartVPN, OnStartBlocking, Establish, OnStopBlocking, EndBlocking, userVars
  <2>3. Service => wanted' \in {wanted, "open"}
    BY DEF Service, StartThread, PublishConfig, ConfigFails, StartOpenVPN, ManagementFails,
           ReplaceOld, FirstHold, Pauses, Hold, Restarts, ConnectRetry, Reconnects, Pause, Tries,
           OpenTun, StaleOpens, Connects, Exits, Dies, Ends, NoLongerOn, userVars
  <2>4. OnRevoke \/ OnServiceJson \/ UNCHANGED vars => wanted' = wanted
    BY DEF OnRevoke, OnServiceJson, vars, userVars
  <2> QED BY <1>4, <1>5, <2>1, <2>2, <2>3, <2>4 DEF Next, First
<1>7. CarriedFirst
  BY <1>5, <1>6 DEF CarriedInv, First, CarriedFirst
<1> QED BY <1>5, <1>7

LEMMA CarriedStep ==
  TypeInv /\ CarriedInv /\ (First => GivesUp) /\ [Next]_vars => CarriedInv'
<1> SUFFICES ASSUME TypeInv, CarriedInv, First => GivesUp, [Next]_vars, commands # 0
             PROVE  CarriedInv'
  BY UntouchedStep
<1>1. SUFFICES ASSUME First' PROVE CarriedNext
  BY FirstStep DEF CarriedInv, CarriedNext
<1>2. CarriedFirst /\ ~User
  BY <1>1, FirstStep
<1>3. NoStopQueued /\ NoStopAtWork /\ NoStopPosted /\ NotThere
  BY <1>2 DEF CarriedFirst, NothingStops
<1>4. CASE UNCHANGED vars
  <2>1. /\ UNCHANGED <<jobs, worker, posted, main, level, setup, observed>>
        /\ UNCHANGED <<download, starting, replacing, proc, tun, disturbed>>
    BY <1>4 DEF vars, observerVars, startVars, procVars, tunVars
  <2>2. NothingStops' /\ Paired'
    BY <1>2, <1>3, <2>1, CarriedKept DEF CarriedFirst, NothingStops, NotThere
  <2>3. /\ BlocksNext => BlocksNext'
        /\ StartsNext => StartsNext'
    BY <2>1, CarriedKept DEF BlocksNext, BlockJob, StartsNext
  <2>4. (Watched => Watched') /\ (Unwatched => Unwatched')
    BY <2>1 DEF Watched, Unwatched, NoGateway
  <2> QED BY <1>2, <2>1, <2>2, <2>3, <2>4 DEF CarriedFirst, CarriedNext, Carried, NoGateway
<1>5. CASE OnRevoke
  <2>1. /\ disturbed' /\ UNCHANGED <<jobs, worker, posted, main, level, setup, observed>>
        /\ UNCHANGED <<download, starting, replacing, proc>>
    BY <1>5 DEF OnRevoke, observerVars, startVars, procVars
  <2>2. NothingStops' /\ Paired'
    BY <1>2, <1>3, <2>1, CarriedKept DEF CarriedFirst, NothingStops, NotThere
  <2>3. (StartsNext => StartsNext') /\ (Watched => Watched') /\ BlocksNext'
    BY <2>1, CarriedKept DEF StartsNext, Watched, BlocksNext, NoGateway
  <2> QED BY <1>2, <2>1, <2>2, <2>3 DEF CarriedFirst, CarriedNext, Carried, NoGateway
<1>6. ~OnServiceJson
  BY <1>3 DEF OnServiceJson, NotThere
<1> QED BY <1>1, <1>2, <1>4, <1>5, <1>6, WorkerCarried, MainCarried, ServiceCarried DEF Next

-----------------------------------------------------------------------------
(* Why the gateways are tried in turn.  Each gateway in the line of those  *)
(* asked for is the one set up or its successor, in order, since only the  *)
(* successor ever joins the line, at its end.  Before the first is set up, *)
(* and after the last has failed, all of them are the same.                *)
InLine ==
  \A p, q \in Nat : \A n, m \in 0..Gateways :
    Asked(p, n) /\ Asked(q, m) /\ p <= q => n <= m
SuccessorsAsked ==
  \A p \in Nat : \A n \in 0..Gateways :
    Asked(p, n) => IF setup = NoGateway THEN n \in {0, Gateways} ELSE n \in {setup, setup + 1}
SameAsked ==
  setup = NoGateway =>
    \A p, q \in Nat : \A n, m \in 0..Gateways : Asked(p, n) /\ Asked(q, m) => n = m
InTurn == InLine /\ SuccessorsAsked /\ SameAsked

InvalidSetUp ==
  \A i \in 1..Len(posted) :
    posted[i] = Failed("ERROR_INVALID_PROFILE") =>
      IF i = 1 THEN setup # NoGateway ELSE posted[i - 1].kind = "setup"

TurnInv == First => InTurn /\ InvalidSetUp /\ GivesUp

(* What a step keeps; once nothing but giving up is asked for, that stays. *)
KeepsTurn == InTurn' /\ InvalidSetUp' /\ (GaveUp => GaveUp')

Lines == jobs \in Seq(Job) /\ posted \in Seq(Message)
Once == \A p \in Nat : \A n, m \in 0..Gateways : Asked(p, n) /\ Asked(p, m) => n = m

LEMMA AskedOnce == Lines => Once
<1> SUFFICES ASSUME Lines, NEW p \in Nat, NEW n \in 0..Gateways, NEW m \in 0..Gateways,
                    Asked(p, n), Asked(p, m)
             PROVE  n = m
  BY DEF Once
<1> USE DEF Lines
<1>1. Len(posted) \in Nat /\ Len(jobs) \in Nat
  OBVIOUS
<1>2. CASE p \in 1..Len(posted)
  BY <1>1, <1>2 DEF Asked, AskedBy, Failed
<1>3. CASE p = Len(posted) + 1
  BY <1>1, <1>3 DEF Asked
<1>4. CASE p > Len(posted) + 1
  <2>1. \A i \in 1..Len(jobs) : p = Len(posted) + 1 + i => i = p - (Len(posted) + 1)
    BY <1>1
  <2> QED BY <1>1, <1>4, <2>1 DEF Asked
<1>5. p # 0
  BY <1>1 DEF Asked
<1> QED BY <1>1, <1>2, <1>3, <1>4, <1>5

(* The line moves on by f, keeping its order; a new successor is the last. *)
NewSuccessor(p, n) ==
  setup # NoGateway /\ n = setup + 1 /\ p = (Len(posted) + 1 + Len(jobs))'

LEMMA AskedLast ==
  ASSUME Lines', NEW p \in Nat, NEW n, Asked(p, n)'
  PROVE  p <= (Len(posted) + 1 + Len(jobs))'
<1>1. Len(posted') \in Nat /\ Len(jobs') \in Nat
  BY DEF Lines
<1> QED BY <1>1 DEF Asked

LEMMA LineMoved ==
  ASSUME TypeInv, Lines', InTurn,
         NEW f \in [Nat -> Nat], \A p, q \in Nat : p <= q => f[p] <= f[q],
         \A p \in Nat : \A n \in 0..Gateways :
           Asked(p, n)' => Asked(f[p], n) \/ NewSuccessor(p, n)
  PROVE  InLine'
<1>1. Once'
  BY AskedOnce, PTL
<1>2. setup = NoGateway \/ setup \in Nat
  BY EipAssumption DEF TypeInv, TypeOK, Gateway
<1>3. ASSUME NEW p \in Nat, NEW q \in Nat, NEW n \in 0..Gateways, NEW m \in 0..Gateways,
             Asked(p, n)', Asked(q, m)', p <= q
      PROVE  n <= m
  <2>1. CASE Asked(f[p], n) /\ Asked(f[q], m)
    BY <1>3, <2>1 DEF InTurn, InLine
  <2>2. CASE setup # NoGateway /\ m = setup + 1
    <3>1. CASE Asked(f[p], n)
      BY <1>2, <2>2, <3>1 DEF InTurn, SuccessorsAsked
    <3>2. CASE ~Asked(f[p], n)
      BY <1>2, <1>3, <2>2, <3>2 DEF NewSuccessor
    <3> QED BY <3>1, <3>2
  <2>3. CASE ~Asked(f[p], n) /\ Asked(f[q], m)
    <3>1. p = (Len(posted) + 1 + Len(jobs))'
      BY <1>3, <2>3 DEF NewSuccessor
    <3>2. q <= p
      BY <1>3, <3>1, AskedLast
    <3> QED BY <1>1, <1>3, <3>2, EipAssumption DEF Once
  <2> QED BY <1>3, <2>1, <2>2, <2>3 DEF NewSuccessor
<1> QED BY <1>3 DEF InLine

LEMMA TurnMoved ==
  ASSUME TypeInv, Lines', InTurn, UNCHANGED setup,
         NEW f \in [Nat -> Nat], \A p, q \in Nat : p <= q => f[p] <= f[q],
         \A p \in Nat : \A n \in 0..Gateways :
           Asked(p, n)' => Asked(f[p], n) \/ NewSuccessor(p, n)
  PROVE  InTurn' /\ (GaveUp => GaveUp')
<1>1. InLine'
  BY LineMoved
<1>2. SuccessorsAsked'
  BY DEF InTurn, SuccessorsAsked, NoGateway, NewSuccessor
<1>3. SameAsked'
  BY DEF InTurn, SameAsked, NoGateway, NewSuccessor
<1>4. GaveUp => GaveUp'
  BY DEF GaveUp, NoGateway, NewSuccessor
<1> QED BY <1>1, <1>2, <1>3, <1>4 DEF InTurn

(* At most the successor of the gateway set up joins the jobs. *)
Joins ==
  \/ jobs' = jobs
  \/ jobs' = Append(jobs, Block)
  \/ setup # NoGateway /\ jobs' = Append(jobs, Start(setup + 1, FALSE))

LEMMA JobsAsked ==
  ASSUME Lines, Joins, NEW i \in 1..Len(jobs'), jobs'[i].op = "start"
  PROVE  \/ i \in 1..Len(jobs) /\ jobs'[i] = jobs[i]
         \/ i = Len(jobs') /\ setup # NoGateway /\ jobs'[i].n = setup + 1
<1>1. CASE jobs' = jobs
  BY <1>1
<1>2. CASE jobs' = Append(jobs, Block)
  <2>1. \/ i \in 1..Len(jobs) /\ jobs'[i] = jobs[i]
        \/ jobs'[i] = Block
    BY <1>2 DEF Lines
  <2> QED BY <2>1 DEF Block
<1>3. CASE setup # NoGateway /\ jobs' = Append(jobs, Start(setup + 1, FALSE))
  <2>1. \/ i \in 1..Len(jobs) /\ jobs'[i] = jobs[i]
        \/ i = Len(jobs') /\ jobs'[i] = Start(setup + 1, FALSE)
    <3>1. /\ Len(jobs') = Len(jobs) + 1 /\ Len(jobs) \in Nat
          /\ jobs'[Len(jobs) + 1] = Start(setup + 1, FALSE)
          /\ \A k \in 1..Len(jobs) : jobs'[k] = jobs[k]
      BY <1>3 DEF Lines, Start
    <3>2. i \in 1..Len(jobs) \/ i = Len(jobs) + 1
      BY <3>1
    <3> QED BY <3>1, <3>2
  <2> QED BY <1>3, <2>1 DEF Start
<1> QED BY <1>1, <1>2, <1>3 DEF Joins

LEMMA StaysInTurn ==
  ASSUME TypeInv, Lines, Lines', InTurn, InvalidSetUp, Joins, UNCHANGED <<posted, setup>>,
         worker'.job.op = "start" => worker'.job = worker.job
  PROVE  KeepsTurn
<1> DEFINE f == [p \in Nat |-> p]
<1>1. ASSUME NEW p \in Nat, NEW n \in 0..Gateways, Asked(p, n)'
      PROVE  Asked(f[p], n) \/ NewSuccessor(p, n)
  <2>1. CASE p \in 1..Len(posted') /\ AskedBy(posted'[p], n)
    BY <2>1 DEF Asked
  <2>2. CASE p = Len(posted') + 1 /\ worker'.job.op = "start" /\ worker'.job.n = n
    BY <2>2 DEF Asked
  <2>3. ASSUME NEW i \in 1..Len(jobs'), p = Len(posted') + 1 + i,
               jobs'[i].op = "start", jobs'[i].n = n
        PROVE  Asked(p, n) \/ NewSuccessor(p, n)
    BY <2>3, JobsAsked DEF Asked, NewSuccessor
  <2> QED BY <1>1, <2>1, <2>2, <2>3 DEF Asked, AskedBy
<1>2. f \in [Nat -> Nat] /\ \A p, q \in Nat : p <= q => f[p] <= f[q]
  OBVIOUS
<1> HIDE DEF f
<1>3. InTurn' /\ (GaveUp => GaveUp')
  BY <1>1, <1>2, TurnMoved
<1>4. InvalidSetUp'
  BY DEF InvalidSetUp, NoGateway
<1> QED BY <1>3, <1>4 DEF KeepsTurn

(* The head of the messages is handled. *)
LEMMA HandledAsked ==
  ASSUME Lines, Joins, NEW kind, Handle(kind), UNCHANGED worker,
         NEW p \in Nat, NEW n \in 0..Gateways, Asked(p, n)'
  PROVE  Asked(p + 1, n) \/ NewSuccessor(p, n)
<1>1. /\ Len(posted) \in Nat \ {0} /\ Len(posted') = Len(posted) - 1
      /\ \A i \in 1..Len(posted') : i + 1 \in 1..Len(posted) /\ posted'[i] = posted[i + 1]
  BY DEF Handle, Lines
<1>2. CASE p \in 1..Len(posted') /\ AskedBy(posted'[p], n)
  BY <1>1, <1>2 DEF Asked
<1>3. CASE p = Len(posted') + 1 /\ worker'.job.op = "start" /\ worker'.job.n = n
  BY <1>1, <1>3 DEF Asked
<1>4. ASSUME NEW i \in 1..Len(jobs'), p = Len(posted') + 1 + i,
             jobs'[i].op = "start", jobs'[i].n = n
      PROVE  Asked(p + 1, n) \/ NewSuccessor(p, n)
  <2>1. CASE i \in 1..Len(jobs) /\ jobs'[i] = jobs[i]
    <3>1. p + 1 = Len(posted) + 1 + i
      BY <1>1, <1>4
    <3> QED BY <1>4, <2>1, <3>1 DEF Asked
  <2>2. CASE i = Len(jobs') /\ setup # NoGateway /\ jobs'[i].n = setup + 1
    BY <1>4, <2>2 DEF NewSuccessor
  <2> QED BY <1>4, <2>1, <2>2, JobsAsked
<1> QED BY <1>2, <1>3, <1>4 DEF Asked, AskedBy

LEMMA HandledInLine ==
  ASSUME TypeInv, Lines, Lines', InTurn, InvalidSetUp, Joins, NEW kind, Handle(kind),
         UNCHANGED worker, kind = "setup" => setup' # NoGateway
  PROVE  InLine' /\ InvalidSetUp' /\ (UNCHANGED setup => KeepsTurn)
<1> DEFINE f == [p \in Nat |-> p + 1]
<1>1. \A p \in Nat : \A n \in 0..Gateways :
        Asked(p, n)' => Asked(f[p], n) \/ NewSuccessor(p, n)
  BY HandledAsked
<1>2. f \in [Nat -> Nat] /\ \A p, q \in Nat : p <= q => f[p] <= f[q]
  OBVIOUS
<1> HIDE DEF f
<1>3. InLine' /\ (UNCHANGED setup => InTurn' /\ (GaveUp => GaveUp'))
  BY <1>1, <1>2, LineMoved, TurnMoved
<1>4. /\ Len(posted) \in Nat \ {0} /\ Len(posted') = Len(posted) - 1
      /\ Head(posted) = posted[1] /\ posted[1].kind = kind
      /\ \A i \in 1..Len(posted') : i + 1 \in 1..Len(posted) /\ posted'[i] = posted[i + 1]
  BY DEF Handle, Lines
<1>5. ASSUME NEW i \in 1..Len(posted'), posted'[i] = Failed("ERROR_INVALID_PROFILE")
      PROVE  IF i = 1 THEN setup' # NoGateway ELSE posted'[i - 1].kind = "setup"
  <2>1. posted[i].kind = "setup"
    <3>1. i + 1 \in 1..Len(posted) /\ posted[i + 1] = Failed("ERROR_INVALID_PROFILE")
          /\ i + 1 # 1 /\ (i + 1) - 1 = i
      BY <1>4, <1>5
    <3> QED BY <3>1 DEF InvalidSetUp
  <2>2. CASE i = 1
    BY <1>4, <2>1, <2>2
  <2>3. CASE i # 1
    <3>1. i - 1 \in 1..Len(posted') /\ posted'[i - 1] = posted[i]
      BY <1>4, <2>3
    <3> QED BY <2>1, <2>3, <3>1
  <2> QED BY <2>2, <2>3
<1>6. InvalidSetUp'
  BY <1>5 DEF InvalidSetUp, NoGateway
<1> QED BY <1>3, <1>6 DEF KeepsTurn

(* The worker posts what its own job asks for. *)
PostsItsOwn(msgs) ==
  \A i \in 1..Len(msgs) :
    /\ \A n \in 0..Gateways :
         AskedBy(msgs[i], n) => i = 1 /\ worker.job.op = "start" /\ worker.job.n = n
    /\ msgs[i] = Failed("ERROR_INVALID_PROFILE") => i # 1 /\ msgs[i - 1].kind = "setup"

LEMMA PostedInTurn ==
  ASSUME TypeInv, Lines, Lines', InTurn, InvalidSetUp, NEW msgs \in Seq(Message), Post(msgs),
         PostsItsOwn(msgs), UNCHANGED <<jobs, setup>>,
         worker'.job.op = "start" => worker'.job = worker.job
  PROVE  KeepsTurn
<1> DEFINE L == Len(posted)
           k == Len(msgs)
           f == [p \in Nat |-> IF p <= L + 1 THEN p
                               ELSE IF p <= L + k + 1 THEN L + 1 ELSE p - k]
<1>1. /\ Len(posted') = L + k /\ L \in Nat /\ k \in Nat
      /\ \A i \in 1..L : posted'[i] = posted[i]
      /\ \A i \in 1..k : posted'[L + i] = msgs[i]
  BY DEF Post, Lines
<1>2. ASSUME NEW i \in 1..Len(posted')
      PROVE  i \in 1..L \/ \E j \in 1..k : i = L + j
  <2>1. CASE i > L
    <3>1. i - L \in 1..k /\ i = L + (i - L)
      BY <1>1, <2>1
    <3> QED BY <3>1
  <2> QED BY <1>1, <2>1
<1> HIDE DEF L, k
<1>3. f \in [Nat -> Nat] /\ \A p, q \in Nat : p <= q => f[p] <= f[q]
  BY <1>1
<1>4. ASSUME NEW p \in Nat, NEW n \in 0..Gateways, Asked(p, n)'
      PROVE  Asked(f[p], n)
  <2>1. ASSUME p \in 1..L, AskedBy(posted'[p], n) PROVE Asked(f[p], n)
    <3>1. f[p] = p /\ posted'[p] = posted[p]
      BY <1>1, <2>1
    <3> QED BY <2>1, <3>1 DEF Asked, L
  <2>2. ASSUME NEW j \in 1..k, p = L + j, AskedBy(posted'[p], n) PROVE Asked(f[p], n)
    <3>1. j = 1 /\ worker.job.op = "start" /\ worker.job.n = n
      BY <1>1, <2>2 DEF PostsItsOwn, k
    <3>2. f[p] = L + 1
      BY <1>1, <2>2, <3>1
    <3> QED BY <3>1, <3>2 DEF Asked, L
  <2>3. ASSUME p = L + k + 1, worker'.job.op = "start", worker'.job.n = n
        PROVE  Asked(f[p], n)
    <3>1. f[p] = L + 1
      BY <1>1, <2>3
    <3> QED BY <2>3, <3>1 DEF Asked, L
  <2>4. ASSUME NEW i \in 1..Len(jobs), p = L + k + 1 + i,
               jobs[i].op = "start", jobs[i].n = n
        PROVE  Asked(f[p], n)
    <3>1. Len(jobs) \in Nat
      BY DEF Lines
    <3>2. f[p] = L + 1 + i
      BY <1>1, <2>4, <3>1
    <3> QED BY <2>4, <3>2 DEF Asked, L
  <2>5. \/ p \in 1..Len(posted') /\ AskedBy(posted'[p], n)
        \/ p = L + k + 1 /\ worker'.job.op = "start" /\ worker'.job.n = n
        \/ \E i \in 1..Len(jobs) : p = L + k + 1 + i /\ jobs[i].op = "start" /\ jobs[i].n = n
    BY <1>1, <1>4 DEF Asked, AskedBy
  <2> QED BY <1>2, <2>1, <2>2, <2>3, <2>4, <2>5
<1> HIDE DEF f
<1>5. InTurn' /\ (GaveUp => GaveUp')
  BY <1>3, <1>4, TurnMoved
<1>6. ASSUME NEW i \in 1..Len(posted'), posted'[i] = Failed("ERROR_INVALID_PROFILE")
      PROVE  IF i = 1 THEN setup # NoGateway ELSE posted'[i - 1].kind = "setup"
  <2>1. CASE i \in 1..L
    <3>1. i # 1 => i - 1 \in 1..L
      BY <1>1, <2>1
    <3> QED BY <1>1, <1>6, <2>1, <3>1 DEF InvalidSetUp, L
  <2>2. ASSUME NEW j \in 1..k, i = L + j
        PROVE  i # 1 /\ posted'[i - 1].kind = "setup"
    <3>1. j # 1 /\ msgs[j - 1].kind = "setup"
      BY <1>1, <1>6, <2>2 DEF PostsItsOwn, k
    <3>2. j - 1 \in 1..k /\ i - 1 = L + (j - 1) /\ i # 1
      <4>1. j # 1 /\ j \in Nat /\ L \in Nat
        BY <1>1, <3>1
      <4> QED BY <1>1, <2>2, <4>1
    <3> QED BY <1>1, <3>1, <3>2
  <2> QED BY <1>2, <2>1, <2>2
<1>7. InvalidSetUp'
  BY <1>6 DEF InvalidSetUp, NoGateway
<1> QED BY <1>5, <1>7 DEF KeepsTurn

LEMMA TakenInTurn ==
  ASSUME TypeInv, Lines, Lines', InTurn, InvalidSetUp, TakeJob
  PROVE  KeepsTurn
<1> DEFINE L == Len(posted)
           f == [p \in Nat |-> IF p <= L THEN p ELSE p + 1]
<1>1. /\ jobs # <<>> /\ jobs' = Tail(jobs) /\ worker'.job = Head(jobs)
      /\ UNCHANGED <<posted, setup>>
  BY DEF TakeJob, observerVars
<1>2. /\ Len(jobs') = Len(jobs) - 1 /\ Len(jobs) \in Nat \ {0} /\ Head(jobs) = jobs[1]
      /\ \A i \in 1..Len(jobs') : i + 1 \in 1..Len(jobs) /\ jobs'[i] = jobs[i + 1]
      /\ L \in Nat
  BY <1>1 DEF Lines
<1> HIDE DEF L
<1>3. f \in [Nat -> Nat] /\ \A p, q \in Nat : p <= q => f[p] <= f[q]
  BY <1>2
<1>4. ASSUME NEW p \in Nat, NEW n \in 0..Gateways, Asked(p, n)'
      PROVE  Asked(f[p], n)
  <2>1. ASSUME p \in 1..L, AskedBy(posted[p], n) PROVE Asked(f[p], n)
    <3>1. f[p] = p
      BY <1>2, <2>1
    <3> QED BY <2>1, <3>1 DEF Asked, L
  <2>2. ASSUME p = L + 1, jobs[1].op = "start", jobs[1].n = n PROVE Asked(f[p], n)
    <3>1. f[p] = L + 1 + 1 /\ 1 \in 1..Len(jobs)
      BY <1>2, <2>2
    <3> QED BY <2>2, <3>1 DEF Asked, L
  <2>3. ASSUME NEW i \in 1..Len(jobs'), p = L + 1 + i, jobs'[i].op = "start", jobs'[i].n = n
        PROVE  Asked(f[p], n)
    <3>1. f[p] = L + 1 + (i + 1)
      BY <1>2, <2>3
    <3> QED BY <1>2, <2>3, <3>1 DEF Asked, L
  <2>4. \/ p \in 1..L /\ AskedBy(posted[p], n)
        \/ p = L + 1 /\ jobs[1].op = "start" /\ jobs[1].n = n
        \/ \E i \in 1..Len(jobs') : p = L + 1 + i /\ jobs'[i].op = "start" /\ jobs'[i].n = n
    BY <1>1, <1>2, <1>4 DEF Asked, AskedBy, L
  <2> QED BY <2>1, <2>2, <2>3, <2>4
<1> HIDE DEF f
<1>5. InTurn' /\ (GaveUp => GaveUp')
  BY <1>1, <1>3, <1>4, TurnMoved
<1>6. InvalidSetUp'
  BY <1>1 DEF InvalidSetUp, NoGateway
<1> QED BY <1>5, <1>6 DEF KeepsTurn

LEMMA RetryJoins ==
  ASSUME TypeInv, NotThere, NEW state, NEW lvl, Publish(state, lvl),
         state \notin {"CONNECTED", "STOPPING"}, lvl # "STOPPING"
  PROVE  Joins /\ (state # "CONNECTRETRY" => jobs' = jobs)
<1>1. observed # NoGateway /\ observed = setup => setup # NoGateway /\ setupN = setup
  BY DEF TypeInv, Numbered
<1> QED BY <1>1 DEF Publish, ObserverUpdate, NotThere, Joins

LEMMA ServiceJoins ==
  ASSUME TypeInv, CarriedFirst, Service, First'
  PROVE  Joins /\ UNCHANGED <<setup, worker, posted>> /\ (BlockQueued' => BlockQueued)
<1>1. NotThere
  BY DEF CarriedFirst, NothingStops
<1>2. ~ConfigFails /\ ~ManagementFails /\ ~Connects /\ ~Dies
  BY DEF CarriedFirst, ConfigFails, ManagementFails, Connects, Dies, NoLongerOn, First
<1>3. Joins /\ UNCHANGED setup /\ (BlockQueued' => BlockQueued)
  <2>1. CASE UNCHANGED <<jobs, level, observerVars>>
    BY <2>1, CarriedKept DEF Joins, observerVars
  <2>2. CASE Published
    <3>1. PICK state \in {"VPN_GENERATE_CONFIG", "EXITING", "NOPROCESS", "PAUSED",
                          "CONNECTRETRY", "RECONNECTING", "CONNECTING"},
               lvl \in Level \ {"BLOCKING", "STOPPING"} : Publish(state, lvl)
      BY <2>2 DEF Published
    <3> QED BY <1>1, <3>1, PublishCarried, RetryJoins
  <2> QED BY <1>2, <2>1, <2>2, ServicePublishes
<1>4. UNCHANGED <<worker, posted>>
  <2>1. ASSUME NEW state, NEW lvl, Hold(state, lvl) PROVE UNCHANGED <<worker, posted>>
    BY <2>1 DEF Hold
  <2>2. CASE FirstHold \/ Restarts
    BY <2>1, <2>2 DEF FirstHold, Restarts, ConnectRetry, Reconnects, Pause, Pauses
  <2>3. CASE PublishConfig \/ StartOpenVPN \/ Tries \/ OpenTun \/ StaleOpens \/ Exits
    BY <2>3 DEF PublishConfig, StartOpenVPN, ReplaceOld, Tries, OpenTun, StaleOpens, Exits, Ends
  <2> QED BY <1>2, <2>2, <2>3 DEF Service, StartThread
<1> QED BY <1>3, <1>4

(* Only giving up asks for the block. *)
LEMMA BlockJobKept ==
  ASSUME TypeInv, CarriedFirst, [Next]_vars, ~User, First'
  PROVE  BlockJob' => BlockJob \/ NoMoreGateways
<1>1. jobs \in Seq(Job)
  BY DEF TypeInv, TypeOK
<1>2. NoStopAtWork /\ NoStopPosted /\ NotThere
  BY DEF CarriedFirst, NothingStops
<1>3. ASSUME UNCHANGED worker, BlockQueued' => BlockQueued PROVE BlockJob' => BlockJob
  BY <1>3 DEF BlockJob
<1>4. CASE TakeJob
  <2>1. jobs # <<>> /\ jobs' = Tail(jobs) /\ worker'.job = Head(jobs)
    BY <1>4 DEF TakeJob
  <2> QED BY <1>1, <2>1, JobTaken DEF BlockJob
<1>5. CASE EarlyRoutes \/ Launch \/ StopBlocking \/ StartBlocking \/ PublishStopping \/ Disconnect
  <2>1. worker'.job = Block => worker.job = Block
    <3>1. PICK step : At(step)
      BY <1>5 DEF EarlyRoutes, Launch, StopBlocking, StartBlocking, PublishStopping, Disconnect
    <3>2. CASE worker' = Idle
      BY <3>2 DEF Idle, Stop, Block
    <3>3. CASE worker' = [worker EXCEPT !.steps = Tail(@)]
      <4>1. worker'.job = worker.job
        BY <3>3
      <4> QED BY <4>1
    <3> QED BY <3>1, <3>2, <3>3 DEF At
  <2>2. BlockQueued' => BlockQueued
    <3>1. ~PublishStopping
      BY <1>2, AtCarried DEF PublishStopping
    <3>2. CASE UNCHANGED jobs
      BY <3>2, CarriedKept
    <3>3. CASE Publish("NOPROCESS", "NOTCONNECTED")
      BY <1>2, <3>3, PublishCarried
    <3> QED BY <1>5, <3>1, <3>2, <3>3
            DEF EarlyRoutes, Launch, StopBlocking, StartBlocking, Disconnect
  <2> QED BY <2>1, <2>2 DEF BlockJob
<1>6. CASE InvalidProfile
  <2>1. Start(setupN + 1, FALSE) \in Job
    BY <1>6, NextTyped DEF InvalidProfile
  <2>2. Start(setupN + 1, FALSE) # Stop /\ Start(setupN + 1, FALSE) # Block
    BY DEF Start, Stop, Block
  <2> QED BY <1>1, <1>3, <1>6, <2>1, <2>2, JobAdded DEF InvalidProfile
<1>7. CASE OnStartBlocking
  BY <1>2, <1>3, <1>7, PublishCarried DEF OnStartBlocking
<1>8. CASE OnSetupObserverEvent \/ OnStartVPN \/ Establish \/ OnStopBlocking \/ OnRevoke \/ UNCHANGED vars
  BY <1>3, <1>8, CarriedKept DEF OnSetupObserverEvent, OnStartVPN, Establish, OnStopBlocking, OnRevoke, vars
<1>9. CASE Service
  BY <1>3, <1>9, ServiceJoins
<1>10. ~EndBlocking /\ ~OnServiceJson /\ ~InvalidCertificate
  BY <1>2 DEF EndBlocking, OnServiceJson, InvalidCertificate, NotThere, First
<1> QED BY <1>4, <1>5, <1>6, <1>7, <1>8, <1>9, <1>10 DEF Next, Worker, Main

LEMMA GivenUp ==
  ASSUME TypeInv, Lines, Lines', InTurn, InvalidSetUp, NoMoreGateways
  PROVE  /\ KeepsTurn /\ GaveUp'
         /\ setup' # setup => setup' = IF setup = NoGateway THEN 0 ELSE setup + 1
<1>1. /\ Handle("eipEvent") /\ Head(posted).error = "NO_MORE_GATEWAYS"
      /\ setup' = NoGateway /\ Joins /\ UNCHANGED worker
  BY DEF NoMoreGateways, FailedStart, FinishGatewaySetup, Joins
<1>2. Gateways \in Nat /\ Gateways \in 0..Gateways
  BY EipAssumption
<1>3. InLine' /\ InvalidSetUp'
  BY <1>1, HandledInLine
<1>4. Asked(1, Gateways)
  <2>1. /\ 1 \in 1..Len(posted) /\ posted[1] = Head(posted)
        /\ Head(posted) \in Message /\ Head(posted).kind = "eipEvent"
    BY <1>1 DEF Handle, Lines
  <2>2. posted[1] = Failed("NO_MORE_GATEWAYS")
    BY <1>1, <2>1 DEF Message, Failed
  <2> QED BY <2>1, <2>2 DEF Asked, AskedBy
<1>5. ASSUME setup # NoGateway PROVE setup + 1 = Gateways
  BY <1>2, <1>4, <1>5 DEF InTurn, SuccessorsAsked, NoGateway
<1>6. ASSUME NEW p \in Nat, NEW n \in 0..Gateways, Asked(p, n)'
      PROVE  n = Gateways
  <2>1. Asked(p + 1, n) \/ (setup # NoGateway /\ n = setup + 1)
    BY <1>1, <1>6, HandledAsked DEF NewSuccessor
  <2>2. CASE Asked(p + 1, n)
    <3>1. Gateways <= n
      BY <1>2, <1>4, <2>2 DEF InTurn, InLine
    <3> QED BY <1>2, <3>1
  <2> QED BY <1>5, <2>1, <2>2
<1>7. SuccessorsAsked' /\ SameAsked' /\ GaveUp'
  BY <1>1, <1>6 DEF SuccessorsAsked, SameAsked, GaveUp, NoGateway
<1> QED BY <1>1, <1>3, <1>5, <1>7 DEF InTurn, KeepsTurn, NoGateway

LEMMA TurnStep ==
  ASSUME TypeInv, TypeInv', CarriedFirst, NothingStops', InTurn, InvalidSetUp, First',
         [Next]_vars, ~User
  PROVE  /\ KeepsTurn
         /\ setup' # setup => setup' = IF setup = NoGateway THEN 0 ELSE setup + 1
<1>1. Lines /\ Lines'
  BY DEF TypeInv, TypeOK, Lines
<1>2. NoStopQueued /\ NoStopAtWork /\ NoStopPosted /\ NotThere /\ Paired
  BY DEF CarriedFirst, NothingStops
<1>3. ASSUME Joins, UNCHANGED <<posted, setup>>,
             worker'.job.op = "start" => worker'.job = worker.job
      PROVE  KeepsTurn /\ setup' = setup
  BY <1>1, <1>3, StaysInTurn
<1>4. CASE TakeJob
  BY <1>1, <1>4, TakenInTurn DEF TakeJob, observerVars
<1>5. CASE EarlyRoutes \/ StartBlocking
  <2>1. UNCHANGED <<jobs, setup>> /\ (worker'.job.op = "start" => worker'.job = worker.job)
    <3>1. UNCHANGED <<jobs, setup>>
      BY <1>5 DEF EarlyRoutes, StartBlocking, observerVars
    <3>2. CASE EarlyRoutes
      BY <1>2, <3>1, <3>2, AtCarried DEF EarlyRoutes
    <3>3. CASE StartBlocking
      <4>1. worker = Task(Block, <<"establish">>)
        BY <1>2, <3>3 DEF StartBlocking, At, NoStopAtWork, Task, WorkerIdle, Idle
      <4>2. worker' = Idle
        BY <3>3, <4>1 DEF StartBlocking, At, Task
      <4> QED BY <3>1, <4>2 DEF Idle, Stop
    <3> QED BY <1>5, <3>1, <3>2, <3>3
  <2>2. CASE UNCHANGED posted
    BY <1>3, <2>1, <2>2 DEF Joins
  <2>3. CASE Post(<<BlockIntent>>)
    <3>1. <<BlockIntent>> \in Seq(Message) /\ PostsItsOwn(<<BlockIntent>>)
      BY MessageTyped DEF PostsItsOwn, BlockIntent, AskedBy, Failed
    <3> QED BY <1>1, <2>1, <2>3, <3>1, PostedInTurn
  <2> QED BY <1>5, <2>2, <2>3 DEF EarlyRoutes, StartBlocking
<1>6. CASE Launch
  <2>1. UNCHANGED <<jobs, setup>>
    BY <1>6 DEF Launch, observerVars
  <2>2. worker.job.op = "start" /\ worker.job.n \in 0..Gateways /\ worker' = Idle
    <3>1. ASSUME NEW n \in 0..Gateways, NEW early \in BOOLEAN,
                 worker = Task(Start(n, early), <<"launch">>)
          PROVE  worker.job.op = "start" /\ worker.job.n \in 0..Gateways /\ worker' = Idle
      BY <1>6, <3>1 DEF Launch, At, Task, Start
    <3>2. \E n \in 0..Gateways, early \in BOOLEAN : worker = Task(Start(n, early), <<"launch">>)
      BY <1>2, <1>6 DEF Launch, At, NoStopAtWork, Task, WorkerIdle, Idle
    <3> QED BY <3>1, <3>2
  <2>3. worker'.job.op # "start"
    BY <2>2 DEF Idle, Stop
  <2> DEFINE N == worker.job.n
             first == [kind |-> "setup", n |-> N]
             second == [kind |-> "startVPN", n |-> N]
  <2>4. CASE Post(<<Failed("ERROR_INVALID_VPN_CERTIFICATE")>>)
    <3>1. /\ <<Failed("ERROR_INVALID_VPN_CERTIFICATE")>> \in Seq(Message)
          /\ PostsItsOwn(<<Failed("ERROR_INVALID_VPN_CERTIFICATE")>>)
      BY MessageTyped DEF PostsItsOwn, AskedBy, Failed
    <3> QED BY <1>1, <2>1, <2>3, <2>4, <3>1, PostedInTurn
  <2>5. CASE N \notin Gateway /\ Post(<<Failed("NO_MORE_GATEWAYS")>>)
    <3>1. N = Gateways
      BY <2>2, <2>5, EipAssumption DEF Gateway
    <3>2. /\ <<Failed("NO_MORE_GATEWAYS")>> \in Seq(Message)
          /\ PostsItsOwn(<<Failed("NO_MORE_GATEWAYS")>>)
      BY <2>2, <3>1, MessageTyped DEF PostsItsOwn, AskedBy, Failed
    <3> QED BY <1>1, <2>1, <2>3, <2>5, <3>2, PostedInTurn
  <2>6. ASSUME N \in Gateway, NEW next \in Message,
               next \in {second, Failed("ERROR_INVALID_PROFILE")}, Post(<<first, next>>)
        PROVE  KeepsTurn /\ setup' = setup
    <3>1. first \in Message /\ first.kind = "setup" /\ first.n = N
      BY <2>6, MessageTyped
    <3>2. next.kind # "setup" /\ next # Failed("NO_MORE_GATEWAYS")
      BY <2>6 DEF Failed
    <3>3. first # Failed("NO_MORE_GATEWAYS") /\ first # Failed("ERROR_INVALID_PROFILE")
      BY DEF Failed
    <3>4. Post(<<first, next>>)
      BY <2>6
    <3> HIDE DEF first
    <3>5. <<first, next>> \in Seq(Message)
      BY <2>6, <3>1
    <3>6. PostsItsOwn(<<first, next>>)
      <4>1. Len(<<first, next>>) = 2 /\ <<first, next>>[1] = first /\ <<first, next>>[2] = next
        OBVIOUS
      <4>2. \A i \in 1..2 : i = 1 \/ i = 2
        OBVIOUS
      <4>3. \A n : AskedBy(first, n) => worker.job.op = "start" /\ worker.job.n = n
        BY <2>2, <3>1, <3>3 DEF AskedBy
      <4>4. \A n : ~AskedBy(next, n)
        BY <3>2 DEF AskedBy
      <4> QED BY <3>1, <3>3, <4>1, <4>2, <4>3, <4>4 DEF PostsItsOwn
    <3> QED BY <1>1, <2>1, <2>3, <3>4, <3>5, <3>6, PostedInTurn
  <2>7. CASE N \in Broken /\ Post(<<first, Failed("ERROR_INVALID_PROFILE")>>)
    <3>1. N \in Gateway
      BY <2>7, EipAssumption DEF Gateway
    <3> QED BY <2>6, <2>7, <3>1, MessageTyped
  <2>8. CASE N \in Gateway /\ Post(<<first, second>>)
    BY <2>6, <2>8, MessageTyped
  <2> QED BY <1>6, <2>1, <2>4, <2>5, <2>7, <2>8 DEF Launch, LaunchActiveGateway
<1>7. CASE PublishStopping \/ StopBlocking
  BY <1>2, <1>7, AtCarried DEF PublishStopping, StopBlocking
<1>8. CASE Disconnect
  <2>1. worker'.job = Block /\ UNCHANGED posted
    BY <1>2, <1>8, AtCarried DEF Disconnect
  <2>2. jobs' = jobs /\ setup' = setup
    <3>1. CASE UNCHANGED <<jobs, level, observerVars>>
      BY <3>1 DEF observerVars
    <3>2. CASE Publish("NOPROCESS", "NOTCONNECTED")
      BY <1>2, <3>2, PublishCarried, RetryJoins
    <3> QED BY <1>8, <3>1, <3>2 DEF Disconnect
  <2> QED BY <1>3, <2>1, <2>2 DEF Joins, Block
<1>9. CASE OnSetupObserverEvent
  <2> DEFINE h == Head(posted).n
  <2>1. Handle("setup") /\ setup' = h /\ UNCHANGED <<jobs, worker>>
    BY <1>9 DEF OnSetupObserverEvent
  <2>2. Head(posted) \in Message /\ Head(posted).kind = "setup"
    BY <1>1, <1>2, <2>1, HandleCarried DEF Lines
  <2>3. h \in Gateway /\ h \in 0..Gateways /\ h # NoGateway /\ h \in Nat
    <3>1. h \in Gateway
      BY <2>2 DEF Message
    <3> QED BY <3>1, EipAssumption DEF Gateway, NoGateway
  <2>4. InLine' /\ InvalidSetUp'
    BY <1>1, <2>1, <2>3, HandledInLine DEF Joins
  <2>5. Asked(1, h)
    <3>1. 1 \in 1..Len(posted) /\ posted[1] = Head(posted)
      BY <1>1, <2>1 DEF Handle, Lines
    <3> QED BY <2>2, <3>1 DEF Asked, AskedBy
  <2>6. IF setup = NoGateway THEN h = 0 ELSE h \in {setup, setup + 1}
    BY <2>3, <2>5 DEF InTurn, SuccessorsAsked, NoGateway
  <2>7. ASSUME NEW p \in Nat, NEW n \in 0..Gateways, Asked(p, n)'
        PROVE  n \in {h, h + 1}
    <3>1. Asked(p + 1, n) \/ (setup # NoGateway /\ n = setup + 1)
      BY <1>1, <2>1, <2>7, HandledAsked DEF Joins, NewSuccessor
    <3>2. CASE Asked(p + 1, n)
      <4>1. h <= n
        BY <2>3, <2>5, <3>2 DEF InTurn, InLine
      <4>2. IF setup = NoGateway THEN n = h ELSE n \in {setup, setup + 1}
        BY <2>3, <2>5, <3>2 DEF InTurn, SameAsked, SuccessorsAsked
      <4>3. setup = NoGateway \/ setup \in Nat
        BY EipAssumption DEF TypeInv, TypeOK, Gateway
      <4> QED BY <2>3, <2>6, <4>1, <4>2, <4>3
    <3>3. CASE setup # NoGateway /\ n = setup + 1
      <4>1. setup \in Nat
        BY <3>3, EipAssumption DEF TypeInv, TypeOK, Gateway
      <4> QED BY <2>3, <2>6, <3>3, <4>1
    <3> QED BY <3>1, <3>2, <3>3
  <2>8. SuccessorsAsked' /\ SameAsked'
    BY <2>1, <2>3, <2>7 DEF SuccessorsAsked, SameAsked, NoGateway
  <2>9. ~GaveUp
    BY <2>3, <2>5 DEF GaveUp, NoGateway
  <2> QED BY <2>1, <2>4, <2>6, <2>8, <2>9 DEF InTurn, KeepsTurn
<1>10. CASE NoMoreGateways
  BY <1>1, <1>10, GivenUp
<1>11. CASE InvalidProfile
  <2>1. /\ Handle("eipEvent") /\ Head(posted).error = "ERROR_INVALID_PROFILE"
        /\ jobs' = Append(jobs, Start(setupN + 1, FALSE)) /\ UNCHANGED <<worker, setup>>
    BY <1>11 DEF InvalidProfile, FailedStart, observerVars
  <2>2. setup # NoGateway
    <3>1. /\ 1 \in 1..Len(posted) /\ posted[1] = Head(posted)
          /\ Head(posted) \in Message /\ Head(posted).kind = "eipEvent"
      BY <1>1, <2>1 DEF Handle, Lines
    <3>2. posted[1] = Failed("ERROR_INVALID_PROFILE")
      BY <2>1, <3>1 DEF Message, Failed
    <3> QED BY <3>1, <3>2 DEF InvalidSetUp
  <2>3. Joins
    BY <2>1, <2>2 DEF Joins, TypeInv, Numbered
  <2> QED BY <1>1, <2>1, <2>3, HandledInLine
<1>12. ~InvalidCertificate /\ ~OnServiceJson /\ ~EndBlocking
  BY <1>2 DEF InvalidCertificate, OnServiceJson, EndBlocking, First, NotThere
<1>13. CASE OnStartVPN
  BY <1>1, <1>13, HandledInLine DEF OnStartVPN, Joins
<1>14. CASE OnStartBlocking
  <2>1. /\ Handle("startBlocking") /\ UNCHANGED worker
        /\ Publish("ESTABLISHVOIDVPN", "BLOCKING")
    BY <1>14 DEF OnStartBlocking
  <2>2. Joins /\ setup' = setup
    BY <1>2, <2>1, PublishCarried, RetryJoins
  <2> QED BY <1>1, <2>1, <2>2, HandledInLine
<1>15. CASE OnStopBlocking
  BY <1>1, <1>2, <1>15, HandleCarried DEF OnStopBlocking, Lines
<1>16. CASE Establish \/ OnRevoke \/ UNCHANGED vars
  BY <1>3, <1>16 DEF Establish, OnRevoke, vars, observerVars, Joins
<1>17. CASE Service
  BY <1>3, <1>17, ServiceJoins
<1> QED BY <1>4, <1>5, <1>6, <1>7, <1>8, <1>9, <1>10, <1>11, <1>12, <1>13, <1>14, <1>15,
           <1>16, <1>17
        DEF Next, Worker, Main

(* The first start is alone in the line. *)
LEMMA FirstTurn ==
  ASSUME CarriedInv, commands = 0, [Next]_vars, First'
  PROVE  InTurn' /\ InvalidSetUp' /\ GivesUp' /\ setup' = setup
<1>1. /\ jobs = <<>> /\ worker = Idle /\ posted = <<>> /\ setup = NoGateway
      /\ wanted = "off"
  BY DEF CarriedInv, Untouched
<1>2. UserStart \/ UserStop \/ UNCHANGED vars
  BY UntouchedNext DEF CarriedInv
<1>3. UserStart
  BY <1>1, <1>2 DEF First, UserStop, Command, vars, userVars
<1>4. PICK early \in BOOLEAN : Command(Start(0, early), "on")
  BY <1>3 DEF UserStart
<1>5. /\ jobs' = <<Start(0, early)>> /\ worker' = Idle /\ posted' = <<>>
      /\ setup' = NoGateway
  BY <1>1, <1>4 DEF Command, observerVars
<1>6. ASSUME NEW p \in Nat, NEW n \in 0..Gateways, Asked(p, n)'
      PROVE  n = 0
  BY <1>5, <1>6 DEF Asked, Start, Idle, Stop
<1>7. InLine' /\ SuccessorsAsked' /\ SameAsked'
  BY <1>5, <1>6 DEF InLine, SuccessorsAsked, SameAsked
<1>8. InvalidSetUp'
  BY <1>5 DEF InvalidSetUp
<1>9. GivesUp'
  BY <1>5 DEF GivesUp, BlockJob, BlockQueued, Start, Idle, Stop, Block
<1> QED BY <1>1, <1>5, <1>7, <1>8, <1>9 DEF InTurn

LEMMA TurnNext ==
  ASSUME TypeInv, TypeInv', CarriedInv, CarriedInv', TurnInv, [Next]_vars, First'
  PROVE  /\ InTurn' /\ InvalidSetUp' /\ GivesUp'
         /\ setup' # setup => setup' = IF setup = NoGateway THEN 0 ELSE setup + 1
<1>1. CASE commands = 0
  BY <1>1, FirstTurn
<1>2. CASE commands # 0
  <2>1. CarriedFirst /\ ~User
    BY <1>2, FirstStep DEF TurnInv
  <2>2. InTurn /\ InvalidSetUp /\ GivesUp
    BY <2>1 DEF TurnInv, CarriedFirst
  <2>3. NothingStops'
    BY DEF CarriedInv
  <2>4. BlockJob' => BlockJob \/ NoMoreGateways
    BY <2>1, BlockJobKept
  <2>5. Lines /\ Lines'
    BY DEF TypeInv, TypeOK, Lines
  <2> QED BY <2>1, <2>2, <2>3, <2>4, <2>5, TurnStep, GivenUp DEF KeepsTurn, GivesUp
<1> QED BY <1>1, <1>2

FailoverInv == TypeInv /\ CarriedInv /\ TurnInv

LEMMA FailoverInvariant == Spec => []FailoverInv
<1>1. Init => FailoverInv
  BY TypeInit, CarriedInit DEF Init, FailoverInv, TurnInv, First
<1>2. FailoverInv /\ [Next]_vars => FailoverInv'
  BY TypeStep, CarriedStep, TurnNext DEF FailoverInv, TurnInv
<1> QED BY <1>1, <1>2, PTL DEF Spec

(* From the command to the first CONNECTED, for any number of gateways and *)
(* of broken profiles and however many retries overlap: the app is never   *)
(* idle with neither the traffic blocked nor a process that the observer   *)
(* listens for; but for a void VPN that was disturbed or whose place an    *)
(* unwatched tunnel took, and unless OpenVPN ended by itself or could not  *)
(* be started.                                                             *)
THEOREM EipFailoverCarried == Spec => []FailoverCarried
<1>1. FailoverInv => FailoverCarried
  <2> SUFFICES ASSUME FailoverInv, First, Quiet
               PROVE  \/ tun = "void" \/ Unwatched \/ disturbed
                      \/ /\ setup # NoGateway /\ observed = setup
                         /\ proc \in {"launched", "held", "managed", "tunnel"}
    BY DEF FailoverCarried, First
  <2>1. /\ ~BlockQueued /\ ~BlockPosted /\ ~StartQueued /\ ~StartPosted
        /\ main = "idle" /\ ~(starting > 0) /\ ~(replacing > 0) /\ worker.steps = <<>>
    BY DEF Quiet, BlockQueued, BlockPosted, StartQueued, StartPosted, WorkerIdle, FailoverInv,
           TypeInv, TypeOK
  <2>2. NoStopAtWork /\ Carried
    BY DEF FailoverInv, CarriedInv, NothingStops
  <2>3. worker = Idle
    BY <2>1, <2>2 DEF NoStopAtWork, Task
  <2>4. worker.job # Block /\ worker.job.op # "start"
    BY <2>3 DEF Idle, Stop, Block
  <2> QED BY <2>1, <2>2, <2>4 DEF Carried, BlocksNext, BlockJob, StartsNext, Watched
<1> QED BY <1>1, FailoverInvariant, PTL

(* For any number of gateways and of broken profiles and however the       *)
(* retries of the first VPN asked for overlap: a gateway is followed by    *)
(* the next one, and none is skipped or set up again before the last has   *)
(* failed (EipSetupObserver.java:218-329, EIP.java:318-341).               *)
THEOREM EipGatewaysInTurn == Spec => GatewaysInTurn
<1>1. FailoverInv /\ FailoverInv' /\ [Next]_vars =>
        [commands' = 1 /\ wanted' = "on" /\ setup' # setup =>
           setup' = IF setup = NoGateway THEN 0 ELSE setup + 1]_vars
  BY TurnNext DEF First, FailoverInv
<1> QED BY <1>1, FailoverInvariant, PTL DEF Spec, GatewaysInTurn
=============================================================================
