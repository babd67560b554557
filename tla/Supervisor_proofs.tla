--------------------------- MODULE Supervisor_proofs ---------------------------
(***************************************************************************)
(* Theorems about Supervisor, for every number of attempts, every set of   *)
(* limits and any number of signals.                                       *)
(***************************************************************************)
EXTENDS Supervisor, TLAPS

(* TypeOK in parts that each solver can do. *)
OptionsTyped == respawn \in BOOLEAN /\ readEof \in BOOLEAN /\ limit \in Limits
FlagsTyped ==
  /\ terminated \in BOOLEAN /\ receivedChld \in BOOLEAN
  /\ spawned \in BOOLEAN /\ spared \in BOOLEAN
PlacesTyped ==
  /\ pc \in Pc /\ client \in Client /\ pipe \in {"open", "eof", "closed"}
  /\ pending \subseteq Signo /\ missed \subseteq pending
CountsTyped ==
  /\ attempt \in 0..PerBurst /\ burst \in Nat /\ short \in Nat
  /\ sent \in 0..MaxSignals /\ stops \in 0..MaxStops

LEMMA TypeParts ==
  TypeOK <=> OptionsTyped /\ FlagsTyped /\ PlacesTyped /\ CountsTyped
BY DEF TypeOK, OptionsTyped, FlagsTyped, PlacesTyped, CountsTyped

(* Where run() is tells whether there is a client. *)
ClientAgrees ==
  client = "none" <=> pc \in {"pace", "fork", "nap", "napIntr", "toNap", "off"}

(* A daemon on its way to fork() does not know of a SIGTERM. *)
StopKnown == pc \in {"pace", "fork", "nap", "napIntr", "toNap"} => ~terminated

(* g.attempt is below a burst except in the delay after one, or for good.  *)
AttemptInBurst ==
  /\ pc \notin {"nap", "napIntr", "toNap", "off"} => attempt < PerBurst
  /\ pc \in {"nap", "napIntr", "toNap"} => attempt = PerBurst

(* The counters tell the number of short runs; the burst in whose delay    *)
(* the daemon is has been counted in g.burst already.                      *)
InThisBurst == IF attempt = PerBurst THEN 0 ELSE attempt
Counted ==
  limit > 0 => /\ short = burst * PerBurst + InThisBurst
               /\ burst <= limit
               /\ burst = limit => pc = "off" /\ attempt = PerBurst

Inv == TypeOK /\ ClientAgrees /\ StopKnown /\ AttemptInBurst /\ Counted

-----------------------------------------------------------------------------
LEMMA PerBurstPositive == PerBurst \in Nat \ {0}
BY SupervisorAssumption DEF PerBurst

LEMMA OneMore == \A m, n \in Nat : (m + 1) * n = m * n + n
OBVIOUS

LEMMA InvInit == Init => Inv
<1> SUFFICES ASSUME Init PROVE Inv  OBVIOUS
<1> USE PerBurstPositive, SupervisorAssumption
<1>1. TypeOK
  <2>1. OptionsTyped /\ FlagsTyped  BY DEF Init, OptionsTyped, FlagsTyped
  <2>2. PlacesTyped  BY DEF Init, PlacesTyped, Pc, Blocked, Ready, Client, Signo
  <2>3. CountsTyped  BY DEF Init, CountsTyped
  <2>4. QED  BY <2>1, <2>2, <2>3, TypeParts
<1>2. ClientAgrees /\ StopKnown /\ AttemptInBurst
  BY DEF Init, ClientAgrees, StopKnown, AttemptInBurst
<1>3. Counted
  <2>1. limit \in Nat /\ 0 * PerBurst = 0  BY DEF Init
  <2>2. QED  BY <2>1 DEF Init, Counted, InThisBurst
<1>4. QED  BY <1>1, <1>2, <1>3 DEF Inv

(* signal_handle_all() neither makes nor reaps a client, and leaves the    *)
(* counters alone or begins to count anew.                                 *)
LEMMA Handled ==
  ASSUME TypeOK, HandleAll
  PROVE  /\ pending' = {} /\ missed' = {}
         /\ terminated' \in BOOLEAN /\ receivedChld' \in BOOLEAN
         /\ client' \in Client /\ spared' \in BOOLEAN
         /\ client' = "none" <=> client = "none"
         /\ client' \in Alive <=> client \in Alive
         /\ client' = "exited" <=> client = "exited"
         /\ \/ UNCHANGED pacing
            \/ client # "none" /\ spawned' = FALSE /\ attempt' = 0 /\ burst' = 0 /\ short' = 0
BY DEF TypeOK, HandleAll, Killed, Client, Alive, pacing

LEMMA HandledTyped ==
  ASSUME TypeOK, HandleAll, UNCHANGED bounds
  PROVE  CountsTyped'
<1> USE PerBurstPositive
<1>1. PerBurst' = PerBurst  BY DEF PerBurst
<1>2. CountsTyped  BY TypeParts
<1>3. CASE UNCHANGED pacing  BY <1>1, <1>2, <1>3 DEF CountsTyped, pacing, bounds
<1>4. CASE attempt' = 0 /\ burst' = 0 /\ short' = 0
  BY <1>1, <1>2, <1>4 DEF CountsTyped, bounds
<1>5. QED  BY <1>3, <1>4, Handled

(* Handling signals while there is no client leaves the counters alone.    *)
LEMMA HandledInNap ==
  ASSUME TypeOK, HandleAll, client = "none"
  PROVE  UNCHANGED pacing /\ client' = "none"
BY Handled

(* With a client, the counters stay or begin anew. *)
LEMMA HandledCounts ==
  ASSUME Inv, HandleAll, client # "none", pc' \in {"decide", "toWait"}, UNCHANGED limit
  PROVE  AttemptInBurst' /\ Counted'
<1> USE PerBurstPositive
<1>1. pc \notin {"nap", "napIntr", "toNap", "off"} /\ attempt < PerBurst
  BY DEF Inv, ClientAgrees, AttemptInBurst
<1>2. PerBurst' = PerBurst  BY DEF PerBurst
<1>3. CASE UNCHANGED pacing
  <2>1. AttemptInBurst'
    BY <1>1, <1>2, <1>3 DEF AttemptInBurst, pacing
  <2>2. Counted'
    BY <1>1, <1>2, <1>3 DEF Inv, Counted, InThisBurst, pacing
  <2>3. QED  BY <2>1, <2>2
<1>4. CASE attempt' = 0 /\ burst' = 0 /\ short' = 0
  <2>1. limit \in Nat /\ 0 * PerBurst = 0
    BY SupervisorAssumption DEF Inv, TypeOK
  <2>2. AttemptInBurst'
    BY <1>2, <1>4 DEF AttemptInBurst
  <2>3. Counted'
    BY <1>2, <1>4, <2>1 DEF Counted, InThisBurst
  <2>4. QED  BY <2>2, <2>3
<1>5. QED  BY <1>3, <1>4, Handled DEF Inv

-----------------------------------------------------------------------------
LEMMA InvStep == Inv /\ [Next]_vars => Inv'
<1> SUFFICES ASSUME Inv, [Next]_vars PROVE Inv'
  OBVIOUS
<1> USE PerBurstPositive, SupervisorAssumption
<1> PerBurst' = PerBurst  BY DEF PerBurst
<1>t. TypeOK /\ OptionsTyped /\ FlagsTyped /\ PlacesTyped /\ CountsTyped
  BY TypeParts DEF Inv
<1>q. ASSUME OptionsTyped', FlagsTyped', PlacesTyped', CountsTyped' PROVE TypeOK'
  BY <1>q DEF TypeOK, OptionsTyped, FlagsTyped, PlacesTyped, CountsTyped
<1>1. CASE Pace
  <2> USE DEF Pace
  <2>a. /\ attempt \in Nat /\ attempt < PerBurst /\ burst \in Nat /\ short \in Nat
        /\ limit \in Nat /\ client = "none" /\ ~terminated
    BY <1>1, <1>t DEF Inv, ClientAgrees, StopKnown, AttemptInBurst, CountsTyped, OptionsTyped
  <2>b. UNCHANGED <<options, signals, terminated, client, spared, pipe, bounds>>
    BY <1>1
  <2>c. EndsBurst <=> attempt + 1 = PerBurst
    BY <2>a DEF EndsBurst, PerBurst
  <2>d. OptionsTyped'  BY <1>t, <2>b DEF OptionsTyped, options
  <2>1. CASE LongRun
    <3>1. pc' = "fork" /\ UNCHANGED pacing  BY <2>1 DEF LongRun
    <3>2. FlagsTyped'  BY <1>1, <1>t, <3>1 DEF FlagsTyped, pacing
    <3>3. PlacesTyped'
      BY <1>t, <2>b, <3>1 DEF PlacesTyped, signals, Pc, Ready
    <3>4. CountsTyped'  BY <1>t, <2>b, <3>1 DEF CountsTyped, pacing, bounds
    <3>5. ClientAgrees' /\ StopKnown' /\ AttemptInBurst'
      BY <2>a, <2>b, <3>1 DEF ClientAgrees, StopKnown, AttemptInBurst, pacing
    <3>6. Counted'
      BY <1>1, <2>b, <3>1 DEF Inv, Counted, InThisBurst, pacing, options
    <3>7. QED  BY <1>q, <2>d, <3>2, <3>3, <3>4, <3>5, <3>6 DEF Inv
  <2>2. CASE ShortRun
    <3>1. short' = short + 1 /\ attempt' = attempt + 1
      BY <2>2 DEF ShortRun
    <3>2. FlagsTyped'  BY <1>1, <1>t, <2>2 DEF FlagsTyped, ShortRun
    <3>3. PlacesTyped'
      BY <1>t, <2>b, <2>2 DEF PlacesTyped, signals, Pc, Ready, Blocked, Window, ShortRun
    <3>4. burst' \in Nat  BY <2>a, <2>2 DEF ShortRun
    <3>5. CountsTyped'  BY <1>t, <2>a, <2>b, <3>1, <3>4 DEF CountsTyped, bounds
    <3>6. CASE ~EndsBurst
      <4>1. pc' = "fork" /\ burst' = burst  BY <2>2, <3>6 DEF ShortRun
      <4>2. attempt' < PerBurst  BY <2>a, <2>c, <3>1, <3>6
      <4>3. ClientAgrees' /\ StopKnown' /\ AttemptInBurst'
        BY <2>a, <2>b, <4>1, <4>2 DEF ClientAgrees, StopKnown, AttemptInBurst
      <4>4. burst * PerBurst \in Nat  BY <2>a
      <4>5. Counted'
        BY <1>1, <2>a, <2>b, <3>1, <4>1, <4>2, <4>4 DEF Inv, Counted, InThisBurst, options
      <4>6. QED  BY <1>q, <2>d, <3>2, <3>3, <3>5, <4>3, <4>5 DEF Inv
    <3>7. CASE EndsBurst
      <4>1. attempt' = PerBurst  BY <2>c, <3>1, <3>7
      <4>2. pc' = IF GivesUp THEN "off" ELSE "nap"  BY <2>2, <3>7 DEF ShortRun
      <4>3. ClientAgrees' /\ StopKnown' /\ AttemptInBurst'
        BY <2>a, <2>b, <4>1, <4>2 DEF ClientAgrees, StopKnown, AttemptInBurst
      <4>4. Counted'
        <5> SUFFICES ASSUME limit > 0
                     PROVE  /\ short' = burst' * PerBurst + InThisBurst'
                            /\ burst' <= limit
                            /\ burst' = limit => pc' = "off" /\ attempt' = PerBurst
          BY <2>b DEF Counted, options
        <5>1. burst' = burst + 1  BY <2>2, <3>7 DEF ShortRun
        <5>2. short = burst * PerBurst + attempt /\ burst < limit
          BY <1>1, <2>a DEF Inv, Counted, InThisBurst
        <5>3. InThisBurst' = 0  BY <4>1 DEF InThisBurst
        <5>4. burst * PerBurst \in Nat  BY <2>a
        <5>5. burst' * PerBurst = burst * PerBurst + PerBurst
          BY <2>a, <5>1, OneMore
        <5>6. short' = burst' * PerBurst
          BY <2>a, <2>c, <3>1, <3>7, <5>2, <5>4, <5>5
        <5>7. burst' = limit => pc' = "off"
          BY <2>a, <4>2, <5>1 DEF GivesUp
        <5>8. burst' * PerBurst \in Nat  BY <5>4, <5>5
        <5>9. QED  BY <2>a, <4>1, <5>1, <5>2, <5>3, <5>6, <5>7, <5>8
      <4>5. QED  BY <1>q, <2>d, <3>2, <3>3, <3>5, <4>3, <4>4 DEF Inv
    <3>8. QED  BY <3>6, <3>7
  <2>3. QED  BY <1>1, <2>1, <2>2
<1>2. CASE NapOver
  <2>1. TypeOK'
    <3>1. OptionsTyped'  BY <1>2, <1>t DEF NapOver, OptionsTyped, options
    <3>2. FlagsTyped'  BY <1>2, <1>t DEF NapOver, FlagsTyped, flags, pacing
    <3>3. PlacesTyped'
      BY <1>2, <1>t DEF NapOver, PlacesTyped, signals, Pc, Ready, Blocked, Window, Client, Alive, Signo
    <3>4. CountsTyped'  BY <1>2, <1>t DEF NapOver, CountsTyped, pacing, bounds
    <3>5. QED  BY <1>q, <3>1, <3>2, <3>3, <3>4
  <2>2. ClientAgrees' /\ StopKnown' /\ AttemptInBurst'
    BY <1>2, <1>t DEF NapOver, Inv, ClientAgrees, StopKnown, AttemptInBurst, PlacesTyped, flags, pacing, Client, Alive, Blocked
  <2>3. Counted'
    <3>1. limit \in Nat /\ UNCHANGED <<limit, burst>> /\ attempt = PerBurst
          /\ attempt' = 0 /\ pc = "nap"
      BY <1>2, <1>t DEF NapOver, OptionsTyped, Inv, AttemptInBurst, options
    <3>2. limit > 0 => short' = short  BY <1>2, <3>1 DEF NapOver
    <3>3. QED  BY <1>2, <3>1, <3>2 DEF Inv, Counted, InThisBurst
  <2>4. QED  BY <2>1, <2>2, <2>3 DEF Inv
<1>3. CASE Fork
  <2>1. TypeOK'
    <3>1. OptionsTyped'  BY <1>3, <1>t DEF Fork, OptionsTyped, options
    <3>2. FlagsTyped'  BY <1>3, <1>t DEF Fork, FlagsTyped, flags, pacing
    <3>3. PlacesTyped'
      BY <1>3, <1>t DEF Fork, PlacesTyped, signals, Pc, Ready, Blocked, Window, Client, Alive, Signo
    <3>4. CountsTyped'  BY <1>3, <1>t DEF Fork, CountsTyped, pacing, bounds
    <3>5. QED  BY <1>q, <3>1, <3>2, <3>3, <3>4
  <2>2. ClientAgrees' /\ StopKnown' /\ AttemptInBurst'
    BY <1>3, <1>t DEF Fork, Inv, ClientAgrees, StopKnown, AttemptInBurst, PlacesTyped, flags, pacing, Client, Alive, Blocked
  <2>3. Counted'
    BY <1>3, <1>t DEF Fork, Inv, Counted, InThisBurst, pacing, options
  <2>4. QED  BY <2>1, <2>2, <2>3 DEF Inv
<1>4. CASE Decide
  <2>1. TypeOK'
    <3>1. OptionsTyped'  BY <1>4, <1>t DEF Decide, OptionsTyped, options, OutputIsFinal
    <3>2. FlagsTyped'  BY <1>4, <1>t DEF Decide, FlagsTyped, flags, pacing, OutputIsFinal
    <3>3. PlacesTyped'
      BY <1>4, <1>t DEF Decide, PlacesTyped, signals, Pc, Ready, Blocked, Window, Client, Alive, Signo, OutputIsFinal
    <3>4. CountsTyped'  BY <1>4, <1>t DEF Decide, CountsTyped, pacing, bounds, OutputIsFinal
    <3>5. QED  BY <1>q, <3>1, <3>2, <3>3, <3>4
  <2>2. ClientAgrees' /\ StopKnown' /\ AttemptInBurst'
    BY <1>4, <1>t DEF Decide, Inv, ClientAgrees, StopKnown, AttemptInBurst, PlacesTyped, flags, pacing, Client, Alive, Blocked, OutputIsFinal
  <2>3. Counted'
    BY <1>4, <1>t DEF Decide, Inv, Counted, InThisBurst, pacing, options, OutputIsFinal
  <2>4. QED  BY <2>1, <2>2, <2>3 DEF Inv
<1>5. CASE SelectEof
  <2>1. TypeOK'
    <3>1. OptionsTyped'  BY <1>5, <1>t DEF SelectEof, OptionsTyped, options
    <3>2. FlagsTyped'  BY <1>5, <1>t DEF SelectEof, FlagsTyped, flags, pacing
    <3>3. PlacesTyped'
      BY <1>5, <1>t DEF SelectEof, PlacesTyped, signals, Pc, Ready, Blocked, Window, Client, Alive, Signo
    <3>4. CountsTyped'  BY <1>5, <1>t DEF SelectEof, CountsTyped, pacing, bounds
    <3>5. QED  BY <1>q, <3>1, <3>2, <3>3, <3>4
  <2>2. ClientAgrees' /\ StopKnown' /\ AttemptInBurst'
    BY <1>5, <1>t DEF SelectEof, Inv, ClientAgrees, StopKnown, AttemptInBurst, PlacesTyped, flags, pacing, Client, Alive, Blocked
  <2>3. Counted'
    BY <1>5, <1>t DEF SelectEof, Inv, Counted, InThisBurst, pacing, options
  <2>4. QED  BY <2>1, <2>2, <2>3 DEF Inv
<1>6. CASE Reap
  <2>1. TypeOK'
    <3>1. OptionsTyped'  BY <1>6, <1>t DEF Reap, OptionsTyped, options
    <3>2. FlagsTyped'  BY <1>6, <1>t DEF Reap, FlagsTyped, flags, pacing
    <3>3. PlacesTyped'
      BY <1>6, <1>t DEF Reap, PlacesTyped, signals, Pc, Ready, Blocked, Window, Client, Alive, Signo
    <3>4. CountsTyped'  BY <1>6, <1>t DEF Reap, CountsTyped, pacing, bounds
    <3>5. QED  BY <1>q, <3>1, <3>2, <3>3, <3>4
  <2>2. ClientAgrees' /\ StopKnown' /\ AttemptInBurst'
    BY <1>6, <1>t DEF Reap, Inv, ClientAgrees, StopKnown, AttemptInBurst, PlacesTyped, flags, pacing, Client, Alive, Blocked
  <2>3. Counted'
    BY <1>6, <1>t DEF Reap, Inv, Counted, InThisBurst, pacing, options
  <2>4. QED  BY <2>1, <2>2, <2>3 DEF Inv
<1>7. CASE SelectOutput
  <2>1. TypeOK'
    <3>1. OptionsTyped'  BY <1>7, <1>t DEF SelectOutput, OptionsTyped, options
    <3>2. FlagsTyped'  BY <1>7, <1>t DEF SelectOutput, FlagsTyped, flags, pacing
    <3>3. PlacesTyped'
      BY <1>7, <1>t DEF SelectOutput, PlacesTyped, signals, Pc, Ready, Blocked, Window, Client, Alive, Signo
    <3>4. CountsTyped'  BY <1>7, <1>t DEF SelectOutput, CountsTyped, pacing, bounds
    <3>5. QED  BY <1>q, <3>1, <3>2, <3>3, <3>4
  <2>2. ClientAgrees' /\ StopKnown' /\ AttemptInBurst'
    BY <1>7, <1>t DEF SelectOutput, Inv, ClientAgrees, StopKnown, AttemptInBurst, PlacesTyped, flags, pacing, Client, Alive, Blocked
  <2>3. Counted'
    BY <1>7, <1>t DEF SelectOutput, Inv, Counted, InThisBurst, pacing, options
  <2>4. QED  BY <2>1, <2>2, <2>3 DEF Inv
<1>8. CASE ChildReady
  <2>1. TypeOK'
    <3>1. OptionsTyped'  BY <1>8, <1>t DEF ChildReady, OptionsTyped, options
    <3>2. FlagsTyped'  BY <1>8, <1>t DEF ChildReady, FlagsTyped, flags, pacing
    <3>3. PlacesTyped'
      BY <1>8, <1>t DEF ChildReady, PlacesTyped, signals, Pc, Ready, Blocked, Window, Client, Alive, Signo
    <3>4. CountsTyped'  BY <1>8, <1>t DEF ChildReady, CountsTyped, pacing, bounds
    <3>5. QED  BY <1>q, <3>1, <3>2, <3>3, <3>4
  <2>2. ClientAgrees' /\ StopKnown' /\ AttemptInBurst'
    BY <1>8, <1>t DEF ChildReady, Inv, ClientAgrees, StopKnown, AttemptInBurst, PlacesTyped, flags, pacing, Client, Alive, Blocked
  <2>3. Counted'
    BY <1>8, <1>t DEF ChildReady, Inv, Counted, InThisBurst, pacing, options
  <2>4. QED  BY <2>1, <2>2, <2>3 DEF Inv
<1>9. CASE OutputEnds
  <2>1. TypeOK'
    <3>1. OptionsTyped'  BY <1>9, <1>t DEF OutputEnds, OptionsTyped, options
    <3>2. FlagsTyped'  BY <1>9, <1>t DEF OutputEnds, FlagsTyped, flags, pacing
    <3>3. PlacesTyped'
      BY <1>9, <1>t DEF OutputEnds, PlacesTyped, signals, Pc, Ready, Blocked, Window, Client, Alive, Signo
    <3>4. CountsTyped'  BY <1>9, <1>t DEF OutputEnds, CountsTyped, pacing, bounds
    <3>5. QED  BY <1>q, <3>1, <3>2, <3>3, <3>4
  <2>2. ClientAgrees' /\ StopKnown' /\ AttemptInBurst'
    BY <1>9, <1>t DEF OutputEnds, Inv, ClientAgrees, StopKnown, AttemptInBurst, PlacesTyped, flags, pacing, Client, Alive, Blocked
  <2>3. Counted'
    BY <1>9, <1>t DEF OutputEnds, Inv, Counted, InThisBurst, pacing, options
  <2>4. QED  BY <2>1, <2>2, <2>3 DEF Inv
<1>10. CASE NapInterrupted
  <2> USE DEF NapInterrupted
  <2>1. HandleAll /\ UNCHANGED <<options, pipe, bounds>>  BY <1>10
  <2>2. TypeOK'
    <3>1. OptionsTyped'  BY <2>1, <1>t DEF OptionsTyped, options
    <3>2. FlagsTyped'  BY <2>1, <1>t, Handled DEF FlagsTyped, pacing
    <3>3. PlacesTyped'
      BY <1>10, <2>1, <1>t, Handled DEF PlacesTyped, Pc, Ready, Blocked, Window
    <3>4. CountsTyped'  BY <2>1, <1>t, HandledTyped DEF bounds
    <3>5. QED  BY <1>q, <3>1, <3>2, <3>3, <3>4
  <2>3. UNCHANGED pacing /\ client = "none" /\ client' = "none"
    BY <1>10, <2>1, HandledInNap DEF Inv, ClientAgrees
  <2>4. ClientAgrees' /\ StopKnown' /\ AttemptInBurst'
    BY <1>10, <2>3 DEF Inv, ClientAgrees, StopKnown, AttemptInBurst, pacing
  <2>5. Counted'
    BY <1>10, <2>1, <2>3 DEF Inv, Counted, InThisBurst, pacing, options
  <2>6. QED  BY <2>2, <2>4, <2>5 DEF Inv
<1>11. CASE Signals
  <2> USE DEF Signals
  <2>1. HandleAll /\ UNCHANGED <<options, pipe, bounds>>  BY <1>11
  <2>2. TypeOK'
    <3>1. OptionsTyped'  BY <2>1, <1>t DEF OptionsTyped, options
    <3>2. FlagsTyped'  BY <2>1, <1>t, Handled DEF FlagsTyped, pacing
    <3>3. PlacesTyped'
      BY <1>11, <2>1, <1>t, Handled DEF PlacesTyped, Pc, Ready, Blocked, Window
    <3>4. CountsTyped'  BY <2>1, <1>t, HandledTyped DEF bounds
    <3>5. QED  BY <1>q, <3>1, <3>2, <3>3, <3>4
  <2>3. client # "none" /\ client' # "none"
    BY <1>11, <2>1, Handled DEF Inv, ClientAgrees
  <2>4. ClientAgrees' /\ StopKnown'
    BY <1>11, <2>3 DEF ClientAgrees, StopKnown
  <2>5. AttemptInBurst' /\ Counted'
    BY <1>11, <2>1, <2>3, HandledCounts DEF options
  <2>6. QED  BY <2>2, <2>4, <2>5 DEF Inv
<1>12. CASE WaitInterrupted
  <2> USE DEF WaitInterrupted
  <2>1. HandleAll /\ UNCHANGED <<options, pipe, bounds>>  BY <1>12
  <2>2. TypeOK'
    <3>1. OptionsTyped'  BY <2>1, <1>t DEF OptionsTyped, options
    <3>2. FlagsTyped'  BY <2>1, <1>t, Handled DEF FlagsTyped, pacing
    <3>3. PlacesTyped'
      BY <1>12, <2>1, <1>t, Handled DEF PlacesTyped, Pc, Ready, Blocked, Window
    <3>4. CountsTyped'  BY <2>1, <1>t, HandledTyped DEF bounds
    <3>5. QED  BY <1>q, <3>1, <3>2, <3>3, <3>4
  <2>3. client # "none" /\ client' # "none"
    BY <1>12, <2>1, Handled DEF Inv, ClientAgrees
  <2>4. ClientAgrees' /\ StopKnown'
    BY <1>12, <2>3 DEF ClientAgrees, StopKnown
  <2>5. AttemptInBurst' /\ Counted'
    BY <1>12, <2>1, <2>3, HandledCounts DEF options
  <2>6. QED  BY <2>2, <2>4, <2>5 DEF Inv
<1>13. CASE Exits(Alive)
  <2>1. TypeOK'
    <3>1. OptionsTyped'  BY <1>13, <1>t DEF OptionsTyped, options, Exits, Caught, Interrupted
    <3>2. FlagsTyped'  BY <1>13, <1>t DEF FlagsTyped, flags, pacing, Exits, Caught, Interrupted
    <3>3. PlacesTyped'
      BY <1>13, <1>t DEF PlacesTyped, signals, Pc, Ready, Blocked, Window, Client, Alive, Signo, Exits, Caught, Interrupted
    <3>4. CountsTyped'  BY <1>13, <1>t DEF CountsTyped, pacing, bounds, Exits, Caught, Interrupted
    <3>5. QED  BY <1>q, <3>1, <3>2, <3>3, <3>4
  <2>2. ClientAgrees' /\ StopKnown' /\ AttemptInBurst'
    BY <1>13, <1>t DEF Inv, ClientAgrees, StopKnown, AttemptInBurst, PlacesTyped, flags, pacing, Client, Alive, Blocked, Exits, Caught, Interrupted
  <2>3. Counted'
    BY <1>13, <1>t DEF Inv, Counted, InThisBurst, pacing, options, Exits, Caught, Interrupted
  <2>4. QED  BY <2>1, <2>2, <2>3 DEF Inv
<1>14. CASE ClientStopped
  <2>1. TypeOK'
    <3>1. OptionsTyped'  BY <1>14, <1>t DEF ClientStopped, OptionsTyped, options, Caught, Interrupted
    <3>2. FlagsTyped'  BY <1>14, <1>t DEF ClientStopped, FlagsTyped, flags, pacing, Caught, Interrupted
    <3>3. PlacesTyped'
      BY <1>14, <1>t DEF ClientStopped, PlacesTyped, signals, Pc, Ready, Blocked, Window, Client, Alive, Signo, Caught, Interrupted
    <3>4. CountsTyped'  BY <1>14, <1>t DEF ClientStopped, CountsTyped, pacing, bounds, Caught, Interrupted
    <3>5. QED  BY <1>q, <3>1, <3>2, <3>3, <3>4
  <2>2. ClientAgrees' /\ StopKnown' /\ AttemptInBurst'
    BY <1>14, <1>t DEF ClientStopped, Inv, ClientAgrees, StopKnown, AttemptInBurst, PlacesTyped, flags, pacing, Client, Alive, Blocked, Caught, Interrupted
  <2>3. Counted'
    BY <1>14, <1>t DEF ClientStopped, Inv, Counted, InThisBurst, pacing, options, Caught, Interrupted
  <2>4. QED  BY <2>1, <2>2, <2>3 DEF Inv
<1>15. ASSUME NEW signo \in {"TERM", "USR1"}, Send(signo) PROVE Inv'
  <2>1. TypeOK'
    <3>1. OptionsTyped'  BY <1>15, <1>t DEF OptionsTyped, options, Send, Caught, Interrupted
    <3>2. FlagsTyped'  BY <1>15, <1>t DEF FlagsTyped, flags, pacing, Send, Caught, Interrupted
    <3>3. PlacesTyped'
      BY <1>15, <1>t DEF PlacesTyped, signals, Pc, Ready, Blocked, Window, Client, Alive, Signo, Send, Caught, Interrupted
    <3>4. CountsTyped'  BY <1>15, <1>t DEF CountsTyped, pacing, bounds, Send, Caught, Interrupted
    <3>5. QED  BY <1>q, <3>1, <3>2, <3>3, <3>4
  <2>2. ClientAgrees' /\ StopKnown' /\ AttemptInBurst'
    BY <1>15, <1>t DEF Inv, ClientAgrees, StopKnown, AttemptInBurst, PlacesTyped, flags, pacing, Client, Alive, Blocked, Send, Caught, Interrupted
  <2>3. Counted'
    BY <1>15, <1>t DEF Inv, Counted, InThisBurst, pacing, options, Send, Caught, Interrupted
  <2>4. QED  BY <2>1, <2>2, <2>3 DEF Inv
<1>16. CASE UNCHANGED vars
  <2>1. TypeOK'
    BY <1>16, <1>t DEF vars, TypeOK, options, signals, flags, pacing, bounds
  <2>2. QED
    BY <1>16, <2>1 DEF vars, Inv, ClientAgrees, StopKnown, AttemptInBurst, Counted,
       InThisBurst, options, flags, pacing
<1>17. CASE NapAgain
  <2>1. TypeOK'
    <3>1. OptionsTyped'  BY <1>17, <1>t DEF NapAgain, OptionsTyped, options
    <3>2. FlagsTyped'  BY <1>17, <1>t DEF NapAgain, FlagsTyped, flags, pacing
    <3>3. PlacesTyped'
      BY <1>17, <1>t DEF NapAgain, PlacesTyped, signals, Pc, Ready, Blocked, Window, Client, Alive, Signo
    <3>4. CountsTyped'  BY <1>17, <1>t DEF NapAgain, CountsTyped, pacing, bounds
    <3>5. QED  BY <1>q, <3>1, <3>2, <3>3, <3>4
  <2>2. ClientAgrees' /\ StopKnown' /\ AttemptInBurst'
    BY <1>17, <1>t DEF NapAgain, Inv, ClientAgrees, StopKnown, AttemptInBurst, PlacesTyped, flags, pacing, Client, Alive, Blocked
  <2>3. Counted'
    BY <1>17, <1>t DEF NapAgain, Inv, Counted, InThisBurst, pacing, options
  <2>4. QED  BY <2>1, <2>2, <2>3 DEF Inv
<1>18. CASE WaitAgain
  <2>1. TypeOK'
    <3>1. OptionsTyped'  BY <1>18, <1>t DEF WaitAgain, OptionsTyped, options
    <3>2. FlagsTyped'  BY <1>18, <1>t DEF WaitAgain, FlagsTyped, flags, pacing
    <3>3. PlacesTyped'
      BY <1>18, <1>t DEF WaitAgain, PlacesTyped, signals, Pc, Ready, Blocked, Window, Client, Alive, Signo
    <3>4. CountsTyped'  BY <1>18, <1>t DEF WaitAgain, CountsTyped, pacing, bounds
    <3>5. QED  BY <1>q, <3>1, <3>2, <3>3, <3>4
  <2>2. ClientAgrees' /\ StopKnown' /\ AttemptInBurst'
    BY <1>18, <1>t DEF WaitAgain, Inv, ClientAgrees, StopKnown, AttemptInBurst, PlacesTyped, flags, pacing, Client, Alive, Blocked
  <2>3. Counted'
    BY <1>18, <1>t DEF WaitAgain, Inv, Counted, InThisBurst, pacing, options
  <2>4. QED  BY <2>1, <2>2, <2>3 DEF Inv
<1>19. QED
  BY <1>1, <1>2, <1>3, <1>4, <1>5, <1>6, <1>7, <1>8, <1>9, <1>10, <1>11, <1>12, <1>13, <1>14, <1>15, <1>16, <1>17, <1>18 DEF Next, Daemon, Environment, Ended

-----------------------------------------------------------------------------
(* The state of the daemon has the type stated, and g.attempt never passes *)
(* the length of a burst (spawn_child).                                    *)
THEOREM SupervisorTypeOK == Spec => []TypeOK
<1>1. Inv => TypeOK  BY DEF Inv
<1>2. QED  BY <1>1, InvInit, InvStep, PTL DEF Spec

LEMMA Fewer ==
  ASSUME NEW m \in Nat, NEW n \in Nat, NEW k \in Nat, m < n
  PROVE  m * k + k <= n * k
<1>1. PICK d \in Nat : n = m + 1 + d
  <2>1. n - m - 1 \in Nat /\ n = m + 1 + (n - m - 1)  OBVIOUS
  <2>2. QED  BY <2>1
<1>2. n * k = m * k + k + d * k  BY <1>1
<1>3. d * k \in Nat /\ m * k \in Nat  BY <1>1
<1>4. QED  BY <1>2, <1>3

(* The daemon gives up after exactly limit full bursts of short runs and   *)
(* not before, for every number of attempts and every limit, however       *)
(* restarts, long runs and signals are interleaved (spawn_child, usr1).    *)
THEOREM SupervisorGivesUpOnlyThen == Spec => []GivesUpOnlyThen
<1>1. Inv => GivesUpOnlyThen
  <2> SUFFICES ASSUME Inv, limit > 0
               PROVE  /\ short <= limit * PerBurst
                      /\ (burst = limit <=> short = limit * PerBurst)
                      /\ (burst = limit => pc = "off")
    BY DEF GivesUpOnlyThen
  <2>1. limit \in Nat /\ burst \in Nat /\ attempt \in 0..PerBurst /\ PerBurst \in Nat \ {0}
    BY PerBurstPositive, SupervisorAssumption DEF Inv, TypeOK
  <2>2. /\ short = burst * PerBurst + InThisBurst /\ burst <= limit
        /\ burst = limit => pc = "off" /\ attempt = PerBurst
    BY DEF Inv, Counted
  <2>3. burst * PerBurst \in Nat /\ limit * PerBurst \in Nat  BY <2>1
  <2>4. CASE burst = limit
    BY <2>1, <2>2, <2>3, <2>4 DEF InThisBurst
  <2>5. CASE burst < limit
    <3>1. burst * PerBurst + PerBurst <= limit * PerBurst
      BY <2>1, <2>5, Fewer
    <3>2. InThisBurst \in 0..(PerBurst - 1)  BY <2>1 DEF InThisBurst
    <3>3. QED  BY <2>1, <2>2, <2>3, <2>5, <3>1, <3>2
  <2>6. QED  BY <2>1, <2>2, <2>4, <2>5
<1>2. QED  BY <1>1, InvInit, InvStep, PTL DEF Spec

-----------------------------------------------------------------------------
LEMMA LifeStep == Inv /\ [Next]_vars => [Life!Next]_(Life!vars)
<1> SUFFICES ASSUME Inv, [Next]_vars PROVE Life!Next \/ UNCHANGED Life!vars
  OBVIOUS
<1> USE DEF Life!vars
<1>t. TypeOK /\ client \in Client /\ ("exited" \notin Alive) /\ ("none" \notin Alive)
  BY DEF Inv, TypeOK, Alive
<1>1. CASE Pace
  <2>1. UNCHANGED <<client, terminated>> /\ client = "none" /\ pc = "pace"
    BY <1>1 DEF Pace, Inv, ClientAgrees
  <2>2. CASE pc' = "off"  BY <2>1, <2>2, <1>t DEF Life!Next, Life!End
  <2>3. CASE pc' # "off"  BY <2>1, <2>3
  <2>4. QED  BY <2>2, <2>3
<1>2. CASE NapOver  BY <1>2 DEF NapOver, flags
<1>3. CASE NapInterrupted
  <2>1. client = "none" /\ client' = "none" /\ ~terminated /\ pc = "napIntr"
    BY <1>3, HandledInNap, <1>t DEF NapInterrupted, Inv, ClientAgrees, StopKnown
  <2>2. CASE terminated'
    <3>1. terminated' = TRUE /\ pc' = "off"
      BY <1>3, <2>2, <1>t, Handled DEF NapInterrupted
    <3>2. QED  BY <2>1, <3>1, <1>t DEF Life!Next, Life!LearnAndEnd
  <2>3. CASE ~terminated'
    <3>1. terminated' = terminated /\ pc' # "off"
      BY <1>3, <2>1, <2>3, <1>t, Handled DEF NapInterrupted, TypeOK
    <3>2. QED  BY <2>1, <3>1
  <2>4. QED  BY <2>2, <2>3
<1>4. CASE Fork
  <2>1. client = "none" /\ ~terminated /\ pc = "fork" /\ UNCHANGED terminated
    BY <1>4 DEF Fork, Inv, ClientAgrees, StopKnown, flags
  <2>2. CASE client' = "forked" /\ pc' = "signals"
    BY <2>1, <2>2, <1>t DEF Life!Next, Life!Start, Alive
  <2>3. CASE client' = client /\ pc' = "off"
    BY <2>1, <2>3, <1>t DEF Life!Next, Life!End
  <2>4. QED  BY <1>4, <2>2, <2>3 DEF Fork
<1>5. CASE Signals \/ WaitInterrupted
  <2>1. HandleAll /\ pc # "off" /\ pc' # "off"
    BY <1>5 DEF Signals, WaitInterrupted
  <2>2. (client' \in Alive <=> client \in Alive) /\ (client' = "exited" <=> client = "exited")
    BY <2>1, <1>t, Handled
  <2>3. terminated' = terminated \/ terminated' = TRUE
    <3>1. terminated' \in BOOLEAN /\ terminated \in BOOLEAN
      BY <2>1, <1>t, Handled DEF TypeOK
    <3>2. terminated => terminated'  BY <2>1 DEF HandleAll
    <3>3. QED  BY <3>1, <3>2
  <2>4. CASE terminated' = terminated  BY <2>1, <2>2, <2>4
  <2>5. CASE terminated' = TRUE  BY <2>1, <2>2, <2>5 DEF Life!Next, Life!Learn
  <2>6. QED  BY <2>3, <2>4, <2>5
<1>6. CASE Decide \/ SelectEof \/ SelectOutput \/ NapAgain \/ WaitAgain
  BY <1>6 DEF Decide, SelectEof, SelectOutput, NapAgain, WaitAgain, flags
<1>7. CASE ChildReady \/ OutputEnds
  BY <1>7 DEF ChildReady, OutputEnds, flags, Alive
<1>8. CASE Exits(Alive)
  <2>1. client \in Alive /\ client' = "exited" /\ UNCHANGED terminated /\ pc # "off" /\ pc' # "off"
    BY <1>8 DEF Exits, Caught, Interrupted, flags
  <2>2. QED  BY <2>1, <1>t DEF Life!Next, Life!Die
<1>9. CASE ClientStopped
  BY <1>9 DEF ClientStopped, Caught, Interrupted, flags
<1>10. ASSUME NEW signo \in {"TERM", "USR1"}, Send(signo)
       PROVE  Life!Next \/ UNCHANGED Life!vars
  BY <1>10 DEF Send, Caught, Interrupted, flags
<1>11. CASE Reap
  <2>1. client = "exited" /\ client' = "none" /\ pc = "wait" /\ UNCHANGED terminated
    BY <1>11 DEF Reap, flags
  <2>2. CASE pc' = "off"  BY <2>1, <2>2, <1>t DEF Life!Next, Life!ReapAndEnd
  <2>3. CASE pc' # "off"  BY <2>1, <2>3, <1>t DEF Life!Next, Life!Reap
  <2>4. QED  BY <2>2, <2>3
<1>12. CASE UNCHANGED vars  BY <1>12 DEF vars, flags
<1>13. QED
  BY <1>1, <1>2, <1>3, <1>4, <1>5, <1>6, <1>7, <1>8, <1>9, <1>10, <1>11, <1>12
  DEF Next, Daemon, Environment, Ended

(* daemon(1) keeps the promises of DaemonLife, for every value of the      *)
(* constants: one client at a time, reaped before the next, none started   *)
(* once SIGTERM is known, none left behind by a daemon that ends           *)
(* (examine_child, spawn_child).                                           *)
THEOREM SupervisorImplements == Spec => Implements
<1>1. Init => Life!Init
  BY DEF Init, Life!Init, Alive
<1>2. QED  BY <1>1, InvInit, InvStep, LifeStep, PTL DEF Spec, Implements, Life!Spec

-----------------------------------------------------------------------------
(* What StuckOnlySo rests on, at every place of run(): a signal that waits *)
(* at a blocking call, or in the window before it, was missed; a stop      *)
(* reached the client, or came before its exec; the death of the client is *)
(* known or counted.                                                       *)
SignalsMissed ==
  /\ pc \in {"decide", "select", "toWait"} => pending = missed
  /\ pc = "wait" => pending = missed \/ client = "exited"
StopReached == terminated /\ client \in {"forked", "running"} => spared
DeathCounted == client = "exited" => receivedChld \/ "CHLD" \in pending
Reading == pc = "select" => pipe # "closed" /\ (readEof \/ ~receivedChld)

Waking == SignalsMissed /\ StopReached /\ DeathCounted /\ Reading

(* signal_handle_all() passes the stop on and notes the death. *)
LEMMA HandledWaking ==
  ASSUME TypeOK, Waking, HandleAll
  PROVE  StopReached' /\ DeathCounted'
<1>1. StopReached'
  <2>1. CASE client # "none" /\ {"USR1", "TERM"} \cap pending # {}
    <3>1. client' = Killed(client) /\ (client = "forked" => spared')
      BY <2>1 DEF HandleAll
    <3>2. CASE client = "running"  BY <3>1, <3>2 DEF Killed, StopReached
    <3>3. CASE client = "forked"  BY <3>1, <3>3 DEF Killed, StopReached
    <3>4. CASE client \in {"dying", "exited"}  BY <3>1, <3>4 DEF Killed, StopReached
    <3>5. QED  BY <2>1, <3>2, <3>3, <3>4 DEF TypeOK, Client
  <2>2. CASE client # "none" /\ {"USR1", "TERM"} \cap pending = {}
    <3>1. "TERM" \notin pending  BY <2>2
    <3>2. client' = client /\ spared' = (spared \/ FALSE) /\ terminated' = (terminated \/ FALSE)
      BY <2>2, <3>1 DEF HandleAll
    <3>3. QED  BY <3>2 DEF StopReached, Waking
  <2>3. CASE client = "none"  BY <2>3, Handled DEF StopReached
  <2>4. QED  BY <2>1, <2>2, <2>3
<1>2. DeathCounted'
  <2>1. receivedChld' = (receivedChld \/ "CHLD" \in pending)  BY DEF HandleAll
  <2>2. QED  BY <2>1, Handled DEF DeathCounted, Waking
<1>3. QED  BY <1>1, <1>2

(* A signal is missed in a window, or it makes the daemon go on.           *)
LEMMA CaughtMissed ==
  ASSUME SignalsMissed, NEW signo, NEW zombie, Caught(signo, zombie),
         zombie => client' = "exited", client = "exited" => client' = "exited"
  PROVE  SignalsMissed' /\ pc' # "select"
<1>1. CASE pc \in Window
  <2>1. pc' = pc /\ pending' = pending \cup {signo} /\ missed' = missed \cup {signo}
    BY <1>1 DEF Caught, Interrupted, Window
  <2>2. QED  BY <1>1, <2>1 DEF SignalsMissed, Window
<1>2. CASE pc = "wait"
  BY <1>2 DEF Caught, Interrupted, SignalsMissed, Window
<1>3. CASE pc \notin Window \cup {"wait"}
  <2>1. pc' \in {"signals", "napIntr"} \/ (pc' = pc /\ pc # "select")
    BY <1>3 DEF Caught, Interrupted
  <2>2. QED  BY <1>3, <2>1 DEF SignalsMissed, Window
<1>4. QED  BY <1>1, <1>2, <1>3

LEMMA WakingInit == Init => Waking
BY DEF Init, Waking, SignalsMissed, StopReached, DeathCounted, Reading

LEMMA WakingStep == Inv /\ Waking /\ [Next]_vars => Waking'
<1> SUFFICES ASSUME Inv, Waking, [Next]_vars PROVE Waking'
  OBVIOUS
<1> USE DEF Waking
<1>t. TypeOK  BY DEF Inv
<1>1. CASE Pace
  <2>1. client = "none" /\ client' = "none" /\ pc' \in {"fork", "off", "nap"}
    BY <1>1 DEF Pace, LongRun, ShortRun, Inv, ClientAgrees
  <2>2. QED  BY <2>1 DEF SignalsMissed, StopReached, DeathCounted, Reading
<1>2. CASE NapOver \/ NapAgain
  <2>1. pc' \in {"fork", "nap"} /\ UNCHANGED <<client, spared, pipe, flags, signals>>
    BY <1>2 DEF NapOver, NapAgain
  <2>2. QED  BY <2>1 DEF SignalsMissed, StopReached, DeathCounted, Reading, flags, signals
<1>3. CASE NapInterrupted
  <2>1. pc' \in {"off", "toNap"} /\ HandleAll  BY <1>3 DEF NapInterrupted
  <2>2. QED  BY <2>1, <1>t, HandledWaking DEF SignalsMissed, Reading
<1>4. CASE Fork
  <2>1. pc' \in {"signals", "off"} /\ ~terminated' /\ UNCHANGED <<terminated, receivedChld, pending>>
    BY <1>4 DEF Fork, Inv, StopKnown, flags, signals
  <2>2. client' = "forked" \/ client' = client  BY <1>4 DEF Fork
  <2>3. QED  BY <2>1, <2>2 DEF SignalsMissed, StopReached, DeathCounted, Reading
<1>5. CASE Signals
  <2>1. pc' = "decide" /\ HandleAll  BY <1>5 DEF Signals
  <2>2. pending' = missed'  BY <2>1 DEF HandleAll
  <2>3. QED  BY <2>1, <2>2, <1>t, HandledWaking DEF SignalsMissed, Reading
<1>6. CASE Decide
  <2>1. UNCHANGED <<client, spared, readEof>> /\ UNCHANGED flags /\ UNCHANGED signals
    BY <1>6 DEF Decide, options
  <2>2. pending = missed  BY <1>6 DEF Decide, SignalsMissed
  <2>3. pc' = "wait" \/ (pc' = "select" /\ ~OutputIsFinal /\ pipe' = pipe)
    BY <1>6 DEF Decide
  <2>4. QED
    BY <2>1, <2>2, <2>3
    DEF SignalsMissed, StopReached, DeathCounted, Reading, OutputIsFinal, flags, signals
<1>7. CASE SelectEof \/ SelectOutput
  <2>1. pc' = "signals" /\ UNCHANGED <<client, spared>> /\ UNCHANGED flags /\ UNCHANGED signals
    BY <1>7 DEF SelectEof, SelectOutput
  <2>2. QED  BY <2>1 DEF SignalsMissed, StopReached, DeathCounted, Reading, flags, signals
<1>8. CASE Reap
  <2>1. client' = "none" /\ pc' \in {"pace", "off"}  BY <1>8 DEF Reap
  <2>2. QED  BY <2>1 DEF SignalsMissed, StopReached, DeathCounted, Reading
<1>9. CASE WaitInterrupted
  <2>1. pc' = "toWait" /\ HandleAll  BY <1>9 DEF WaitInterrupted
  <2>2. pending' = missed'  BY <2>1 DEF HandleAll
  <2>3. QED  BY <2>1, <2>2, <1>t, HandledWaking DEF SignalsMissed, Reading
<1>10. CASE WaitAgain
  <2>1. pc = "toWait" /\ pc' = "wait" /\ UNCHANGED <<client, spared>> /\ UNCHANGED flags /\ UNCHANGED signals
    BY <1>10 DEF WaitAgain
  <2>2. QED  BY <2>1 DEF SignalsMissed, StopReached, DeathCounted, Reading, flags, signals
<1>11. CASE ChildReady
  <2>1. /\ client = "forked" /\ client' = "running"
        /\ UNCHANGED <<pc, spared, pipe, readEof>> /\ UNCHANGED flags /\ UNCHANGED signals
    BY <1>11 DEF ChildReady, options
  <2>2. QED  BY <2>1 DEF SignalsMissed, StopReached, DeathCounted, Reading, flags, signals
<1>12. CASE Exits(Alive)
  <2>1. client' = "exited" /\ Caught("CHLD", TRUE) /\ UNCHANGED flags
    BY <1>12 DEF Exits
  <2>2. "CHLD" \in pending'  BY <2>1 DEF Caught
  <2>3. SignalsMissed' /\ pc' # "select"  BY <2>1, CaughtMissed
  <2>4. QED  BY <2>1, <2>2, <2>3 DEF StopReached, DeathCounted, Reading
<1>13. CASE OutputEnds
  <2>1. /\ pipe' = "eof" /\ UNCHANGED <<pc, client, spared, readEof>>
        /\ UNCHANGED flags /\ UNCHANGED signals
    BY <1>13 DEF OutputEnds, options
  <2>2. QED  BY <2>1 DEF SignalsMissed, StopReached, DeathCounted, Reading, flags, signals
<1>14. CASE ClientStopped
  <2>1. /\ Caught("CHLD", FALSE) /\ UNCHANGED <<client, spared>> /\ UNCHANGED flags
    BY <1>14 DEF ClientStopped
  <2>2. pending \subseteq pending'  BY <2>1 DEF Caught
  <2>3. SignalsMissed' /\ pc' # "select"  BY <2>1, CaughtMissed
  <2>4. QED  BY <2>1, <2>2, <2>3 DEF StopReached, DeathCounted, Reading, flags
<1>15. ASSUME NEW signo \in {"TERM", "USR1"}, Send(signo) PROVE Waking'
  <2>1. Caught(signo, client = "exited") /\ UNCHANGED <<client, spared>> /\ UNCHANGED flags
    BY <1>15 DEF Send
  <2>2. pending \subseteq pending'  BY <2>1 DEF Caught
  <2>3. SignalsMissed' /\ pc' # "select"  BY <2>1, CaughtMissed
  <2>4. QED  BY <2>1, <2>2, <2>3 DEF StopReached, DeathCounted, Reading, flags
<1>16. CASE UNCHANGED vars
  BY <1>16 DEF vars, flags, signals, options, SignalsMissed, StopReached, DeathCounted, Reading
<1>17. QED
  BY <1>1, <1>2, <1>3, <1>4, <1>5, <1>6, <1>7, <1>8, <1>9, <1>10, <1>11, <1>12, <1>13, <1>14,
     <1>15, <1>16
  DEF Next, Daemon, Environment, Ended

(* The daemon is never stuck with a stop or a dead client to see to, but   *)
(* in the four ways its code admits: the safety behind StopWorks and       *)
(* ZombieReaped, for any number of signals, stops and short runs (run,     *)
(* examine_child, prepare_child).                                          *)
THEOREM SupervisorStuckOnlySo == Spec => []StuckOnlySo
<1>1. Inv /\ Waking => StuckOnlySo
  <2> SUFFICES ASSUME Inv, Waking, pc \in {"select", "wait"},
                      terminated \/ "TERM" \in pending \/ client = "exited"
               PROVE  Wakes \/ Deaf \/ Unkilled \/ OutputHeld \/ MissedChld
    BY DEF StuckOnlySo
  <2>1. client \in Alive \cup {"exited"} /\ pipe \in {"open", "eof", "closed"}
    BY DEF Inv, TypeOK, ClientAgrees, Client, Alive
  <2>2. CASE client \in {"dying", "forked"}  BY <2>2 DEF Wakes
  <2>3. CASE client = "running"
    <3>1. CASE terminated  BY <2>3, <3>1 DEF Waking, StopReached, Unkilled
    <3>2. CASE "TERM" \in pending
      BY <2>3, <3>2 DEF Waking, SignalsMissed, Deaf
    <3>3. QED  BY <2>3, <3>1, <3>2
  <2>4. CASE client = "exited" /\ pc = "wait"  BY <2>4 DEF Wakes
  <2>5. CASE client = "exited" /\ pc = "select"
    <3>1. CASE pipe = "eof"  BY <2>5, <3>1 DEF Wakes
    <3>2. CASE pipe = "open" /\ readEof  BY <2>5, <3>2 DEF OutputHeld
    <3>3. CASE pipe = "open" /\ ~readEof
      BY <2>5, <3>3 DEF Waking, SignalsMissed, DeathCounted, Reading, MissedChld
    <3>4. QED  BY <2>1, <2>5, <3>1, <3>2, <3>3 DEF Waking, Reading
  <2>6. QED  BY <2>1, <2>2, <2>3, <2>4, <2>5 DEF Alive
<1>2. QED  BY <1>1, InvInit, InvStep, WakingInit, WakingStep, PTL DEF Spec
===============================================================================
