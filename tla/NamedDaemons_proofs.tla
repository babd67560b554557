-------------------------- MODULE NamedDaemons_proofs --------------------------
(***************************************************************************)
(* Theorems about NamedDaemons, for any set of processes and of inodes.    *)
(***************************************************************************)
EXTENDS NamedDaemons, TLAPS

(* A write lock excludes every other lock of the file. *)
Exclusive ==
  \A p, q \in Proc :
    p # q /\ fd[p] = fd[q] /\ fd[p] # None /\ holds[p] = "write" => holds[q] = "no"

(* Who holds the lock, by place. *)
Locking == OwnerPc \cup {"verify", "drop", "dying"}
Locked ==
  \A p \in Proc :
    /\ pc[p] \in Locking => holds[p] = "write"
    /\ pc[p] \in NotOpened \cup {"lock", "queryLock"} => holds[p] = "no"

(* The strengthening of SingleInstance: the pidfile's name leads to the    *)
(* file that its owner has locked.                                         *)
OwnerHasPath == ~robbed => \A p \in Proc : Owner(p) => path = fd[p]

(* The client pidfile is there from Record to Respawn. *)
ClientRecorded ==
  ~robbed =>
    /\ \A p \in Proc :
         /\ pc[p] = "run" => clientFile = p
         /\ pc[p] = "unrecorded" => clientFile = None \/ crashed
    /\ clientFile # None /\ ~crashed => pc[clientFile] \in {"run", "reaped"}

(* TypeOK in parts that each solver can do. *)
FilesTyped ==
  /\ path \in Inode \cup {None} /\ content \in Proc \cup {None}
  /\ clientFile \in Proc \cup {None}
HistoryTyped == robbed \in BOOLEAN /\ crashed \in BOOLEAN
ProcsTyped ==
  /\ role \in [Proc -> Role] /\ pc \in [Proc -> Opened \cup NotOpened]
  /\ fd \in [Proc -> Inode \cup {None}]
  /\ holds \in [Proc -> {"no", "read", "write"}]
  /\ target \in [Proc -> Proc \cup {None}]
Opening == \A p \in Proc : pc[p] \in Opened <=> fd[p] # None
Targeting == \A p \in Proc : pc[p] = "signal" => target[p] # None

LEMMA TypeParts ==
  TypeOK <=> FilesTyped /\ HistoryTyped /\ ProcsTyped /\ Opening /\ Targeting
BY DEF TypeOK, FilesTyped, HistoryTyped, ProcsTyped, Opening, Targeting

Inv == TypeOK /\ Exclusive /\ Locked /\ OwnerHasPath /\ ClientRecorded

-----------------------------------------------------------------------------
LEMMA InvInit == Init => Inv
<1> SUFFICES ASSUME Init PROVE Inv  OBVIOUS
<1> USE NamedAssumption
<1>1. FilesTyped /\ HistoryTyped  BY DEF Init, FilesTyped, HistoryTyped
<1>2. ProcsTyped /\ Opening /\ Targeting
  BY DEF Init, ProcsTyped, Opening, Targeting, Role, Opened, NotOpened, OwnerPc
<1>3. Exclusive /\ Locked
  BY DEF Init, Exclusive, Locked, Locking, NotOpened, OwnerPc
<1>4. OwnerHasPath /\ ClientRecorded
  BY DEF Init, OwnerHasPath, ClientRecorded, Owner, OwnerPc
<1>5. QED  BY <1>1, <1>2, <1>3, <1>4, TypeParts DEF Inv

LEMMA FilesTypedStep ==
  ASSUME Inv, NEW p \in Proc, Step(p)
  PROVE  FilesTyped'
<1> USE NamedAssumption, TypeParts 
     DEF Inv, Goto, Close, Gone, Unlink, Lockable, Verified, files, desc, history,
         ProcsTyped, FilesTyped
<1>0. ASSUME NEW r \in Role, Launch(p, r) PROVE FilesTyped'
  BY <1>0 DEF Launch, FirstStep, Role
<1>1. CASE Create(p)  BY <1>1 DEF Create
<1>2. CASE Exists(p)  BY <1>2 DEF Exists
<1>3. CASE Reopen(p)  BY <1>3 DEF Reopen
<1>4. CASE Lock(p)  BY <1>4 DEF Lock
<1>5. CASE Verify(p)  BY <1>5 DEF Verify
<1>6. CASE WritePid(p)  BY <1>6 DEF WritePid
<1>7. CASE SetHandlers(p)  BY <1>7 DEF SetHandlers
<1>8. CASE Spawn(p)  BY <1>8 DEF Spawn
<1>9. CASE Record(p)  BY <1>9 DEF Record
<1>10. CASE Reap(p)  BY <1>10 DEF Reap
<1>11. CASE Respawn(p)  BY <1>11 DEF Respawn
<1>12. CASE AtExit(p)  BY <1>12 DEF AtExit
<1>13. CASE Exit(p)  BY <1>13 DEF Exit
<1>14. CASE Drop(p)  BY <1>14 DEF Drop
<1>15. CASE Remove(p)  BY <1>15 DEF Remove
<1>16. CASE ReadPid(p)  BY <1>16 DEF ReadPid
<1>17. CASE Signal(p)  BY <1>17 DEF Signal
<1>18. CASE QueryOpen(p)  BY <1>18 DEF QueryOpen
<1>19. CASE QueryYes(p)  BY <1>19 DEF QueryYes
<1>20. CASE QueryNo(p)  BY <1>20 DEF QueryNo
<1>21. CASE QueryClose(p)  BY <1>21 DEF QueryClose
<1>22. CASE Crash(p)  BY <1>22 DEF Crash
<1>23. QED
  BY <1>0, <1>1, <1>2, <1>3, <1>4, <1>5, <1>6, <1>7, <1>8, <1>9, <1>10, <1>11,
     <1>12, <1>13, <1>14, <1>15, <1>16, <1>17, <1>18, <1>19, <1>20, <1>21, <1>22
  DEF Step, Start, Run, Command

LEMMA HistoryTypedStep ==
  ASSUME Inv, NEW p \in Proc, Step(p)
  PROVE  HistoryTyped'
<1> USE NamedAssumption, TypeParts 
     DEF Inv, Goto, Close, Gone, Unlink, Lockable, Verified, files, desc, history,
         HistoryTyped
<1>0. ASSUME NEW r \in Role, Launch(p, r) PROVE HistoryTyped'
  BY <1>0 DEF Launch, FirstStep, Role
<1>1. CASE Create(p)  BY <1>1 DEF Create
<1>2. CASE Exists(p)  BY <1>2 DEF Exists
<1>3. CASE Reopen(p)  BY <1>3 DEF Reopen
<1>4. CASE Lock(p)  BY <1>4 DEF Lock
<1>5. CASE Verify(p)  BY <1>5 DEF Verify
<1>6. CASE WritePid(p)  BY <1>6 DEF WritePid
<1>7. CASE SetHandlers(p)  BY <1>7 DEF SetHandlers
<1>8. CASE Spawn(p)  BY <1>8 DEF Spawn
<1>9. CASE Record(p)  BY <1>9 DEF Record
<1>10. CASE Reap(p)  BY <1>10 DEF Reap
<1>11. CASE Respawn(p)  BY <1>11 DEF Respawn
<1>12. CASE AtExit(p)  BY <1>12 DEF AtExit
<1>13. CASE Exit(p)  BY <1>13 DEF Exit
<1>14. CASE Drop(p)  BY <1>14 DEF Drop
<1>15. CASE Remove(p)  BY <1>15 DEF Remove
<1>16. CASE ReadPid(p)  BY <1>16 DEF ReadPid
<1>17. CASE Signal(p)  BY <1>17 DEF Signal
<1>18. CASE QueryOpen(p)  BY <1>18 DEF QueryOpen
<1>19. CASE QueryYes(p)  BY <1>19 DEF QueryYes
<1>20. CASE QueryNo(p)  BY <1>20 DEF QueryNo
<1>21. CASE QueryClose(p)  BY <1>21 DEF QueryClose
<1>22. CASE Crash(p)  BY <1>22 DEF Crash
<1>23. QED
  BY <1>0, <1>1, <1>2, <1>3, <1>4, <1>5, <1>6, <1>7, <1>8, <1>9, <1>10, <1>11,
     <1>12, <1>13, <1>14, <1>15, <1>16, <1>17, <1>18, <1>19, <1>20, <1>21, <1>22
  DEF Step, Start, Run, Command

LEMMA ProcsTypedStep ==
  ASSUME Inv, NEW p \in Proc, Step(p)
  PROVE  ProcsTyped'
<1> USE NamedAssumption, TypeParts 
     DEF Inv, Goto, Close, Gone, Unlink, Lockable, Verified, files, desc, history,
         FilesTyped, ProcsTyped, Role, Opened, NotOpened, OwnerPc
<1>0. ASSUME NEW r \in Role, Launch(p, r) PROVE ProcsTyped'
  BY <1>0 DEF Launch, FirstStep, Role
<1>1. CASE Create(p)  BY <1>1 DEF Create
<1>2. CASE Exists(p)  BY <1>2 DEF Exists
<1>3. CASE Reopen(p)  BY <1>3 DEF Reopen
<1>4. CASE Lock(p)  BY <1>4 DEF Lock
<1>5. CASE Verify(p)  BY <1>5 DEF Verify
<1>6. CASE WritePid(p)  BY <1>6 DEF WritePid
<1>7. CASE SetHandlers(p)  BY <1>7 DEF SetHandlers
<1>8. CASE Spawn(p)  BY <1>8 DEF Spawn
<1>9. CASE Record(p)  BY <1>9 DEF Record
<1>10. CASE Reap(p)  BY <1>10 DEF Reap
<1>11. CASE Respawn(p)  BY <1>11 DEF Respawn
<1>12. CASE AtExit(p)  BY <1>12 DEF AtExit
<1>13. CASE Exit(p)  BY <1>13 DEF Exit
<1>14. CASE Drop(p)  BY <1>14 DEF Drop
<1>15. CASE Remove(p)  BY <1>15 DEF Remove
<1>16. CASE ReadPid(p)  BY <1>16 DEF ReadPid
<1>17. CASE Signal(p)  BY <1>17 DEF Signal
<1>18. CASE QueryOpen(p)  BY <1>18 DEF QueryOpen
<1>19. CASE QueryYes(p)  BY <1>19 DEF QueryYes
<1>20. CASE QueryNo(p)  BY <1>20 DEF QueryNo
<1>21. CASE QueryClose(p)  BY <1>21 DEF QueryClose
<1>22. CASE Crash(p)  BY <1>22 DEF Crash
<1>23. QED
  BY <1>0, <1>1, <1>2, <1>3, <1>4, <1>5, <1>6, <1>7, <1>8, <1>9, <1>10, <1>11,
     <1>12, <1>13, <1>14, <1>15, <1>16, <1>17, <1>18, <1>19, <1>20, <1>21, <1>22
  DEF Step, Start, Run, Command

LEMMA OpeningStep ==
  ASSUME Inv, NEW p \in Proc, Step(p)
  PROVE  Opening'
<1> USE NamedAssumption, TypeParts 
     DEF Inv, Goto, Close, Gone, Unlink, Lockable, Verified, files, desc, history,
         Opening, FilesTyped, ProcsTyped, Opened, NotOpened, OwnerPc
<1>0. ASSUME NEW r \in Role, Launch(p, r) PROVE Opening'
  BY <1>0 DEF Launch, FirstStep, Role
<1>1. CASE Create(p)  BY <1>1 DEF Create
<1>2. CASE Exists(p)  BY <1>2 DEF Exists
<1>3. CASE Reopen(p)  BY <1>3 DEF Reopen
<1>4. CASE Lock(p)  BY <1>4 DEF Lock
<1>5. CASE Verify(p)  BY <1>5 DEF Verify
<1>6. CASE WritePid(p)  BY <1>6 DEF WritePid
<1>7. CASE SetHandlers(p)  BY <1>7 DEF SetHandlers
<1>8. CASE Spawn(p)  BY <1>8 DEF Spawn
<1>9. CASE Record(p)  BY <1>9 DEF Record
<1>10. CASE Reap(p)  BY <1>10 DEF Reap
<1>11. CASE Respawn(p)  BY <1>11 DEF Respawn
<1>12. CASE AtExit(p)  BY <1>12 DEF AtExit
<1>13. CASE Exit(p)  BY <1>13 DEF Exit
<1>14. CASE Drop(p)  BY <1>14 DEF Drop
<1>15. CASE Remove(p)  BY <1>15 DEF Remove
<1>16. CASE ReadPid(p)  BY <1>16 DEF ReadPid
<1>17. CASE Signal(p)  BY <1>17 DEF Signal
<1>18. CASE QueryOpen(p)  BY <1>18 DEF QueryOpen
<1>19. CASE QueryYes(p)  BY <1>19 DEF QueryYes
<1>20. CASE QueryNo(p)  BY <1>20 DEF QueryNo
<1>21. CASE QueryClose(p)  BY <1>21 DEF QueryClose
<1>22. CASE Crash(p)  BY <1>22 DEF Crash
<1>23. QED
  BY <1>0, <1>1, <1>2, <1>3, <1>4, <1>5, <1>6, <1>7, <1>8, <1>9, <1>10, <1>11,
     <1>12, <1>13, <1>14, <1>15, <1>16, <1>17, <1>18, <1>19, <1>20, <1>21, <1>22
  DEF Step, Start, Run, Command

LEMMA TargetingStep ==
  ASSUME Inv, NEW p \in Proc, Step(p)
  PROVE  Targeting'
<1> USE NamedAssumption, TypeParts 
     DEF Inv, Goto, Close, Gone, Unlink, Lockable, Verified, files, desc, history,
         Targeting, FilesTyped, ProcsTyped
<1>0. ASSUME NEW r \in Role, Launch(p, r) PROVE Targeting'
  BY <1>0 DEF Launch, FirstStep, Role
<1>1. CASE Create(p)  BY <1>1 DEF Create
<1>2. CASE Exists(p)  BY <1>2 DEF Exists
<1>3. CASE Reopen(p)  BY <1>3 DEF Reopen
<1>4. CASE Lock(p)  BY <1>4 DEF Lock
<1>5. CASE Verify(p)  BY <1>5 DEF Verify
<1>6. CASE WritePid(p)  BY <1>6 DEF WritePid
<1>7. CASE SetHandlers(p)  BY <1>7 DEF SetHandlers
<1>8. CASE Spawn(p)  BY <1>8 DEF Spawn
<1>9. CASE Record(p)  BY <1>9 DEF Record
<1>10. CASE Reap(p)  BY <1>10 DEF Reap
<1>11. CASE Respawn(p)  BY <1>11 DEF Respawn
<1>12. CASE AtExit(p)  BY <1>12 DEF AtExit
<1>13. CASE Exit(p)  BY <1>13 DEF Exit
<1>14. CASE Drop(p)  BY <1>14 DEF Drop
<1>15. CASE Remove(p)  BY <1>15 DEF Remove
<1>16. CASE ReadPid(p)  BY <1>16 DEF ReadPid
<1>17. CASE Signal(p)  BY <1>17 DEF Signal
<1>18. CASE QueryOpen(p)  BY <1>18 DEF QueryOpen
<1>19. CASE QueryYes(p)  BY <1>19 DEF QueryYes
<1>20. CASE QueryNo(p)  BY <1>20 DEF QueryNo
<1>21. CASE QueryClose(p)  BY <1>21 DEF QueryClose
<1>22. CASE Crash(p)  BY <1>22 DEF Crash
<1>23. QED
  BY <1>0, <1>1, <1>2, <1>3, <1>4, <1>5, <1>6, <1>7, <1>8, <1>9, <1>10, <1>11,
     <1>12, <1>13, <1>14, <1>15, <1>16, <1>17, <1>18, <1>19, <1>20, <1>21, <1>22
  DEF Step, Start, Run, Command

LEMMA ExclusiveStep ==
  ASSUME Inv, NEW p \in Proc, Step(p)
  PROVE  Exclusive'
<1> USE NamedAssumption, TypeParts 
     DEF Inv, Goto, Close, Gone, Unlink, Lockable, Verified, files, desc, history,
         Exclusive, Locked, Locking, Opening, FilesTyped, ProcsTyped, Opened, NotOpened, OwnerPc
<1>0. ASSUME NEW r \in Role, Launch(p, r) PROVE Exclusive'
  BY <1>0 DEF Launch, FirstStep, Role
<1>1. CASE Create(p)  BY <1>1 DEF Create
<1>2. CASE Exists(p)  BY <1>2 DEF Exists
<1>3. CASE Reopen(p)  BY <1>3 DEF Reopen
<1>4. CASE Lock(p)  BY <1>4 DEF Lock
<1>5. CASE Verify(p)  BY <1>5 DEF Verify
<1>6. CASE WritePid(p)  BY <1>6 DEF WritePid
<1>7. CASE SetHandlers(p)  BY <1>7 DEF SetHandlers
<1>8. CASE Spawn(p)  BY <1>8 DEF Spawn
<1>9. CASE Record(p)  BY <1>9 DEF Record
<1>10. CASE Reap(p)  BY <1>10 DEF Reap
<1>11. CASE Respawn(p)  BY <1>11 DEF Respawn
<1>12. CASE AtExit(p)  BY <1>12 DEF AtExit
<1>13. CASE Exit(p)  BY <1>13 DEF Exit
<1>14. CASE Drop(p)  BY <1>14 DEF Drop
<1>15. CASE Remove(p)  BY <1>15 DEF Remove
<1>16. CASE ReadPid(p)  BY <1>16 DEF ReadPid
<1>17. CASE Signal(p)  BY <1>17 DEF Signal
<1>18. CASE QueryOpen(p)  BY <1>18 DEF QueryOpen
<1>19. CASE QueryYes(p)  BY <1>19 DEF QueryYes
<1>20. CASE QueryNo(p)  BY <1>20 DEF QueryNo
<1>21. CASE QueryClose(p)  BY <1>21 DEF QueryClose
<1>22. CASE Crash(p)  BY <1>22 DEF Crash
<1>23. QED
  BY <1>0, <1>1, <1>2, <1>3, <1>4, <1>5, <1>6, <1>7, <1>8, <1>9, <1>10, <1>11,
     <1>12, <1>13, <1>14, <1>15, <1>16, <1>17, <1>18, <1>19, <1>20, <1>21, <1>22
  DEF Step, Start, Run, Command

LEMMA LockedStep ==
  ASSUME Inv, NEW p \in Proc, Step(p)
  PROVE  Locked'
<1> USE NamedAssumption, TypeParts 
     DEF Inv, Goto, Close, Gone, Unlink, Lockable, Verified, files, desc, history,
         Locked, Locking, ProcsTyped, Opened, NotOpened, OwnerPc
<1>0. ASSUME NEW r \in Role, Launch(p, r) PROVE Locked'
  BY <1>0 DEF Launch, FirstStep, Role
<1>1. CASE Create(p)  BY <1>1 DEF Create
<1>2. CASE Exists(p)  BY <1>2 DEF Exists
<1>3. CASE Reopen(p)  BY <1>3 DEF Reopen
<1>4. CASE Lock(p)  BY <1>4 DEF Lock
<1>5. CASE Verify(p)  BY <1>5 DEF Verify
<1>6. CASE WritePid(p)  BY <1>6 DEF WritePid
<1>7. CASE SetHandlers(p)  BY <1>7 DEF SetHandlers
<1>8. CASE Spawn(p)  BY <1>8 DEF Spawn
<1>9. CASE Record(p)  BY <1>9 DEF Record
<1>10. CASE Reap(p)  BY <1>10 DEF Reap
<1>11. CASE Respawn(p)  BY <1>11 DEF Respawn
<1>12. CASE AtExit(p)  BY <1>12 DEF AtExit
<1>13. CASE Exit(p)  BY <1>13 DEF Exit
<1>14. CASE Drop(p)  BY <1>14 DEF Drop
<1>15. CASE Remove(p)  BY <1>15 DEF Remove
<1>16. CASE ReadPid(p)  BY <1>16 DEF ReadPid
<1>17. CASE Signal(p)  BY <1>17 DEF Signal
<1>18. CASE QueryOpen(p)  BY <1>18 DEF QueryOpen
<1>19. CASE QueryYes(p)  BY <1>19 DEF QueryYes
<1>20. CASE QueryNo(p)  BY <1>20 DEF QueryNo
<1>21. CASE QueryClose(p)  BY <1>21 DEF QueryClose
<1>22. CASE Crash(p)  BY <1>22 DEF Crash
<1>23. QED
  BY <1>0, <1>1, <1>2, <1>3, <1>4, <1>5, <1>6, <1>7, <1>8, <1>9, <1>10, <1>11,
     <1>12, <1>13, <1>14, <1>15, <1>16, <1>17, <1>18, <1>19, <1>20, <1>21, <1>22
  DEF Step, Start, Run, Command

-----------------------------------------------------------------------------
(* Two owners would hold two write locks of the one file the name leads to.*)
LEMMA OneOwner == Inv => SingleInstance
<1> SUFFICES ASSUME Inv, ~robbed, NEW p \in Proc, NEW q \in Proc, Owner(p), Owner(q)
             PROVE  p = q
  BY DEF SingleInstance
<1>1. fd[p] = path /\ fd[q] = path  BY DEF Inv, OwnerHasPath
<1>2. fd[p] # None  BY DEF Inv, TypeOK, Owner, Opened
<1>3. holds[p] = "write" /\ holds[q] = "write"  BY DEF Inv, Locked, Locking, Owner
<1>4. QED  BY <1>1, <1>2, <1>3 DEF Inv, Exclusive

LEMMA OwnerHasPathStep ==
  ASSUME Inv, NEW p \in Proc, Step(p)
  PROVE  OwnerHasPath'
<1> USE NamedAssumption, TypeParts, OneOwner 
     DEF Inv, Goto, Close, Gone, Unlink, Lockable, Verified, files, desc, history,
         OwnerHasPath, Opening, ProcsTyped, FilesTyped, Owner, SingleInstance, Opened, OwnerPc
<1>0. ASSUME NEW r \in Role, Launch(p, r) PROVE OwnerHasPath'
  BY <1>0 DEF Launch, FirstStep, Role
<1>1. CASE Create(p)  BY <1>1 DEF Create
<1>2. CASE Exists(p)  BY <1>2 DEF Exists
<1>3. CASE Reopen(p)  BY <1>3 DEF Reopen
<1>4. CASE Lock(p)  BY <1>4 DEF Lock
<1>5. CASE Verify(p)  BY <1>5 DEF Verify
<1>6. CASE WritePid(p)  BY <1>6 DEF WritePid
<1>7. CASE SetHandlers(p)  BY <1>7 DEF SetHandlers
<1>8. CASE Spawn(p)  BY <1>8 DEF Spawn
<1>9. CASE Record(p)  BY <1>9 DEF Record
<1>10. CASE Reap(p)  BY <1>10 DEF Reap
<1>11. CASE Respawn(p)  BY <1>11 DEF Respawn
<1>12. CASE AtExit(p)  BY <1>12 DEF AtExit
<1>13. CASE Exit(p)  BY <1>13 DEF Exit
<1>14. CASE Drop(p)  BY <1>14 DEF Drop
<1>15. CASE Remove(p)  BY <1>15 DEF Remove
<1>16. CASE ReadPid(p)  BY <1>16 DEF ReadPid
<1>17. CASE Signal(p)  BY <1>17 DEF Signal
<1>18. CASE QueryOpen(p)  BY <1>18 DEF QueryOpen
<1>19. CASE QueryYes(p)  BY <1>19 DEF QueryYes
<1>20. CASE QueryNo(p)  BY <1>20 DEF QueryNo
<1>21. CASE QueryClose(p)  BY <1>21 DEF QueryClose
<1>22. CASE Crash(p)  BY <1>22 DEF Crash
<1>23. QED
  BY <1>0, <1>1, <1>2, <1>3, <1>4, <1>5, <1>6, <1>7, <1>8, <1>9, <1>10, <1>11,
     <1>12, <1>13, <1>14, <1>15, <1>16, <1>17, <1>18, <1>19, <1>20, <1>21, <1>22
  DEF Step, Start, Run, Command

LEMMA ClientRecordedStep ==
  ASSUME Inv, NEW p \in Proc, Step(p)
  PROVE  ClientRecorded'
<1> USE NamedAssumption, TypeParts, OneOwner 
     DEF Inv, Goto, Close, Gone, Unlink, Lockable, Verified, files, desc, history,
         ClientRecorded, ProcsTyped, FilesTyped, Owner, SingleInstance, OwnerPc, HandlersSet
<1>0. ASSUME NEW r \in Role, Launch(p, r) PROVE ClientRecorded'
  BY <1>0 DEF Launch, FirstStep, Role
<1>1. CASE Create(p)  BY <1>1 DEF Create
<1>2. CASE Exists(p)  BY <1>2 DEF Exists
<1>3. CASE Reopen(p)  BY <1>3 DEF Reopen
<1>4. CASE Lock(p)  BY <1>4 DEF Lock
<1>5. CASE Verify(p)  BY <1>5 DEF Verify
<1>6. CASE WritePid(p)  BY <1>6 DEF WritePid
<1>7. CASE SetHandlers(p)  BY <1>7 DEF SetHandlers
<1>8. CASE Spawn(p)  BY <1>8 DEF Spawn
<1>9. CASE Record(p)  BY <1>9 DEF Record
<1>10. CASE Reap(p)  BY <1>10 DEF Reap
<1>11. CASE Respawn(p)  BY <1>11 DEF Respawn
<1>12. CASE AtExit(p)  BY <1>12 DEF AtExit
<1>13. CASE Exit(p)  BY <1>13 DEF Exit
<1>14. CASE Drop(p)  BY <1>14 DEF Drop
<1>15. CASE Remove(p)  BY <1>15 DEF Remove
<1>16. CASE ReadPid(p)  BY <1>16 DEF ReadPid
<1>17. CASE Signal(p)  BY <1>17 DEF Signal
<1>18. CASE QueryOpen(p)  BY <1>18 DEF QueryOpen
<1>19. CASE QueryYes(p)  BY <1>19 DEF QueryYes
<1>20. CASE QueryNo(p)  BY <1>20 DEF QueryNo
<1>21. CASE QueryClose(p)  BY <1>21 DEF QueryClose
<1>22. CASE Crash(p)  BY <1>22 DEF Crash
<1>23. QED
  BY <1>0, <1>1, <1>2, <1>3, <1>4, <1>5, <1>6, <1>7, <1>8, <1>9, <1>10, <1>11,
     <1>12, <1>13, <1>14, <1>15, <1>16, <1>17, <1>18, <1>19, <1>20, <1>21, <1>22
  DEF Step, Start, Run, Command

LEMMA InvStep == Inv /\ [Next]_vars => Inv'
<1>1. ASSUME Inv, NEW p \in Proc, Step(p) PROVE Inv'
  <2>1. FilesTyped' /\ HistoryTyped' /\ ProcsTyped' /\ Opening' /\ Targeting'
    BY <1>1, FilesTypedStep, HistoryTypedStep, ProcsTypedStep, OpeningStep, TargetingStep
  <2>2. TypeOK'
    BY <2>1 DEF TypeOK, FilesTyped, HistoryTyped, ProcsTyped, Opening, Targeting
  <2>3. Exclusive' /\ Locked'
    BY <1>1, ExclusiveStep, LockedStep
  <2>4. OwnerHasPath' /\ ClientRecorded'
    BY <1>1, OwnerHasPathStep, ClientRecordedStep
  <2>5. QED  BY <2>2, <2>3, <2>4 DEF Inv
<1>2. ASSUME Inv, UNCHANGED vars PROVE Inv'
  BY <1>2
  DEF vars, files, desc, history, Inv, TypeOK, Exclusive, Locked, OwnerHasPath,
      ClientRecorded, Owner
<1>3. QED  BY <1>1, <1>2 DEF Next

-----------------------------------------------------------------------------
(* The state of the processes has the type stated; a descriptor is open    *)
(* exactly where the code has one, however often it starts anew.           *)
THEOREM NamedTypeOK == Spec => []TypeOK
<1>1. Inv => TypeOK  BY DEF Inv
<1>2. QED  BY <1>1, InvInit, InvStep, PTL DEF Spec

(* Two daemons with one name do not run at the same time, for any number   *)
(* of processes and commands, whatever crashes, unless --stop has unlinked *)
(* the pidfile of a daemon (daemon_lock_pidfile).                          *)
THEOREM NamedSingleInstance == Spec => []SingleInstance
BY OneOwner, InvInit, InvStep, PTL DEF Spec

(* The client pidfile is that of the client the running daemon recorded;   *)
(* of one that could not be recorded it is missing, or what a killed       *)
(* daemon left; and it is gone when no daemon is left that could remove    *)
(* it, unless one was killed.                                              *)
THEOREM NamedClientFileAgrees == Spec => []ClientFileAgrees
<1>1. Inv => ClientFileAgrees
  BY DEF Inv, ClientRecorded, ClientFileAgrees, Owner, OwnerPc
<1>2. QED  BY <1>1, InvInit, InvStep, PTL DEF Spec

(* The name is free after a step that makes an open pidfile another's. *)
LEMMA NameIsFreed ==
  ASSUME Inv, Inv', NEW p \in Proc, Step(p), ~robbed', path # None, path' # path
  PROVE  \A q \in Proc : ~Owner(q)'
<1>t. ProcsTyped /\ robbed \in BOOLEAN
  BY TypeParts DEF Inv, HistoryTyped
<1>1. CASE Remove(p)
  <2>1. ~robbed /\ ~ \E q \in Proc : Owner(q) /\ fd[q] = path
    BY <1>1, <1>t DEF Remove
  <2>2. \A q \in Proc : ~Owner(q)  BY <2>1 DEF Inv, OwnerHasPath
  <2>3. Goto(p, "off")  BY <1>1 DEF Remove, Gone
  <2>4. QED  BY <1>t, <2>2, <2>3 DEF Goto, ProcsTyped, Owner, OwnerPc
<1>2. CASE AtExit(p)
  <2>1. pc[p] = "exitPid" /\ Goto(p, "dying") /\ robbed' = robbed
    BY <1>2 DEF AtExit, files, history
  <2>2. \A q \in Proc : Owner(q) => q = p
    BY <2>1, OneOwner, <1>t DEF SingleInstance, Owner, OwnerPc
  <2>3. QED  BY <1>t, <2>1, <2>2 DEF Goto, ProcsTyped, Owner, OwnerPc
<1>3. Remove(p) \/ AtExit(p)
  BY DEF Step, Start, Run, Command, files, Launch, Create, Exists, Reopen, Lock,
     Verify, WritePid, SetHandlers, Spawn, Record, Reap, Respawn, AtExit, Exit, Drop,
     ReadPid, Signal, QueryOpen, QueryYes, QueryNo, QueryClose, Crash
<1>4. QED  BY <1>1, <1>2, <1>3

(* --running and --stop find no daemon only when there was none at some    *)
(* time since they opened the pidfile.                                     *)
THEOREM NamedNoMeansNo == Spec => NoMeansNo
<1> DEFINE Denies(p) ==
             \/ QueryOpen(p) /\ path = None
             \/ (QueryNo(p) \/ (Verify(p) /\ pc'[p] = "drop")) /\ fd[p] = path
           Free == \A q \in Proc : ~Owner(q)
<1>1. ASSUME Inv, NEW p \in Proc, ~robbed, Denies(p), NEW q \in Proc, Owner(q)
      PROVE  FALSE
  <2>1. fd[q] = path /\ holds[q] = "write" /\ fd[q] # None
    BY <1>1 DEF Inv, OwnerHasPath, Locked, Locking, TypeOK, Owner, Opened
  <2>2. CASE QueryOpen(p) /\ path = None
    BY <2>1, <2>2
  <2>3. CASE QueryNo(p) /\ fd[p] = path
    <3>1. p # q  BY <1>1, <2>3 DEF QueryNo, Owner, OwnerPc
    <3>2. QED  BY <2>1, <2>3, <3>1 DEF QueryNo, Lockable
  <2>4. CASE Verify(p) /\ fd[p] = path
    <3>1. p # q  BY <1>1, <2>4 DEF Verify, Owner, OwnerPc
    <3>2. holds[p] = "write"  BY <2>4, <1>1 DEF Verify, Inv, Locked, Locking
    <3>3. QED  BY <1>1, <2>1, <2>4, <3>1, <3>2 DEF Inv, Exclusive
  <2>5. QED  BY <1>1, <2>2, <2>3, <2>4
<1>2. Inv /\ Inv' /\ [Next]_vars
        => [~robbed' =>
              /\ \A p \in Proc :
                   \/ QueryOpen(p) /\ path = None
                   \/ (QueryNo(p) \/ (Verify(p) /\ pc'[p] = "drop")) /\ fd[p] = path
                     => \A q \in Proc : ~Owner(q)
              /\ path # None /\ path' # path => \A q \in Proc : ~Owner(q)']_vars
  <2> SUFFICES ASSUME Inv, Inv', Next, ~robbed'
               PROVE  /\ \A p \in Proc : Denies(p) => Free
                      /\ path # None /\ path' # path => Free'
    OBVIOUS
  <2>1. PICK p \in Proc : Step(p)  BY DEF Next
  <2>2. ~robbed
    BY <2>1, TypeParts DEF Inv, HistoryTyped, Step, Start, Run, Command, history, Launch,
       Create, Exists, Reopen, Lock, Verify, WritePid, SetHandlers, Spawn, Record, Reap,
       Respawn, AtExit, Exit, Drop, Remove, ReadPid, Signal, QueryOpen, QueryYes, QueryNo,
       QueryClose, Crash
  <2>3. \A x \in Proc : Denies(x) => Free  BY <1>1, <2>2
  <2>4. path # None /\ path' # path => Free'  BY <2>1, NameIsFreed
  <2>5. QED  BY <2>3, <2>4
<1>3. QED  BY <1>2, InvInit, InvStep, PTL DEF Spec, NoMeansNo

-----------------------------------------------------------------------------
(* The refinement of OneDaemon: what a step of one process does to the set *)
(* of owners.                                                              *)
Owners == {q \in Proc : Owner(q)}

LEMMA OwnersAfter ==
  ASSUME ProcsTyped, NEW p \in Proc, NEW c, Goto(p, c)
  PROVE  /\ c \in OwnerPc => Owners' = Owners \cup {p}
         /\ c \notin OwnerPc => Owners' = Owners \ {p}
<1>1. pc'[p] = c /\ \A q \in Proc \ {p} : pc'[q] = pc[q]
  BY DEF Goto, ProcsTyped
<1>2. QED  BY <1>1 DEF Owners, Owner

(* While nothing is robbed an owner is the only one. *)
LEMMA OnlyOwner ==
  ASSUME Inv, ~robbed, NEW p \in Proc, Owner(p)
  PROVE  Owners = {p}
BY OneOwner DEF SingleInstance, Owners

LEMMA NameStep == Inv /\ [Next]_vars => [Name!Next]_(Name!vars)
<1> SUFFICES ASSUME Inv, Inv', [Next]_vars PROVE Name!Next \/ UNCHANGED Name!vars
  BY InvStep
<1>t. ProcsTyped /\ FilesTyped /\ robbed \in BOOLEAN
  BY TypeParts DEF Inv, HistoryTyped
<1>v. Owners' = Owners /\ UNCHANGED <<content, clientFile, robbed>> => UNCHANGED Name!vars
  BY DEF Name!vars, Owners
<1>b. ASSUME robbed' PROVE Name!Next
  <2>1. robbed' = TRUE  BY <1>b, TypeParts DEF Inv, HistoryTyped
  <2>2. QED  BY <2>1 DEF Name!Next, Name!Break
<1>1. ASSUME NEW p \in Proc, ~robbed', ~robbed,
             \/ \E r \in Role : Launch(p, r)
             \/ Create(p) \/ Exists(p) \/ Reopen(p) \/ Lock(p)
             \/ Drop(p) \/ ReadPid(p)
             \/ QueryOpen(p) \/ QueryYes(p) \/ QueryNo(p) \/ QueryClose(p) \/ Exit(p)
      PROVE  UNCHANGED Name!vars
  <2>1. p \notin Owners
    BY <1>1 DEF Owners, Owner, OwnerPc, Launch, Create, Exists, Reopen, Lock, Drop, ReadPid,
       QueryOpen, QueryYes, QueryNo, QueryClose, Exit
  <2>2. UNCHANGED <<content, clientFile, robbed>>
    BY <1>1 DEF Launch, Create, Exists, Reopen, Lock, Drop, ReadPid,
       QueryOpen, QueryYes, QueryNo, QueryClose, Exit, files, history
  <2>3. PICK c : Goto(p, c) /\ c \notin OwnerPc
    BY <1>1 DEF OwnerPc, Launch, FirstStep, Role, Create, Exists, Reopen, Lock, Drop, ReadPid,
       QueryOpen, QueryYes, QueryNo, QueryClose, Exit, Gone
  <2>4. QED  BY <1>t, <1>v, <2>1, <2>2, <2>3, OwnersAfter
<1>2. ASSUME NEW p \in Proc, ~robbed', ~robbed, Verify(p) PROVE Name!Next \/ UNCHANGED Name!vars
  <2>1. p \notin Owners /\ UNCHANGED <<content, clientFile, robbed>>
    BY <1>2 DEF Verify, Owners, Owner, OwnerPc, files, history
  <2>2. CASE pc'[p] = "writepid"
    <3>1. Goto(p, "writepid")
      BY <1>2, <1>t, <2>2 DEF Verify, Verified, Goto, ProcsTyped
    <3>2. Owners' = Owners \cup {p}  BY <1>t, <3>1, OwnersAfter DEF OwnerPc
    <3>3. SingleInstance'
      BY InvStep, OneOwner, <1>2
      DEF Inv, SingleInstance, OwnerHasPath, Exclusive, Locked, Locking, TypeOK, Owner, Opened
    <3>4. Owners = {}
      <4>1. \A x, y \in Owners' : x = y  BY <1>2, <3>3 DEF SingleInstance, Owners
      <4>2. QED  BY <2>1, <3>2, <4>1
    <3>5. Name!Take(p)
      BY <2>1, <3>2, <3>4 DEF Name!Take, Owners
    <3>6. QED  BY <3>5 DEF Name!Next
  <2>3. CASE pc'[p] # "writepid"
    <3>1. PICK c \in {"drop", "open"} : Goto(p, c)
      BY <1>2, <1>t, <2>3 DEF Verify, Verified, Goto, ProcsTyped
    <3>2. QED  BY <1>t, <1>v, <2>1, <3>1, OwnersAfter DEF OwnerPc
  <2>4. QED  BY <2>2, <2>3
<1>3. ASSUME NEW p \in Proc, ~robbed', ~robbed, Owner(p),
             WritePid(p) \/ SetHandlers(p) \/ Spawn(p) \/ Record(p) \/ Reap(p) \/ Respawn(p)
      PROVE  Name!Next \/ UNCHANGED Name!vars
  <2>1. Owners = {p}  BY <1>3, OnlyOwner
  <2>2. PICK c \in OwnerPc : Goto(p, c)
    BY <1>3 DEF OwnerPc, WritePid, SetHandlers, Spawn, Record, Reap, Respawn
  <2>3. Owners' = {p} /\ UNCHANGED robbed
    <3>1. Owners' = Owners \cup {p}  BY <1>t, <2>2, OwnersAfter
    <3>2. QED
      BY <1>3, <2>1, <3>1
      DEF WritePid, SetHandlers, Spawn, Record, Reap, Respawn, history
  <2>4. CASE WritePid(p)
    <3>1. fd[p] = path  BY <1>3 DEF Inv, OwnerHasPath
    <3>2. (content' = p \/ content' = content) /\ UNCHANGED clientFile
      BY <2>4, <3>1 DEF WritePid
    <3>3. QED
      BY <1>v, <2>1, <2>3, <3>2 DEF Name!Next, Name!Announce, Owners
  <2>5. CASE Record(p)
    <3>1. clientFile' \in {p, clientFile, None} /\ UNCHANGED content
      BY <2>5 DEF Record, files
    <3>2. clientFile' = p => Name!Record(p)  BY <2>1, <2>3, <3>1 DEF Name!Record, Owners
    <3>3. clientFile' = None => Name!Forget(p)  BY <2>1, <2>3, <3>1 DEF Name!Forget, Owners
    <3>4. clientFile' = clientFile => UNCHANGED Name!vars  BY <1>v, <2>1, <2>3, <3>1
    <3>5. QED  BY <3>1, <3>2, <3>3, <3>4 DEF Name!Next
  <2>6. CASE Respawn(p)
    <3>1. clientFile' = None /\ UNCHANGED content  BY <2>6 DEF Respawn, files
    <3>2. QED  BY <2>1, <2>3, <3>1 DEF Name!Next, Name!Forget, Owners
  <2>7. CASE SetHandlers(p) \/ Spawn(p) \/ Reap(p)
    BY <1>v, <2>1, <2>3, <2>7 DEF SetHandlers, Spawn, Reap, files
  <2>8. QED  BY <1>3, <2>4, <2>5, <2>6, <2>7
<1>4. ASSUME NEW p \in Proc, ~robbed', ~robbed, AtExit(p) PROVE Name!Next
  <2>1. Owners = {p} /\ UNCHANGED robbed
    <3>1. Owner(p)  BY <1>4 DEF AtExit, Owner, OwnerPc
    <3>2. QED  BY <1>4, <3>1, OnlyOwner DEF AtExit, history
  <2>2. CASE pc[p] = "exitClient"
    <3>1. Goto(p, "exitPid") /\ clientFile' = None /\ UNCHANGED content
      BY <1>4, <2>2 DEF AtExit, files
    <3>2. Owners' = {p}  BY <1>t, <2>1, <3>1, OwnersAfter DEF OwnerPc
    <3>3. QED  BY <2>1, <3>1, <3>2 DEF Name!Next, Name!Forget, Owners
  <2>3. CASE pc[p] = "exitPid"
    <3>1. Goto(p, "dying") /\ content' = None /\ UNCHANGED clientFile
      BY <1>4, <2>3 DEF AtExit, Unlink
    <3>2. Owners' = {}  BY <1>t, <2>1, <3>1, OwnersAfter DEF OwnerPc
    <3>3. QED  BY <2>1, <3>1, <3>2 DEF Name!Next, Name!Leave, Owners
  <2>4. QED  BY <1>4, <2>2, <2>3 DEF AtExit
<1>5. ASSUME NEW p \in Proc, ~robbed', ~robbed, Remove(p) PROVE Name!Next
  <2>1. ~ \E q \in Proc : Owner(q) /\ fd[q] = path
    BY <1>5 DEF Remove
  <2>2. Owners = {}  BY <1>5, <2>1 DEF Inv, OwnerHasPath, Owners
  <2>3. Goto(p, "off") /\ content' = None /\ UNCHANGED clientFile /\ robbed' = robbed
    BY <1>5, <2>1, <1>t DEF Remove, Unlink, Gone
  <2>4. Owners' = {}  BY <1>t, <2>2, <2>3, OwnersAfter DEF OwnerPc
  <2>5. QED  BY <2>2, <2>3, <2>4 DEF Name!Next, Name!CleanUp, Owners
<1>6. ASSUME NEW p \in Proc, ~robbed', ~robbed, Crash(p) PROVE Name!Next \/ UNCHANGED Name!vars
  <2>1. Goto(p, "off") /\ UNCHANGED <<content, clientFile, robbed>>
    BY <1>6 DEF Crash, Gone, files
  <2>2. Owners' = Owners \ {p}  BY <1>t, <2>1, OwnersAfter DEF OwnerPc
  <2>3. CASE p \in Owners
    <3>1. Owners = {p}  BY <1>6, <2>3, OnlyOwner DEF Owners
    <3>2. QED  BY <2>1, <2>2, <3>1 DEF Name!Next, Name!Leave, Owners
  <2>4. CASE p \notin Owners  BY <1>v, <2>1, <2>2, <2>4
  <2>5. QED  BY <2>3, <2>4
<1>7. ASSUME NEW p \in Proc, ~robbed', ~robbed, Signal(p) PROVE Name!Next \/ UNCHANGED Name!vars
  <2> DEFINE q == target[p]
             dead == {p} \cup (IF pc[q] \notin HandlersSet THEN {q} ELSE {})
  <2>1. /\ pc' = [x \in Proc |-> IF x \in dead THEN "off" ELSE pc[x]]
        /\ UNCHANGED <<content, clientFile, robbed>>
    BY <1>7 DEF Signal, files, history
  <2>2. p \notin Owners  BY <1>7 DEF Signal, Owners, Owner, OwnerPc
  <2>3. Owners' = Owners \ dead  BY <2>1 DEF Owners, Owner, OwnerPc
  <2>4. Owners' = Owners \/ (q \in Owners /\ Owners' = Owners \ {q})
    BY <2>2, <2>3
  <2> HIDE DEF q, dead
  <2>5. CASE Owners' = Owners  BY <1>v, <2>1, <2>5
  <2>6. CASE q \in Owners /\ Owners' = Owners \ {q}
    <3>1. q \in Proc /\ Owners = {q}  BY <1>7, <2>6, OnlyOwner DEF Owners
    <3>2. Owners' = {}  BY <2>6, <3>1
    <3>3. QED  BY <2>1, <3>1, <3>2 DEF Name!Next, Name!Leave, Owners
  <2>7. QED  BY <2>4, <2>5, <2>6
<1>8. ASSUME NEW p \in Proc, Step(p), ~robbed' PROVE Name!Next \/ UNCHANGED Name!vars
  <2>1. ~robbed
    BY <1>8 DEF Step, Start, Run, Command, history, Launch, Create, Exists, Reopen, Lock,
       Verify, WritePid, SetHandlers, Spawn, Record, Reap, Respawn, AtExit, Exit, Drop,
       Remove, ReadPid, Signal, QueryOpen, QueryYes, QueryNo, QueryClose, Crash
  <2>2. WritePid(p) \/ SetHandlers(p) \/ Spawn(p) \/ Record(p) \/ Reap(p) \/ Respawn(p)
          => Owner(p)
    BY DEF Owner, OwnerPc, WritePid, SetHandlers, Spawn, Record, Reap, Respawn
  <2>3. QED
    BY <1>8, <1>1, <1>2, <1>3, <1>4, <1>5, <1>6, <1>7, <2>1, <2>2
    DEF Step, Start, Run, Command
<1>9. ASSUME UNCHANGED vars PROVE UNCHANGED Name!vars
  BY <1>9, <1>v DEF vars, files, history, Owners, Owner
<1>10. QED  BY <1>b, <1>8, <1>9 DEF Next

(* The pidfile protocol implements OneDaemon, for any number of processes, *)
(* commands and crashes: one daemon takes a name at a time, and nobody but *)
(* the owner changes what the pidfile and the client pidfile say of it.    *)
THEOREM NamedImplements == Spec => Implements
<1>1. Init => Name!Init
  <2>1. Init => {p \in Proc : Owner(p)} = {}  BY DEF Init, Owner, OwnerPc
  <2>2. QED  BY <2>1 DEF Init, Name!Init
<1>2. QED  BY <1>1, InvInit, InvStep, NameStep, PTL DEF Spec, Implements, Name!Spec
===============================================================================
