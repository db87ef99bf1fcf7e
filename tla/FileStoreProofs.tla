--------------------------- MODULE FileStoreProofs ---------------------------
(***************************************************************************)
(* Types hold for any number of processes; FileStore implements StatePort  *)
(* when all callers run in one.                                            *)
(***************************************************************************)
EXTENDS FileStore, TLAPS

OneProcess == \A c, d \in Callers : ProcessOf[c] = ProcessOf[d]

Working == {"open", "write", "rename"}

\* What types need of a caller, whatever other processes do.
CallerType(c) ==
    /\ pc[c] \in {"lock", "read"} \cup Working => request[c] \in Port!Requests
    /\ pc[c] = "write" => fd[c] \in Inodes

TypeInv == TypeOK /\ \A c \in Callers : CallerType(c)

\* What a caller knows at each step: it alone works on the files, the state it
\* read is still the stored one, and the temporary file is its own.
CallerInv(c) ==
    /\ pc[c] = "idle" <=> result[c] = "none"
    /\ pc[c] \in {"lock", "read"} \cup Working =>
           /\ result[c] = "pending"
           /\ request[c] \in Port!Requests
    /\ pc[c] # "unlock" => answer[c] = Port!NoAnswer
    /\ pc[c] \in Working =>
           /\ request[c].kind \in {"set", "remove"}
           /\ loaded[c] = Port!Updated(request[c], Stored)
    /\ pc[c] # "write" => fd[c] = NoInode
    /\ pc[c] = "write" => fd[c] = tmp /\ tmp # NoInode /\ content[tmp] = Torn
    /\ pc[c] = "rename" => tmp # NoInode /\ content[tmp] = loaded[c]

FileInv == path # NoInode => content[path] # Torn /\ path # tmp

Inv == TypeOK /\ FileInv /\ \A c \in Callers : CallerInv(c)

-----------------------------------------------------------------------------
LEMMA StoredType == TypeOK /\ Stored # Torn => Stored \in States
  BY DEF TypeOK, Stored, States, NewState

LEMMA InvIsTyped == Inv => TypeInv
  BY DEF Inv, TypeInv, TypeOK, CallerInv, CallerType

LEMMA UpdatedType ==
  ASSUME NEW m \in States, NEW r \in Port!Requests
  PROVE  Port!Updated(r, m) \in States
<1>1. CASE r.kind = "set"
  BY <1>1 DEF Port!Updated, Port!Requests, States
<1>2. CASE r.kind = "remove"
  BY <1>2 DEF Port!Updated, Port!Requests, States
<1>3. CASE r.kind \notin {"set", "remove"}
  BY <1>3 DEF Port!Updated, Port!Requests, States
<1> QED BY <1>1, <1>2, <1>3

LEMMA AnswerType ==
  ASSUME NEW m \in States, NEW r \in Port!Requests
  PROVE  Port!Answer(r, m) \in UNION {[S -> Data \cup {Absent}] : S \in SUBSET Envs}
<1>1. Port!Asked(r) \in SUBSET Envs
  BY DEF Port!Asked, Port!Requests
<1>2. Port!Answer(r, m) \in [Port!Asked(r) -> Data \cup {Absent}]
  BY <1>1 DEF Port!Answer, States
<1> QED BY <1>1, <1>2

LEMMA NoAnswerType ==
  Port!NoAnswer \in UNION {[S -> Data \cup {Absent}] : S \in SUBSET Envs}
<1>1. Port!NoAnswer \in [{} -> Data \cup {Absent}]
  BY DEF Port!NoAnswer
<1> QED BY <1>1

LEMMA MutualExclusion ==
  ASSUME OneProcess, TypeOK, NEW c \in Callers, NEW d \in Callers,
         pc[c] \in Locked, pc[d] \in Locked
  PROVE  c = d
  BY CallerAssumption DEF OneProcess, TypeOK


\* A caller that works knows that nobody else does.
LEMMA OthersWait ==
  ASSUME OneProcess, TypeOK, NEW c \in Callers, NEW d \in Callers,
         pc[c] \in Locked, d # c
  PROVE  pc[d] \in {"idle", "lock"}
<1>1. pc[d] \notin Locked
  BY MutualExclusion
<1> QED BY <1>1 DEF TypeOK, Locked

LEMMA Initially == Init => Inv
<1> SUFFICES ASSUME Init PROVE Inv
  OBVIOUS
<1>1. TypeOK
  <2>1. \A c \in Callers : pc[c] \notin Locked /\ mutex[ProcessOf[c]] # c
    BY CallerAssumption DEF Init, Locked
  <2> QED BY <2>1, NoAnswerType DEF Init, TypeOK, NewState, States, Port!Results
<1>2. FileInv
  BY DEF Init, FileInv
<1>3. \A c \in Callers : CallerInv(c)
  BY DEF Init, CallerInv, Working
<1> QED BY <1>1, <1>2, <1>3 DEF Inv

-----------------------------------------------------------------------------
(***************************************************************************)
(* Types, for any number of processes: a caller that fails to find a whole *)
(* document goes no further, so what is read and written is a state.       *)
(***************************************************************************)

\* A step of a caller that has the mutex, and keeps it, keeps the mutexes right.
LEMMA KeepsMutex ==
  ASSUME TypeOK, NEW c \in Callers, pc[c] \in Locked, NEW to \in Locked,
         pc' = [pc EXCEPT ![c] = to], UNCHANGED mutex
  PROVE  /\ pc' \in [Callers -> {"idle", "lock"} \cup Locked]
         /\ mutex' \in [Processes -> Callers \cup {NoCaller}]
         /\ \A d \in Callers : pc'[d] \in Locked <=> mutex'[ProcessOf[d]] = d
<1>1. pc' \in [Callers -> {"idle", "lock"} \cup Locked]
  BY DEF TypeOK
<1>2. ASSUME NEW d \in Callers
      PROVE  pc'[d] \in Locked <=> mutex'[ProcessOf[d]] = d
  BY DEF TypeOK
<1> QED BY <1>1, <1>2 DEF TypeOK

LEMMA InvokeType ==
  ASSUME TypeInv, NEW c \in Callers, NEW r \in Port!Requests, Invoke(c, r)
  PROVE  TypeInv'
<1> USE DEF TypeInv, Invoke, Goto
<1>1. TypeOK'
  <2>1. pc' \in [Callers -> {"idle", "lock"} \cup Locked]
    BY DEF TypeOK
  <2>2. \A d \in Callers : (pc[d] \in Locked <=> mutex[ProcessOf[d]] = d)'
    BY DEF TypeOK, Locked
  <2> QED BY <2>1, <2>2 DEF TypeOK, files, Port!Results
<1>2. \A d \in Callers : CallerType(d)'
  BY DEF TypeOK, CallerType, Working, Locked, port
<1> QED BY <1>1, <1>2

LEMMA LockType ==
  ASSUME TypeInv, NEW c \in Callers, Lock(c)
  PROVE  TypeInv'
<1> USE DEF TypeInv, Lock, Goto
<1>1. TypeOK'
  <2>1. pc' \in [Callers -> {"idle", "lock"} \cup Locked]
    BY DEF TypeOK, Locked
  <2>2. ASSUME NEW d \in Callers
        PROVE  (pc[d] \in Locked <=> mutex[ProcessOf[d]] = d)'
    <3>1. CASE d = c
      BY <3>1, CallerAssumption DEF TypeOK, Locked
    <3>2. CASE d # c
      <4>1. pc'[d] = pc[d]
        BY <3>2 DEF TypeOK
      <4>2. mutex'[ProcessOf[d]] = d <=> mutex[ProcessOf[d]] = d
        BY <3>2, CallerAssumption DEF TypeOK
      <4> QED BY <4>1, <4>2 DEF TypeOK, Locked
    <3> QED BY <3>1, <3>2
  <2> QED BY <2>1, <2>2, CallerAssumption DEF TypeOK, files, port
<1>2. \A d \in Callers : CallerType(d)'
  BY DEF TypeOK, CallerType, Working, Locked, port
<1> QED BY <1>1, <1>2

LEMMA ReadQueryType ==
  ASSUME TypeInv, NEW c \in Callers, ReadQuery(c)
  PROVE  TypeInv'
<1> USE DEF TypeInv, ReadQuery, Goto, Decide
<1>0. Stored \in States /\ request[c] \in Port!Requests
  BY StoredType DEF CallerType
<1>1. TypeOK'
  <2>1. "read" \in Locked /\ "unlock" \in Locked
    BY DEF Locked
  <2>2. Port!Answer(request[c], Stored)
            \in UNION {[S -> Data \cup {Absent}] : S \in SUBSET Envs}
    BY <1>0, AnswerType
  <2>3. answer' \in [Callers -> UNION {[S -> Data \cup {Absent}] : S \in SUBSET Envs}]
    BY <2>2 DEF TypeOK
  <2> QED BY <2>1, <2>3, KeepsMutex DEF TypeOK, files, Port!Results
<1>2. \A d \in Callers : CallerType(d)'
  BY DEF TypeOK, CallerType, Working, Locked, port
<1> QED BY <1>1, <1>2

LEMMA ReadForUpdateType ==
  ASSUME TypeInv, NEW c \in Callers, ReadForUpdate(c)
  PROVE  TypeInv'
<1> USE DEF TypeInv, ReadForUpdate, Goto
<1>0. Stored \in States /\ request[c] \in Port!Requests
  BY StoredType DEF CallerType
<1>1. TypeOK'
  <2>1. "read" \in Locked /\ "open" \in Locked
    BY DEF Locked
  <2>2. Port!Updated(request[c], Stored) \in States
    BY <1>0, UpdatedType
  <2>3. loaded' \in [Callers -> States]
    BY <2>2 DEF TypeOK
  <2> QED BY <2>1, <2>3, KeepsMutex DEF TypeOK, files, port
<1>2. \A d \in Callers : CallerType(d)'
  BY DEF TypeOK, CallerType, Working, Locked, port
<1> QED BY <1>1, <1>2

LEMMA OpenType ==
  ASSUME TypeInv, NEW c \in Callers, Open(c)
  PROVE  TypeInv'
<1> USE DEF TypeInv, Open, Goto
<1>0. PICK i \in Inodes :
        /\ tmp' = i /\ fd' = [fd EXCEPT ![c] = i]
        /\ content' = [content EXCEPT ![i] = Torn]
  BY DEF Open
<1>1. TypeOK'
  <2>1. "open" \in Locked /\ "write" \in Locked
    BY DEF Locked
  <2>2. fd' \in [Callers -> Inodes \cup {NoInode}]
    BY <1>0 DEF TypeOK
  <2>3. content' \in [Inodes -> States \cup {Torn}]
    BY <1>0 DEF TypeOK
  <2> QED BY <1>0, <2>1, <2>2, <2>3, KeepsMutex DEF Open, TypeOK, port
<1>2. \A d \in Callers : CallerType(d)'
  BY <1>0 DEF TypeOK, CallerType, Working, Locked, port
<1> QED BY <1>1, <1>2

LEMMA WriteType ==
  ASSUME TypeInv, NEW c \in Callers, Write(c)
  PROVE  TypeInv'
<1> USE DEF TypeInv, Write, Goto
<1>0. PICK new \in States \cup {Torn} : content' = [content EXCEPT ![fd[c]] = new]
  BY DEF TypeOK
<1>1. TypeOK'
  <2>1. "write" \in Locked /\ "rename" \in Locked
    BY DEF Locked
  <2>2. fd' \in [Callers -> Inodes \cup {NoInode}]
    BY DEF Write, TypeOK
  <2>3. content' \in [Inodes -> States \cup {Torn}]
    BY <1>0 DEF TypeOK
  <2> QED BY <2>1, <2>2, <2>3, KeepsMutex DEF Write, TypeOK, port
<1>2. \A d \in Callers : CallerType(d)'
  BY DEF TypeOK, CallerType, Working, Locked, port
<1> QED BY <1>1, <1>2

LEMMA RenameType ==
  ASSUME TypeInv, NEW c \in Callers, Rename(c)
  PROVE  TypeInv'
<1> USE DEF TypeInv, Goto, Rename, Decide
<1>0. tmp \in Inodes
  BY DEF TypeOK
<1>1. TypeOK'
  <2>1. "rename" \in Locked /\ "unlock" \in Locked
    BY DEF Locked
  <2>2. answer' \in [Callers -> UNION {[S -> Data \cup {Absent}] : S \in SUBSET Envs}]
    BY NoAnswerType DEF TypeOK
  <2> QED BY <1>0, <2>1, <2>2, KeepsMutex DEF TypeOK, Port!Results
<1>2. \A d \in Callers : CallerType(d)'
  BY DEF TypeOK, CallerType, Working, Locked, port
<1> QED BY <1>1, <1>2

LEMMA FailsType ==
  ASSUME TypeInv, NEW c \in Callers, Fails(c)
  PROVE  TypeInv'
<1> USE DEF TypeInv, Fails, Decide
<1>0. pc[c] \in {"read", "open", "write", "rename"}
  OBVIOUS
<1>1. TypeOK'
  <2>1. pc[c] \in Locked /\ "unlock" \in Locked
    BY <1>0 DEF Locked
  <2>2. answer' \in [Callers -> UNION {[S -> Data \cup {Absent}] : S \in SUBSET Envs}]
    BY NoAnswerType DEF TypeOK
  <2>3. fd' \in [Callers -> Inodes \cup {NoInode}] /\ tmp' \in Inodes \cup {NoInode}
    BY DEF TypeOK
  <2>4. faults' \in Nat
    BY DEF TypeOK, Fault
  <2> QED BY <2>1, <2>2, <2>3, <2>4, KeepsMutex DEF TypeOK, Port!Results
<1>2. \A d \in Callers : CallerType(d)'
  BY DEF TypeOK, CallerType, Working, Locked, port
<1> QED BY <1>1, <1>2

LEMMA ReturnType ==
  ASSUME TypeInv, NEW c \in Callers, Return(c)
  PROVE  TypeInv'
<1> USE DEF TypeInv, Return, Goto
<1>1. TypeOK'
  <2>1. pc' \in [Callers -> {"idle", "lock"} \cup Locked]
    BY DEF TypeOK
  <2>2. answer' \in [Callers -> UNION {[S -> Data \cup {Absent}] : S \in SUBSET Envs}]
    BY NoAnswerType DEF TypeOK
  <2>3. ASSUME NEW d \in Callers
        PROVE  (pc[d] \in Locked <=> mutex[ProcessOf[d]] = d)'
    <3>1. CASE d = c
      BY <3>1, CallerAssumption DEF TypeOK, Locked
    <3>2. CASE d # c
      <4>1. pc'[d] = pc[d]
        BY <3>2 DEF TypeOK
      <4>2. mutex[ProcessOf[c]] = c
        BY DEF TypeOK, Locked
      <4>3. mutex'[ProcessOf[d]] = d <=> mutex[ProcessOf[d]] = d
        BY <3>2, <4>2, CallerAssumption DEF TypeOK
      <4> QED BY <4>1, <4>3 DEF TypeOK, Locked
    <3> QED BY <3>1, <3>2
  <2> QED BY <2>1, <2>2, <2>3, CallerAssumption DEF TypeOK, files, Port!Results
<1>2. \A d \in Callers : CallerType(d)'
  BY DEF TypeOK, CallerType, Working, Locked, port
<1> QED BY <1>1, <1>2

LEMMA KillType ==
  ASSUME TypeInv, NEW p \in Processes, Kill(p)
  PROVE  TypeInv'
<1> USE DEF TypeInv, Kill
<1>1. TypeOK'
  <2>1. pc' \in [Callers -> {"idle", "lock"} \cup Locked]
    BY DEF TypeOK
  <2>2. answer' \in [Callers -> UNION {[S -> Data \cup {Absent}] : S \in SUBSET Envs}]
    BY NoAnswerType DEF TypeOK
  <2>3. ASSUME NEW d \in Callers
        PROVE  (pc[d] \in Locked <=> mutex[ProcessOf[d]] = d)'
    BY CallerAssumption DEF TypeOK, Locked
  <2>4. /\ request' \in [Callers -> Port!Requests \cup {Port!Idle}]
        /\ result' \in [Callers -> Port!Results]
        /\ fd' \in [Callers -> Inodes \cup {NoInode}]
        /\ mutex' \in [Processes -> Callers \cup {NoCaller}]
    BY DEF TypeOK, Port!Results
  <2>5. faults' \in Nat
    BY DEF TypeOK, Fault
  <2> QED BY <2>1, <2>2, <2>3, <2>4, <2>5 DEF TypeOK, files
<1>2. \A d \in Callers : CallerType(d)'
  BY DEF TypeOK, CallerType, Working, Locked, port
<1> QED BY <1>1, <1>2

LEMMA TypeStep == TypeInv /\ [Next]_vars => TypeInv'
<1> SUFFICES ASSUME TypeInv, [Next]_vars PROVE TypeInv'
  OBVIOUS
<1>1. CASE UNCHANGED vars
  BY <1>1 DEF TypeInv, TypeOK, CallerType, vars, port, files
<1>2. ASSUME NEW c \in Callers, NEW r \in Port!Requests, Invoke(c, r)
      PROVE  TypeInv'
  BY <1>2, InvokeType
<1>3. ASSUME NEW c \in Callers,
             \/ Lock(c) \/ ReadQuery(c) \/ ReadForUpdate(c) \/ Open(c)
             \/ Write(c) \/ Rename(c) \/ Fails(c) \/ Return(c)
      PROVE  TypeInv'
  BY <1>3, LockType, ReadQueryType, ReadForUpdateType, OpenType, WriteType,
     RenameType, FailsType, ReturnType
<1>4. ASSUME NEW p \in Processes, Kill(p)
      PROVE  TypeInv'
  BY <1>4, KillType
<1> QED BY <1>1, <1>2, <1>3, <1>4 DEF Next

\* However many processes use the state directory: what an adapter reads and
\* writes is a whole document, and in each process one thread at a time works.
THEOREM TypeCorrect == Spec => []TypeOK
<1>1. Init => TypeInv
  BY Initially, InvIsTyped
<1>2. TypeInv => TypeOK
  BY DEF TypeInv
<1> QED BY <1>1, <1>2, TypeStep, PTL DEF Spec

-----------------------------------------------------------------------------
LEMMA InvokeInv ==
  ASSUME Inv, NEW c \in Callers, NEW r \in Port!Requests, Invoke(c, r)
  PROVE  Inv'
<1> USE DEF Inv, Invoke, Goto
<1>1. answer[c] = Port!NoAnswer
  BY DEF CallerInv, TypeOK
<1>2. TypeOK'
  BY InvIsTyped, InvokeType DEF TypeInv
<1>3. Stored' = Stored
  BY DEF Stored, files
<1>4. FileInv'
  BY DEF FileInv, files
<1>5. ASSUME NEW d \in Callers PROVE CallerInv(d)'
  <2>1. CASE d = c
    BY <1>1, <2>1 DEF CallerInv, TypeOK, Working
  <2>2. CASE d # c
    BY <1>3, <2>2 DEF CallerInv, TypeOK, Working, files
  <2> QED BY <2>1, <2>2
<1> QED BY <1>2, <1>4, <1>5

LEMMA LockInv ==
  ASSUME Inv, NEW c \in Callers, Lock(c)
  PROVE  Inv'
<1> USE DEF Inv, Lock, Goto
<1>2. TypeOK'
  BY InvIsTyped, LockType DEF TypeInv
<1>3. Stored' = Stored
  BY DEF Stored, files
<1>4. FileInv'
  BY DEF FileInv, files
<1>5. ASSUME NEW d \in Callers PROVE CallerInv(d)'
  BY <1>3 DEF CallerInv, TypeOK, Working, files, port
<1> QED BY <1>2, <1>4, <1>5

LEMMA ReadQueryInv ==
  ASSUME Inv, NEW c \in Callers, ReadQuery(c)
  PROVE  Inv'
<1> USE DEF Inv, ReadQuery, Goto, Decide
<1>2. TypeOK'
  BY InvIsTyped, ReadQueryType DEF TypeInv
<1>3. Stored' = Stored
  BY DEF Stored, files
<1>4. FileInv'
  BY DEF FileInv, files
<1>5. ASSUME NEW d \in Callers PROVE CallerInv(d)'
  <2>1. CASE d = c
    BY <2>1 DEF CallerInv, TypeOK, Working
  <2>2. CASE d # c
    BY <1>3, <2>2 DEF CallerInv, TypeOK, Working, files
  <2> QED BY <2>1, <2>2
<1> QED BY <1>2, <1>4, <1>5

LEMMA ReadForUpdateInv ==
  ASSUME Inv, NEW c \in Callers, ReadForUpdate(c)
  PROVE  Inv'
<1> USE DEF Inv, ReadForUpdate, Goto
<1>2. TypeOK'
  BY InvIsTyped, ReadForUpdateType DEF TypeInv
<1>3. Stored' = Stored
  BY DEF Stored, files
<1>4. FileInv'
  BY DEF FileInv, files
<1>5. ASSUME NEW d \in Callers PROVE CallerInv(d)'
  <2>1. CASE d = c
    BY <1>3, <2>1 DEF CallerInv, TypeOK, Working, port
  <2>2. CASE d # c
    BY <1>3, <2>2 DEF CallerInv, TypeOK, Working, files, port
  <2> QED BY <2>1, <2>2
<1> QED BY <1>2, <1>4, <1>5

\* The temporary file is opened, or made; state.json stays what it was.
LEMMA OpenInv ==
  ASSUME OneProcess, Inv, NEW c \in Callers, Open(c)
  PROVE  Inv' /\ Stored' = Stored
<1> USE DEF Inv, Goto
<1>1. PICK i \in Inodes :
        /\ IF tmp = NoInode THEN Free(i) ELSE i = tmp
        /\ tmp' = i
        /\ fd' = [fd EXCEPT ![c] = i]
        /\ content' = [content EXCEPT ![i] = Torn]
  BY DEF Open
<1>2. i # path /\ i # NoInode
  BY <1>1, InodeAssumption DEF Free, FileInv, TypeOK
<1>3. Stored' = Stored
  BY <1>1, <1>2 DEF Open, Stored, TypeOK
<1>4. TypeOK'
  BY InvIsTyped, OpenType DEF TypeInv
<1>5. FileInv'
  BY <1>1, <1>2 DEF Open, FileInv, TypeOK
<1>6. ASSUME NEW d \in Callers PROVE CallerInv(d)'
  <2>1. CASE d = c
    BY <1>1, <1>2, <1>3, <2>1 DEF Open, CallerInv, TypeOK, Working, port
  <2>2. CASE d # c
    <3>1. pc[d] \in {"idle", "lock"}
      BY <2>2, OthersWait DEF Open, Locked
    <3> QED BY <1>1, <2>2, <3>1 DEF Open, CallerInv, TypeOK, Working, port
  <2> QED BY <2>1, <2>2
<1> QED BY <1>3, <1>4, <1>5, <1>6

\* Nobody writes into the file meanwhile: it holds what its writer wrote.
LEMMA WriteInv ==
  ASSUME OneProcess, Inv, NEW c \in Callers, Write(c)
  PROVE  Inv' /\ Stored' = Stored
<1> USE DEF Inv, Goto
<1>1. fd[c] = tmp /\ tmp \in Inodes /\ tmp # path /\ content[tmp] = Torn
  BY DEF Write, CallerInv, FileInv, TypeOK
<1>2. content' = [content EXCEPT ![tmp] = loaded[c]]
  BY <1>1 DEF Write
<1>3. Stored' = Stored
  BY <1>1, <1>2 DEF Write, Stored, TypeOK
<1>4. TypeOK'
  BY InvIsTyped, WriteType DEF TypeInv
<1>5. FileInv'
  BY <1>1, <1>2 DEF Write, FileInv, TypeOK
<1>6. ASSUME NEW d \in Callers PROVE CallerInv(d)'
  <2>1. CASE d = c
    BY <1>1, <1>2, <1>3, <2>1, InodeAssumption
       DEF Write, CallerInv, TypeOK, Working, port
  <2>2. CASE d # c
    <3>1. pc[d] \in {"idle", "lock"}
      BY <2>2, OthersWait DEF Write, Locked
    <3> QED BY <2>2, <3>1 DEF Write, CallerInv, TypeOK, Working, port
  <2> QED BY <2>1, <2>2
<1> QED BY <1>3, <1>4, <1>5, <1>6

\* The rename stores what was read, with the change the caller asked for.
LEMMA RenameInv ==
  ASSUME OneProcess, Inv, NEW c \in Callers, Rename(c)
  PROVE  /\ Inv'
         /\ request[c].kind \in {"set", "remove"}
         /\ Stored' = Port!Updated(request[c], Stored)
<1> USE DEF Inv, Goto, Rename, Decide
<1>1. /\ tmp \in Inodes /\ content[tmp] = loaded[c]
      /\ request[c].kind \in {"set", "remove"}
      /\ loaded[c] = Port!Updated(request[c], Stored)
      /\ loaded[c] \in States
  BY DEF CallerInv, TypeOK, Working
<1>2. Stored' = Port!Updated(request[c], Stored)
  BY <1>1, InodeAssumption DEF Stored
<1>3. TypeOK'
  BY InvIsTyped, RenameType DEF TypeInv
<1>4. FileInv'
  BY <1>1, TornAssumption, InodeAssumption DEF FileInv, States
<1>5. ASSUME NEW d \in Callers PROVE CallerInv(d)'
  <2>1. CASE d = c
    BY <2>1 DEF CallerInv, TypeOK, Working
  <2>2. CASE d # c
    <3>1. pc[d] \in {"idle", "lock"}
      BY <2>2, OthersWait DEF Locked
    <3> QED BY <2>2, <3>1 DEF CallerInv, TypeOK, Working
  <2> QED BY <2>1, <2>2
<1> QED BY <1>1, <1>2, <1>3, <1>4, <1>5

LEMMA FailsInv ==
  ASSUME OneProcess, Inv, NEW c \in Callers, Fails(c)
  PROVE  /\ Inv'
         /\ Stored' = Stored
         /\ result[c] = "pending"
<1> USE DEF Inv, Fails, Decide
<1>1. pc[c] \in {"read", "open", "write", "rename"} /\ result[c] = "pending"
  BY DEF CallerInv, Working
<1>2. Stored' = Stored
  BY DEF Stored
<1>3. TypeOK'
  BY InvIsTyped, FailsType DEF TypeInv
<1>4. FileInv'
  BY DEF FileInv
<1>5. ASSUME NEW d \in Callers PROVE CallerInv(d)'
  <2>1. CASE d = c
    BY <1>1, <2>1 DEF CallerInv, TypeOK, Working
  <2>2. CASE d # c
    <3>1. pc[d] \in {"idle", "lock"}
      BY <1>1, <2>2, OthersWait DEF Locked
    <3> QED BY <2>2, <3>1 DEF CallerInv, TypeOK, Working
  <2> QED BY <2>1, <2>2
<1> QED BY <1>1, <1>2, <1>3, <1>4, <1>5

LEMMA ReturnInv ==
  ASSUME Inv, NEW c \in Callers, Return(c)
  PROVE  Inv'
<1> USE DEF Inv, Return, Goto
<1>1. TypeOK'
  BY InvIsTyped, ReturnType DEF TypeInv
<1>2. Stored' = Stored
  BY DEF Stored, files
<1>3. FileInv'
  BY DEF FileInv, files
<1>4. ASSUME NEW d \in Callers PROVE CallerInv(d)'
  <2>1. CASE d = c
    BY <2>1 DEF CallerInv, TypeOK, Working
  <2>2. CASE d # c
    BY <1>2, <2>2 DEF CallerInv, TypeOK, Working, files
  <2> QED BY <2>1, <2>2
<1> QED BY <1>1, <1>3, <1>4

\* A new process starts with a free mutex; the files are as they were left.
LEMMA KillInv ==
  ASSUME Inv, NEW p \in Processes, Kill(p)
  PROVE  Inv'
<1> DEFINE killed == {c \in Callers : ProcessOf[c] = p}
<1> USE DEF Inv, Kill
<1>1. TypeOK'
  BY InvIsTyped, KillType DEF TypeInv
<1>2. Stored' = Stored
  BY DEF Stored, files
<1>3. FileInv'
  BY DEF FileInv, files
<1>4. ASSUME NEW d \in Callers PROVE CallerInv(d)'
  <2>1. CASE d \in killed
    BY <2>1 DEF CallerInv, TypeOK, Working
  <2>2. CASE d \notin killed
    <3>1. /\ pc'[d] = pc[d] /\ fd'[d] = fd[d] /\ request'[d] = request[d]
          /\ result'[d] = result[d] /\ answer'[d] = answer[d]
          /\ UNCHANGED <<loaded, files>>
      BY <2>2
    <3> QED BY <1>2, <3>1 DEF CallerInv, files
  <2> QED BY <2>1, <2>2
<1> QED BY <1>1, <1>3, <1>4

LEMMA Preserved ==
  ASSUME OneProcess
  PROVE  Inv /\ [Next]_vars => Inv'
<1> SUFFICES ASSUME Inv, [Next]_vars PROVE Inv'
  OBVIOUS
<1>1. CASE UNCHANGED vars
  BY <1>1 DEF Inv, TypeOK, FileInv, CallerInv, Stored, vars, port, files
<1>2. ASSUME NEW c \in Callers, NEW r \in Port!Requests, Invoke(c, r)
      PROVE  Inv'
  BY <1>2, InvokeInv
<1>3. ASSUME NEW c \in Callers,
             \/ Lock(c) \/ ReadQuery(c) \/ ReadForUpdate(c) \/ Open(c)
             \/ Write(c) \/ Rename(c) \/ Fails(c) \/ Return(c)
      PROVE  Inv'
  BY <1>3, LockInv, ReadQueryInv, ReadForUpdateInv, OpenInv, WriteInv,
     RenameInv, FailsInv, ReturnInv
<1>4. ASSUME NEW p \in Processes, Kill(p)
      PROVE  Inv'
  BY <1>4, KillInv
<1> QED BY <1>1, <1>2, <1>3, <1>4 DEF Next

-----------------------------------------------------------------------------
\* Every step is a step of the port, or none: a query takes effect when it reads
\* the file, an update when it renames the temporary file.
LEMMA StepsOfPort ==
  ASSUME OneProcess
  PROVE  Inv /\ [Next]_vars => [Port!Next]_(Port!vars)
<1> SUFFICES ASSUME Inv, [Next]_vars
             PROVE  Port!Next \/ UNCHANGED Port!vars
  OBVIOUS
<1> USE DEF Port!vars
<1>1. CASE UNCHANGED vars
  BY <1>1 DEF Stored, vars, port, files
<1>2. ASSUME NEW c \in Callers, NEW r \in Port!Requests, Invoke(c, r)
      PROVE  Port!Call(c, r)
  <2>1. result[c] = "none"
    BY <1>2 DEF Inv, CallerInv, Invoke, Goto
  <2> QED BY <1>2, <2>1 DEF Port!Call, Invoke, Stored, files
<1>3. ASSUME NEW c \in Callers, Lock(c) \/ ReadForUpdate(c)
      PROVE  UNCHANGED Port!vars
  BY <1>3 DEF Lock, ReadForUpdate, Stored, files, port
<1>4. ASSUME NEW c \in Callers, Open(c) \/ Write(c)
      PROVE  UNCHANGED Port!vars
  <2>1. Stored' = Stored
    BY <1>4, OpenInv, WriteInv
  <2> QED BY <1>4, <2>1 DEF Open, Write, port
<1>5. ASSUME NEW c \in Callers, ReadQuery(c)
      PROVE  Port!Perform(c)
  <2>1. result[c] = "pending" /\ request[c].kind \in {"get", "load"}
    BY <1>5 DEF Inv, CallerInv, ReadQuery, Goto
  <2>2. Stored' = Port!Updated(request[c], Stored)
    BY <1>5, <2>1 DEF ReadQuery, Port!Updated, Stored, files
  <2> QED BY <1>5, <2>1, <2>2 DEF Port!Perform, ReadQuery, Decide
<1>6. ASSUME NEW c \in Callers, Rename(c)
      PROVE  Port!Perform(c)
  <2>1. result[c] = "pending"
    BY <1>6 DEF Inv, CallerInv, Rename, Goto, Working
  <2>2. /\ request[c].kind \in {"set", "remove"}
        /\ Stored' = Port!Updated(request[c], Stored)
    BY <1>6, RenameInv
  <2>3. Port!Answer(request[c], Stored) = Port!NoAnswer
    BY <2>2 DEF Port!Answer, Port!NoAnswer, Port!Asked
  <2> QED BY <1>6, <2>1, <2>2, <2>3 DEF Port!Perform, Rename, Decide
<1>7. ASSUME NEW c \in Callers, Fails(c)
      PROVE  Port!Fail(c)
  <2>1. Stored' = Stored /\ result[c] = "pending"
    BY <1>7, FailsInv
  <2>2. answer' = answer
    BY <1>7 DEF Fails, Decide, Inv, CallerInv, TypeOK
  <2> QED BY <1>7, <2>1, <2>2 DEF Port!Fail, Fails, Decide
<1>8. ASSUME NEW c \in Callers, Return(c)
      PROVE  Port!End({c})
  BY <1>8 DEF Port!End, Return, Stored, files, Inv, TypeOK
<1>9. ASSUME NEW p \in Processes, Kill(p)
      PROVE  \E S \in SUBSET Callers : Port!End(S)
  <2>1. Port!End({c \in Callers : ProcessOf[c] = p})
    BY <1>9 DEF Port!End, Kill, Stored, files
  <2> QED BY <2>1
<1>10. CASE \E c \in Callers, r \in Port!Requests : Invoke(c, r)
  BY <1>2, <1>10 DEF Port!Next
<1>11. CASE \E c \in Callers : ReadQuery(c) \/ Rename(c) \/ Fails(c) \/ Return(c)
  BY <1>5, <1>6, <1>7, <1>8, <1>11 DEF Port!Next
<1>12. CASE \E p \in Processes : Kill(p)
  BY <1>9, <1>12 DEF Port!Next
<1> QED BY <1>1, <1>3, <1>4, <1>10, <1>11, <1>12 DEF Next

LEMMA Invariance == OneProcess => (Spec => []Inv)
<1> SUFFICES ASSUME OneProcess PROVE Spec => []Inv
  OBVIOUS
<1> QED BY Initially, Preserved, PTL DEF Spec

\* As long as one process uses the state directory its readers find a whole
\* document there, however many environments, threads and failures there are.
THEOREM NeverTornAlone == OneProcess => (Spec => []NeverTorn)
<1>1. Inv => NeverTorn
  BY DEF Inv, FileInv, NeverTorn
<1> QED BY <1>1, Invariance, PTL

\* The file adapter is one atomic map to the threads of one process and to the
\* commands that follow each other: no update is lost, none is half done, and a
\* call that fails, or whose process is killed, has happened or has not.
THEOREM FileImplementsPort == OneProcess => (Spec => ImplementsPort)
<1> SUFFICES ASSUME OneProcess PROVE Spec => ImplementsPort
  OBVIOUS
<1>1. Init => Port!Init
  BY DEF Init, Port!Init, Stored, NewState, Port!Nothing
<1>2. Inv /\ [Next]_vars => [Port!Next]_(Port!vars)
  BY StepsOfPort
<1>3. Spec => []Inv
  BY Invariance
<1> QED BY <1>1, <1>2, <1>3, PTL DEF Spec, ImplementsPort, Port!Spec
=============================================================================
