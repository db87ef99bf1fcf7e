------------------------------ MODULE FileStore ------------------------------
(***************************************************************************)
(* outbound/state/file.go: all environments of a project in one JSON file. *)
(* Every change reads the whole file, changes one record and replaces the  *)
(* file by writing state.json.tmp and renaming it.  A mutex orders the     *)
(* threads of ONE process (they share the adapter); every command is a     *)
(* process of its own, and processes share nothing but the two names.      *)
(*                                                                         *)
(* A definition named Faulty... is a wrong version of the one that follows *)
(* it; no specification uses it.                                           *)
(***************************************************************************)
EXTENDS Naturals

CONSTANTS
    Callers,    \* threads that call an adapter
    Processes,
    ProcessOf,  \* the process a caller runs in
    Envs,
    Data,
    Absent,
    Inodes,     \* files of the file system
    NoInode,
    NoCaller,
    Torn,       \* content that is not a whole JSON document
    MaxCalls,   \* bound: calls
    MaxFaults   \* bound: failing system calls and killed processes

ASSUME AbsentAssumption == Absent \notin Data
ASSUME CallerAssumption ==
    /\ ProcessOf \in [Callers -> Processes]
    /\ NoCaller \notin Callers
ASSUME InodeAssumption == NoInode \notin Inodes
ASSUME TornAssumption == Torn \notin [Envs -> Data \cup {Absent}]
ASSUME BoundAssumption == MaxCalls \in Nat /\ MaxFaults \in Nat

VARIABLES
    request, result, answer,    \* as in StatePort
    pc,         \* what each caller is about to do
    loaded,     \* the state it read, and then changed
    fd,         \* the file it has open for writing
    mutex,      \* FileStateAdapter.mu of every process
    path, tmp,  \* the inodes called state.json and state.json.tmp
    content,    \* of every inode
    calls, faults       \* counters for the bounds

port == <<request, result, answer>>
files == <<path, tmp, content>>
vars == <<port, pc, loaded, fd, mutex, files, calls, faults>>

States == [Envs -> Data \cup {Absent}]

\* domain.NewState: also what a missing file means.
NewState == [e \in Envs |-> Absent]

Stored == IF path = NoInode THEN NewState ELSE content[path]

Port == INSTANCE StatePort WITH environments <- Stored, AnswersLost <- FALSE

Locked == {"read", "open", "write", "rename", "unlock"}

TypeOK ==
    /\ request \in [Callers -> Port!Requests \cup {Port!Idle}]
    /\ result \in [Callers -> Port!Results]
    /\ answer \in [Callers -> UNION {[S -> Data \cup {Absent}] : S \in SUBSET Envs}]
    /\ pc \in [Callers -> {"idle", "lock"} \cup Locked]
    /\ loaded \in [Callers -> States]
    /\ fd \in [Callers -> Inodes \cup {NoInode}]
    /\ mutex \in [Processes -> Callers \cup {NoCaller}]
    /\ path \in Inodes \cup {NoInode} /\ tmp \in Inodes \cup {NoInode}
    /\ content \in [Inodes -> States \cup {Torn}]
    /\ calls \in Nat /\ faults \in Nat
    \* A caller holds the mutex of its process exactly while it works.
    /\ \A c \in Callers : pc[c] \in Locked <=> mutex[ProcessOf[c]] = c

Init ==
    /\ request = [c \in Callers |-> Port!Idle]
    /\ result = [c \in Callers |-> "none"]
    /\ answer = [c \in Callers |-> Port!NoAnswer]
    /\ pc = [c \in Callers |-> "idle"]
    /\ loaded = [c \in Callers |-> NewState]
    /\ fd = [c \in Callers |-> NoInode]
    /\ mutex = [p \in Processes |-> NoCaller]
    /\ path = NoInode /\ tmp = NoInode
    /\ content = [i \in Inodes |-> Torn]
    /\ calls = 0 /\ faults = 0

-----------------------------------------------------------------------------
Goto(c, from, to) == pc[c] = from /\ pc' = [pc EXCEPT ![c] = to]

\* The call of c is decided: it only has to unlock and return.
Decide(c, outcome, records) ==
    /\ result' = [result EXCEPT ![c] = outcome]
    /\ answer' = [answer EXCEPT ![c] = records]
    /\ UNCHANGED request

Fault == faults < MaxFaults /\ faults' = faults + 1

Invoke(c, r) ==
    /\ Goto(c, "idle", "lock")
    /\ calls < MaxCalls /\ calls' = calls + 1
    /\ request' = [request EXCEPT ![c] = r]
    /\ result' = [result EXCEPT ![c] = "pending"]
    /\ UNCHANGED <<answer, loaded, fd, mutex, files, faults>>

\* Does not wait for the other threads.
FaultyLock(c) ==
    /\ Goto(c, "lock", "read")
    /\ mutex' = [mutex EXCEPT ![ProcessOf[c]] = c]
    /\ UNCHANGED <<port, loaded, fd, files, calls, faults>>

Lock(c) ==
    /\ Goto(c, "lock", "read")
    /\ mutex[ProcessOf[c]] = NoCaller
    /\ mutex' = [mutex EXCEPT ![ProcessOf[c]] = c]
    /\ UNCHANGED <<port, loaded, fd, files, calls, faults>>

\* Load and GetEnvironment are done once the file is read.
ReadQuery(c) ==
    /\ Goto(c, "read", "unlock")
    /\ request[c].kind \in {"get", "load"}
    /\ Stored # Torn
    /\ Decide(c, "done", Port!Answer(request[c], Stored))
    /\ UNCHANGED <<loaded, fd, mutex, files, calls, faults>>

\* SetEnvironment and RemoveEnvironment change one record of what they read.
ReadForUpdate(c) ==
    /\ Goto(c, "read", "open")
    /\ request[c].kind \in {"set", "remove"}
    /\ Stored # Torn
    /\ loaded' = [loaded EXCEPT ![c] = Port!Updated(request[c], Stored)]
    /\ UNCHANGED <<port, fd, mutex, files, calls, faults>>

\* Neither called state.json nor state.json.tmp, nor open.
Free(i) == i \notin {path, tmp} /\ \A c \in Callers : fd[c] # i

\* Writes state.json in place.
FaultyOpen(c) ==
    /\ Goto(c, "open", "write")
    /\ \E i \in Inodes :
          /\ IF path = NoInode THEN Free(i) ELSE i = path
          /\ path' = i /\ tmp' = i
          /\ fd' = [fd EXCEPT ![c] = i]
          /\ content' = [content EXCEPT ![i] = Torn]
    /\ UNCHANGED <<port, loaded, mutex, calls, faults>>

\* os.WriteFile creates the temporary file, or truncates the one it finds.
Open(c) ==
    /\ Goto(c, "open", "write")
    /\ \E i \in Inodes :
          /\ IF tmp = NoInode THEN Free(i) ELSE i = tmp
          /\ tmp' = i
          /\ fd' = [fd EXCEPT ![c] = i]
          /\ content' = [content EXCEPT ![i] = Torn]
    /\ UNCHANGED <<port, loaded, mutex, path, calls, faults>>

\* ... and writes it.  Over what another process wrote into it since, the
\* result may end in the tail of a longer document.
Write(c) ==
    /\ Goto(c, "write", "rename")
    /\ \E new \in {loaded[c]} \cup (IF content[fd[c]] = Torn THEN {} ELSE {Torn}) :
           content' = [content EXCEPT ![fd[c]] = new]
    /\ fd' = [fd EXCEPT ![c] = NoInode]
    /\ UNCHANGED <<port, loaded, mutex, path, tmp, calls, faults>>

\* The rename takes whatever is called state.json.tmp by now.
Rename(c) ==
    /\ Goto(c, "rename", "unlock")
    /\ tmp # NoInode
    /\ path' = tmp /\ tmp' = NoInode
    /\ Decide(c, "done", Port!NoAnswer)
    /\ UNCHANGED <<loaded, fd, mutex, content, calls, faults>>

\* A system call fails; the state file does not parse; or the temporary file
\* was renamed by another process.  A failed rename removes the file.
Fails(c) ==
    /\ \/ pc[c] \in {"read", "open", "write", "rename"} /\ Fault
       \/ pc[c] = "read" /\ Stored = Torn /\ UNCHANGED faults
       \/ pc[c] = "rename" /\ tmp = NoInode /\ UNCHANGED faults
    /\ pc' = [pc EXCEPT ![c] = "unlock"]
    /\ fd' = [fd EXCEPT ![c] = NoInode]
    /\ tmp' = IF pc[c] = "rename" THEN NoInode ELSE tmp
    /\ Decide(c, "error", Port!NoAnswer)
    /\ UNCHANGED <<loaded, mutex, path, content, calls>>

\* The deferred unlock, and the return to the caller.
Return(c) ==
    /\ Goto(c, "unlock", "idle")
    /\ mutex' = [mutex EXCEPT ![ProcessOf[c]] = NoCaller]
    /\ request' = [request EXCEPT ![c] = Port!Idle]
    /\ result' = [result EXCEPT ![c] = "none"]
    /\ answer' = [answer EXCEPT ![c] = Port!NoAnswer]
    /\ UNCHANGED <<loaded, fd, files, calls, faults>>

\* A process is killed; the next command is a new one.  Nobody removes the
\* temporary file it leaves.
Kill(p) ==
    LET killed == {c \in Callers : ProcessOf[c] = p}
        After(f, v) == [c \in Callers |-> IF c \in killed THEN v ELSE f[c]]
    IN  /\ Fault
        /\ pc' = After(pc, "idle")
        /\ fd' = After(fd, NoInode)
        /\ request' = After(request, Port!Idle)
        /\ result' = After(result, "none")
        /\ answer' = After(answer, Port!NoAnswer)
        /\ mutex' = [mutex EXCEPT ![p] = NoCaller]
        /\ UNCHANGED <<loaded, files, calls>>

Next ==
    \/ \E c \in Callers :
          \/ \E r \in Port!Requests : Invoke(c, r)
          \/ Lock(c) \/ ReadQuery(c) \/ ReadForUpdate(c) \/ Open(c) \/ Write(c)
          \/ Rename(c) \/ Fails(c) \/ Return(c)
    \/ \E p \in Processes : Kill(p)

Spec == Init /\ [][Next]_vars

-----------------------------------------------------------------------------
\* The threads of one process, and the commands that follow it, see one atomic
\* map, whatever system call fails and wherever a process is killed.
ImplementsPort == Port!Spec

\* state.json is a whole document whenever somebody may read it.
NeverTorn == path # NoInode => content[path] # Torn
=============================================================================
