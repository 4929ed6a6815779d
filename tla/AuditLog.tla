------------------------------- MODULE AuditLog -------------------------------
(***************************************************************************)
(* The audit log of safety events: strands_robots/mesh/audit.py            *)
(* (log_safety_event, _next_seq, _rotate_log_if_needed, read_audit_log,    *)
(* verify_audit_integrity).                                                *)
(*                                                                         *)
(* The processes of a host share one directory.  A thread that logs an     *)
(* event first takes the next number of its peer from a sidecar file,      *)
(* under a lock of all processes, and then appends the record under a lock *)
(* of its own process only, rotating the files when the active one is      *)
(* full.  A process may crash between any two steps and is started again.  *)
(*                                                                         *)
(* A file is named by its place in the directory and keeps its identity    *)
(* when it is renamed, so a descriptor opened before a rotation writes     *)
(* where the file has gone.  A record is as long as any other.  Signatures *)
(* stay out: a record is sound, or the poison record of a failure.         *)
(***************************************************************************)
EXTENDS SequencesExt

CONSTANTS
  Writers,    \* the threads that log events
  Processes,
  Peers,
  Home,       \* the process of each writer
  Peer,       \* the peer each writer logs for
  MaxFiles,   \* STRANDS_MESH_AUDIT_MAX_FILES: how many rotated files are kept
  FileSize,   \* STRANDS_MESH_AUDIT_MAX_BYTES, in records
  MaxEvents,  \* bound on the events of each writer
  MaxFaults   \* bound on crashes and failing calls of the system

ASSUME WritersAssumption ==
  /\ Home \in [Writers -> Processes]
  /\ Peer \in [Writers -> Peers]
ASSUME NumbersAssumption ==
  /\ MaxFiles \in Nat \ {0} /\ FileSize \in Nat \ {0}
  /\ MaxEvents \in [Writers -> Nat] /\ MaxFaults \in Nat

NoOne == "nobody"
ASSUME NoOneAssumption == NoOne \notin Writers

VARIABLES
  \* the directory
  sidecar,  \* mesh_audit.seq.json: the last number of each peer, 0 for none
  flock,    \* the holder of mesh_audit.seq.lock
  content,  \* the records of each file ever created, in the order of creation
  dir,      \* the file at each place: 0 the active one, n its rotation .n;
            \* 0 where there is none
  \* the processes
  counter,  \* _SEQ_COUNTERS of each
  seeded,   \* the processes that have walked the log (audit_log_seeded)
  \* the writers
  pc,       \* how far each is in log_safety_event
  seq,      \* the number it has been given, or 0
  sound,    \* whether its record has the event, or is a poison record
  place,    \* the place its rotation has come to
  fd,       \* the file it has opened
  \* bounds and history
  events,   \* how many events each writer has begun to log
  faults,   \* how many faults there were
  degraded, \* a number was given out without the lock or without the sidecar
  torn      \* a rotation was disturbed by another process or by a crash

numbering == <<sidecar, flock, counter, seeded, degraded>>
files == <<content, dir, torn>>
record == <<seq, sound>>
vars == <<numbering, files, pc, record, place, fd, events, faults>>

Places == 0 .. MaxFiles

\* A record: the writer that made it, its number, and whether a verifier counts
\* it; a poison record is not counted.
Records == [by : Writers, seq : Nat, sound : BOOLEAN]

Init ==
  /\ sidecar = [p \in Peers |-> 0]
  /\ flock = NoOne
  /\ content = <<>>
  /\ dir = [n \in Places |-> 0]
  /\ counter = [q \in Processes |-> [p \in Peers |-> 0]]
  /\ seeded = {}
  /\ pc = [w \in Writers |-> "idle"]
  /\ seq = [w \in Writers |-> 0]
  /\ sound = [w \in Writers |-> TRUE]
  /\ place = [w \in Writers |-> 0]
  /\ fd = [w \in Writers |-> 0]
  /\ events = [w \in Writers |-> 0]
  /\ faults = 0
  /\ degraded = FALSE
  /\ torn = FALSE
-------------------------------------------------------------------------------
(***************************************************************************)
(* Reading: read_audit_log and verify_audit_integrity.                     *)
(***************************************************************************)

Named == {dir[n] : n \in Places} \ {0}

\* Where the records of the log are, and which comes first when the files are
\* read from the highest place down to the active one.
Lines == UNION {{n} \X DOMAIN content[dir[n]] : n \in {m \in Places : dir[m] # 0}}
At(x) == content[dir[x[1]]][x[2]]

\* Variant: the rotated files are read from the newest to the oldest.
PrecedesNewestFirst(x, y) == x[1] < y[1] \/ (x[1] = y[1] /\ x[2] < y[2])

Precedes(x, y) == x[1] > y[1] \/ (x[1] = y[1] /\ x[2] < y[2])

\* Variant: the poison records count.
TrustedWithPoison(p) == {x \in Lines : Peer[At(x).by] = p}

\* The lines of peer p that move the verifier's cursor.
Trusted(p) == {x \in Lines : Peer[At(x).by] = p /\ At(x).sound}

\* The gaps verify_audit_integrity reports in the stream of p: the cursor is the
\* highest number read so far.
Gaps(p) ==
  {<<Max({At(y).seq : y \in {z \in Trusted(p) : Precedes(z, x)}}), At(x).seq>> :
     x \in {z \in Trusted(p) :
              LET before == {At(y).seq : y \in {u \in Trusted(p) : Precedes(u, z)}}
              IN  before # {} /\ At(z).seq # Max(before) + 1}}
-------------------------------------------------------------------------------
(***************************************************************************)
(* The number: _next_seq.                                                  *)
(***************************************************************************)

InSeq(w) == pc[w] \in {"loading", "storing"}
InWrite(w) == pc[w] \in {"measuring", "rotating", "opening", "appending"}

\* The other threads of the process leave w the lock (_SEQ_LOCK, _WRITE_LOCK).
SeqLockFree(w) == \A v \in Writers : Home[v] = Home[w] => ~InSeq(v)
WriteLockFree(w) == \A v \in Writers : Home[v] = Home[w] => ~InWrite(v)

Goto(w, l) == pc' = [pc EXCEPT ![w] = l]
Fault == faults < MaxFaults /\ faults' = faults + 1
Release(w) == flock' = IF flock = w THEN NoOne ELSE flock

\* log_safety_event is called.
Begin(w) ==
  /\ pc[w] = "idle"
  /\ events[w] < MaxEvents[w]
  /\ events' = [events EXCEPT ![w] = @ + 1]
  /\ Goto(w, "called")
  /\ UNCHANGED <<numbering, files, record, place, fd, faults>>

\* _seq_flock.
LockSeq(w) ==
  /\ pc[w] = "called"
  /\ SeqLockFree(w)
  /\ flock = NoOne
  /\ flock' = w
  /\ Goto(w, "loading")
  /\ UNCHANGED <<sidecar, counter, seeded, degraded, files, record, place, fd, events, faults>>

\* The lock file cannot be opened: the writer goes on without.
LockSeqUnguarded(w) ==
  /\ pc[w] = "called"
  /\ SeqLockFree(w)
  /\ Fault
  /\ degraded' = TRUE
  /\ Goto(w, "loading")
  /\ UNCHANGED <<sidecar, flock, counter, seeded, files, record, place, fd, events>>

\* The call that locks raises: the event becomes a poison record without number.
LockSeqFails(w) ==
  /\ pc[w] = "called"
  /\ SeqLockFree(w)
  /\ Fault
  /\ sound' = [sound EXCEPT ![w] = FALSE]
  /\ Goto(w, "numbered")
  /\ UNCHANGED <<numbering, files, seq, place, fd, events>>

\* Variant: the numbers of all peers are taken for those of p.
HighestOfAll(F, p) == Max({0} \cup UNION {{r.seq : r \in ToSet(content[f])} : f \in F})

\* The highest of the numbers of p in the files F, or 0.
Highest(F, p) ==
  Max({0} \cup UNION {{r.seq : r \in {x \in ToSet(content[f]) : Peer[x.by] = p}} : f \in F})

Later(f, g) == [p \in Peers |-> IF f[p] < g[p] THEN g[p] ELSE f[p]]

\* Variant: a process that has its counters does not look at the sidecar again.
LoadOnce(w) ==
  LET q == Home[w] IN
  /\ pc[w] = "loading"
  /\ counter' = [counter EXCEPT ![q] =
                   IF \E p \in Peers : @[p] # 0 THEN @ ELSE Later(@, sidecar)]
  /\ Goto(w, "storing")
  /\ UNCHANGED <<sidecar, flock, seeded, degraded, files, record, place, fd, events, faults>>

\* _load_seq_counters: the sidecar is merged into the counters of the process.
\* If that brings nothing new, the log is walked, once in the life of the
\* process; a file that is renamed meanwhile may be missed.
Load(w) ==
  LET q == Home[w]
      news == \E p \in Peers : sidecar[p] > counter[q][p]
  IN
  /\ pc[w] = "loading"
  /\ IF news \/ q \in seeded
     THEN /\ counter' = [counter EXCEPT ![q] = Later(@, sidecar)]
          /\ UNCHANGED seeded
     ELSE /\ \E F \in SUBSET Named :
               counter' = [counter EXCEPT ![q] = Later(@, [p \in Peers |-> Highest(F, p)])]
          /\ seeded' = seeded \cup {q}
  /\ Goto(w, "storing")
  /\ UNCHANGED <<sidecar, flock, degraded, files, record, place, fd, events, faults>>

\* Variant: the lock is not released.
TakeHolding(w) ==
  LET q == Home[w]
      p == Peer[w]
  IN
  /\ pc[w] = "storing"
  /\ counter' = [counter EXCEPT ![q][p] = @ + 1]
  /\ seq' = [seq EXCEPT ![w] = counter[q][p] + 1]
  /\ Goto(w, "numbered")
  /\ UNCHANGED <<flock, seeded, files, sound, place, fd, events>>

\* The next number is taken and kept in memory ...
Take(w) ==
  LET q == Home[w]
      p == Peer[w]
  IN
  /\ pc[w] = "storing"
  /\ counter' = [counter EXCEPT ![q][p] = @ + 1]
  /\ seq' = [seq EXCEPT ![w] = counter[q][p] + 1]
  /\ Release(w)
  /\ Goto(w, "numbered")
  /\ UNCHANGED <<seeded, files, sound, place, fd, events>>

\* ... and _persist_seq_counters replaces the sidecar, all of it, in one rename.
Store(w) ==
  /\ Take(w)
  /\ sidecar' = counter'[Home[w]]
  /\ UNCHANGED <<degraded, faults>>

\* The sidecar cannot be written; the number is given out all the same.
StoreFails(w) ==
  /\ Take(w)
  /\ Fault
  /\ degraded' = TRUE
  /\ UNCHANGED sidecar

\* The payload cannot be serialised: a poison record with the number replaces it.
Spoil(w) ==
  /\ pc[w] = "numbered"
  /\ sound[w]
  /\ Fault
  /\ sound' = [sound EXCEPT ![w] = FALSE]
  /\ UNCHANGED <<numbering, files, pc, seq, place, fd, events>>
-------------------------------------------------------------------------------
(***************************************************************************)
(* The record: the second half of log_safety_event.                        *)
(***************************************************************************)

\* The active file is created if it is not there.
Create ==
  IF dir[0] = 0
  THEN /\ content' = Append(content, <<>>)
       /\ dir' = [dir EXCEPT ![0] = Len(content) + 1]
  ELSE UNCHANGED <<content, dir>>

\* Under _WRITE_LOCK, a lock of the process: _ensure_paths.
LockLog(w) ==
  /\ pc[w] = "numbered"
  /\ WriteLockFree(w)
  /\ Create
  /\ Goto(w, "measuring")
  /\ UNCHANGED <<numbering, torn, record, place, fd, events, faults>>

\* The size of the active file decides whether the files are rotated.
Measure(w) ==
  /\ pc[w] = "measuring"
  /\ IF dir[0] # 0 /\ Len(content[dir[0]]) >= FileSize
     THEN /\ place' = [place EXCEPT ![w] = MaxFiles]
          /\ Goto(w, "rotating")
     ELSE /\ Goto(w, "opening")
          /\ UNCHANGED place
  /\ UNCHANGED <<numbering, files, record, fd, events, faults>>

\* The rotation goes down from the highest place to the active file.
GoDown(w) ==
  /\ pc[w] = "rotating"
  /\ IF place[w] = 0
     THEN /\ Goto(w, "opening")
          /\ UNCHANGED place
     ELSE /\ place' = [place EXCEPT ![w] = @ - 1]
          /\ UNCHANGED pc
  /\ UNCHANGED <<numbering, content, record, fd, events>>

\* Variant: the file that belongs at the highest place is removed instead.
ShiftShort(w) ==
  LET n == place[w] IN
  /\ GoDown(w)
  /\ IF dir[n] = 0 THEN UNCHANGED dir
     ELSE IF n + 1 >= MaxFiles
     THEN dir' = [dir EXCEPT ![n] = 0]
     ELSE dir' = [dir EXCEPT ![n + 1] = dir[n], ![n] = 0]
  /\ torn' = (torn \/ \E v \in Writers \ {w} : pc[v] = "rotating")
  /\ UNCHANGED faults

\* _rotate_log_if_needed: the file moves up by one place, over whatever is
\* there, and from the highest place it is removed.
Shift(w) ==
  LET n == place[w] IN
  /\ GoDown(w)
  /\ IF dir[n] = 0 THEN UNCHANGED dir
     ELSE IF n = MaxFiles
     THEN dir' = [dir EXCEPT ![n] = 0]
     ELSE dir' = [dir EXCEPT ![n + 1] = dir[n], ![n] = 0]
  /\ torn' = (torn \/ \E v \in Writers \ {w} : pc[v] = "rotating")
  /\ UNCHANGED faults

\* A rename or a removal fails, and the rotation goes on.
ShiftFails(w) ==
  /\ GoDown(w)
  /\ Fault
  /\ torn' = TRUE
  /\ UNCHANGED dir

Open(w) ==
  /\ pc[w] = "opening"
  /\ Create
  /\ fd' = [fd EXCEPT ![w] = dir'[0]]
  /\ Goto(w, "appending")
  /\ UNCHANGED <<numbering, torn, record, place, events, faults>>

\* The writers in W are done with their events.
Reset(W) ==
  /\ pc' = [w \in Writers |-> IF w \in W THEN "idle" ELSE pc[w]]
  /\ seq' = [w \in Writers |-> IF w \in W THEN 0 ELSE seq[w]]
  /\ sound' = [w \in Writers |-> IF w \in W THEN TRUE ELSE sound[w]]
  /\ place' = [w \in Writers |-> IF w \in W THEN 0 ELSE place[w]]
  /\ fd' = [w \in Writers |-> IF w \in W THEN 0 ELSE fd[w]]

\* One write, to the file as it was opened.
Write(w) ==
  /\ pc[w] = "appending"
  /\ content' = [content EXCEPT ![fd[w]] =
                   Append(@, [by |-> w, seq |-> seq[w], sound |-> sound[w]])]
  /\ Reset({w})
  /\ UNCHANGED <<numbering, dir, torn, events, faults>>

\* A call of the system raises, and the record is dropped with a warning.
Drop(w) ==
  /\ pc[w] \in {"opening", "appending"}
  /\ Fault
  /\ Reset({w})
  /\ UNCHANGED <<numbering, files, events>>

\* Process q ends at any point, which frees its locks, and is started again.
Crash(q) ==
  LET W == {w \in Writers : Home[w] = q} IN
  /\ Fault
  /\ Reset(W)
  /\ flock' = IF flock \in W THEN NoOne ELSE flock
  /\ counter' = [counter EXCEPT ![q] = [p \in Peers |-> 0]]
  /\ seeded' = seeded \ {q}
  /\ torn' = (torn \/ \E w \in W : pc[w] = "rotating")
  /\ UNCHANGED <<sidecar, degraded, content, dir, events>>
-------------------------------------------------------------------------------
\* A step of a call under way in which nothing fails.
Step(w) ==
  \/ LockSeq(w) \/ Load(w) \/ Store(w)
  \/ LockLog(w) \/ Measure(w) \/ Shift(w) \/ Open(w) \/ Write(w)

Failure(w) ==
  \/ LockSeqUnguarded(w) \/ LockSeqFails(w) \/ StoreFails(w) \/ Spoil(w)
  \/ ShiftFails(w) \/ Drop(w)

Next ==
  \/ \E w \in Writers : Begin(w) \/ Step(w) \/ Failure(w)
  \/ \E q \in Processes : Crash(q)

Spec == Init /\ [][Next]_vars
-------------------------------------------------------------------------------
TypeOK ==
  /\ sidecar \in [Peers -> Nat]
  /\ flock \in Writers \cup {NoOne}
  /\ content \in Seq(Seq(Records))
  /\ dir \in [Places -> 0 .. Len(content)]
  /\ counter \in [Processes -> [Peers -> Nat]]
  /\ seeded \subseteq Processes
  /\ pc \in [Writers -> {"idle", "called", "loading", "storing", "numbered",
               "measuring", "rotating", "opening", "appending"}]
  /\ seq \in [Writers -> Nat]
  /\ sound \in [Writers -> BOOLEAN]
  /\ place \in [Writers -> Places]
  /\ fd \in [Writers -> 0 .. Len(content)]
  /\ \A w \in Writers :
       /\ flock = w => InSeq(w)
       /\ pc[w] = "appending" <=> fd[w] # 0
  /\ events \in [Writers -> Nat]
  /\ \A w \in Writers : events[w] <= MaxEvents[w]
  /\ faults \in 0 .. MaxFaults
  /\ degraded \in BOOLEAN
  /\ torn \in BOOLEAN

\* The records ever written, by file and line.
AllLines == UNION {{f} \X DOMAIN content[f] : f \in DOMAIN content}
Record(x) == content[x[1]][x[2]]
PeerOf(x) == Peer[Record(x).by]

(***************************************************************************)
(* No two events of a peer get the same number, whichever threads and      *)
(* processes they come from and whatever crashes in between, unless the    *)
(* lock or the sidecar failed.  A file that was removed counts as well.    *)
(***************************************************************************)
NumbersAreUnique ==
  ~degraded =>
    /\ \A v, w \in Writers : seq[w] # 0 /\ seq[w] = seq[v] /\ Peer[v] = Peer[w] => v = w
    /\ \A x \in AllLines : Record(x).seq # 0 =>
         /\ \A w \in Writers : seq[w] = Record(x).seq => Peer[w] # PeerOf(x)
         /\ \A y \in AllLines :
              Record(y).seq = Record(x).seq /\ PeerOf(y) = PeerOf(x) => x = y

(***************************************************************************)
(* The numbers a peer is given are consecutive: whatever a process had in  *)
(* its memory, found in the log or lost in a crash, a step that writes the *)
(* sidecar takes the one number that comes next for one peer, and leaves   *)
(* the other peers theirs.  A number that was skipped would be a gap.      *)
(***************************************************************************)
NumbersAreConsecutive ==
  [][~degraded' /\ sidecar' # sidecar =>
       \E w \in Writers :
         /\ sidecar' = [sidecar EXCEPT ![Peer[w]] = @ + 1]
         /\ seq'[w] = sidecar'[Peer[w]]]_vars

(***************************************************************************)
(* The log gives the events of one thread back in the order in which it    *)
(* logged them, although other processes rename the files beneath it and   *)
(* may even rename them at the same time.                                  *)
(***************************************************************************)
ReadsInOrder ==
  ~degraded =>
    \A x, y \in Lines :
      Precedes(x, y) /\ At(x).by = At(y).by /\ At(x).seq # 0 /\ At(y).seq # 0
        => At(x).seq < At(y).seq

(***************************************************************************)
(* What the verifier reports as a gap is never made by the order of the    *)
(* records alone, for a peer whose events one thread logs: no sound record *)
(* in the log has a number between the two it names, before or after them, *)
(* whatever was renamed meanwhile.  A poison record may have one: it is    *)
(* not trusted, and the gap is reported all the same.                      *)
(***************************************************************************)
GapsAreReal ==
  ~degraded =>
    \A p \in Peers : (\E w \in Writers : {v \in Writers : Peer[v] = p} = {w}) =>
      \A gap \in Gaps(p) :
        /\ gap[1] + 1 < gap[2]
        /\ \A x \in Trusted(p) : At(x).seq <= gap[1] \/ At(x).seq >= gap[2]

(***************************************************************************)
(* A rotation removes the oldest file and no other: the last files, as     *)
(* many as are to be kept, stay in the directory at every step, unless two *)
(* processes rotate at once, one crashes in the middle or a rename fails.  *)
(***************************************************************************)
RetainedWindow ==
  ~torn => \A f \in DOMAIN content : f + MaxFiles > Len(content) => f \in Named
===============================================================================
