---------------------------- MODULE JournalLock ----------------------------
(***************************************************************************)
(* The runtime's JSONL journal and the lock file beside it                 *)
(* (RuntimeJournal in moxi-runtime): sessions that open, append to, replay *)
(* and close the journal, and operators who call clear_stale_lock.         *)
(*                                                                         *)
(* The lock is the existence of a file.  It is created empty (create_new), *)
(* its owner is written by a second step, and Drop removes whatever file   *)
(* has that path.  A record reaches the journal in three parts, and the    *)
(* process may die, or the write fail, between any two of them.            *)
(***************************************************************************)
EXTENDS Naturals, Sequences, FiniteSets, SequencesExt

CONSTANTS Sessions,     \* processes that open the journal; a dead one stays dead
          Operators,    \* callers of clear_stale_lock
          StaleAge,     \* older_than_ms of the cleanup
          MaxRecords,   \* bound: appends begun
          MaxTime,      \* bound: the clock
          Null

ASSUME ParameterAssumption ==
    /\ StaleAge \in Nat /\ MaxRecords \in Nat /\ MaxTime \in Nat
    /\ Null \notin Nat
    /\ Null \notin [owner : Sessions, created : Nat \cup {Null}]

VARIABLES lock,      \* the file at lock_path, or Null
          pc,        \* where each session is
          view,      \* records a session replayed and saw appended, Null if it did not replay
          seen,      \* operators that read a stale lock and will remove the file
          lines,     \* the journal: lines of fragments, the last one unterminated
          begun,     \* number of appends begun: record ids
          record,    \* the record each session appends or appended last
          acked,     \* history: records whose append returned Ok, in order
          torn,      \* history: some append was cut short
          evicted,   \* history: a cleanup removed the lock of a session that held it
          now

journal == <<lines, begun, record, acked, torn>>
vars == <<lock, pc, view, seen, journal, evicted, now>>

\* The lock file: who created it, and created_at once the info is written.
Lock == [owner : Sessions, created : Nat \cup {Null}]

Part == {"head", "rest"}

SessionState == {"closed", "created", "informed", "opened", "idle",
                 "head", "rest", "dropping", "dead"}

\* States in which a session holds the journal's writer.
Writing == {"opened", "idle", "head", "rest"}

Init ==
    /\ lock = Null
    /\ pc = [s \in Sessions |-> "closed"]
    /\ view = [s \in Sessions |-> Null]
    /\ seen = {}
    /\ lines = << << >> >>
    /\ begun = 0
    /\ record = [s \in Sessions |-> 0]
    /\ acked = << >>
    /\ torn = FALSE
    /\ evicted = FALSE
    /\ now = 0

Goto(s, state) == pc' = [pc EXCEPT ![s] = state]

----------------------------------------------------------------------------
(* Opening: the lock file, its info, the journal.                           *)

CreateLock_Existing(s) ==
    /\ pc[s] = "closed"
    /\ lock' = [owner |-> s, created |-> Null]
    /\ Goto(s, "created")
    /\ UNCHANGED <<view, seen, journal, evicted, now>>

\* create_new; an existing file is JournalLocked and changes nothing.
CreateLock(s) ==
    /\ pc[s] = "closed"
    /\ lock = Null
    /\ lock' = [owner |-> s, created |-> Null]
    /\ Goto(s, "created")
    /\ UNCHANGED <<view, seen, journal, evicted, now>>

\* write_lock_info goes to the file this session created, which may have
\* lost its name meanwhile.
WriteLockInfo(s) ==
    /\ pc[s] = "created"
    /\ lock' = IF lock # Null /\ lock.owner = s THEN [lock EXCEPT !.created = now] ELSE lock
    /\ Goto(s, "informed")
    /\ UNCHANGED <<view, seen, journal, evicted, now>>

\* The `?` after write_lock_info returns without removing the lock file.
WriteLockInfoFails(s) ==
    /\ pc[s] = "created"
    /\ Goto(s, "closed")
    /\ UNCHANGED <<lock, view, seen, journal, evicted, now>>

OpenJournal(s) ==
    /\ pc[s] = "informed"
    /\ Goto(s, "opened")
    /\ UNCHANGED <<lock, view, seen, journal, evicted, now>>

\* The journal cannot be opened: the lock file is removed.
OpenJournalFails(s) ==
    /\ pc[s] = "informed"
    /\ Goto(s, "dropping")
    /\ UNCHANGED <<lock, view, seen, journal, evicted, now>>

----------------------------------------------------------------------------
(* Replay.                                                                  *)

WholeLine(line) == \E r \in 1..begun : line = << <<r, "head">>, <<r, "rest">> >>

\* Every line that is not blank parses.
Readable == \A i \in 1..Len(lines) : lines[i] = << >> \/ WholeLine(lines[i])

\* The k-th line that is not blank, and the records of these lines.
Nth(full, k) == CHOOSE i \in full : Cardinality({j \in full : j <= i}) = k
Records(ls) ==
    LET full == {i \in 1..Len(ls) : ls[i] # << >>}
    IN  [k \in 1..Cardinality(full) |-> ls[Nth(full, k)][1][1]]

\* with_journal starts from nothing.
StartFresh(s) ==
    /\ pc[s] = "opened"
    /\ Goto(s, "idle")
    /\ view' = [view EXCEPT ![s] = Null]
    /\ UNCHANGED <<lock, seen, journal, evicted, now>>

StartReplayed_DropsLast(s) ==
    /\ pc[s] = "opened"
    /\ Readable
    /\ Goto(s, "idle")
    /\ view' = [view EXCEPT ![s] = Records(SubSeq(lines, 1, Len(lines) - 2))]
    /\ UNCHANGED <<lock, seen, journal, evicted, now>>

StartReplayed_SkipsBad(s) ==
    /\ pc[s] = "opened"
    /\ Goto(s, "idle")
    /\ view' = [view EXCEPT ![s] = Records(SelectSeq(lines, WholeLine))]
    /\ UNCHANGED <<lock, seen, journal, evicted, now>>

\* with_replayed_journal: a line that does not parse fails the whole replay,
\* and the journal just opened is dropped.
StartReplayed(s) ==
    /\ pc[s] = "opened"
    /\ IF Readable
       THEN Goto(s, "idle") /\ view' = [view EXCEPT ![s] = Records(lines)]
       ELSE Goto(s, "dropping") /\ UNCHANGED view
    /\ UNCHANGED <<lock, seen, journal, evicted, now>>

----------------------------------------------------------------------------
(* append: part of the JSON text, the rest of it, the newline.              *)

\* The journal is opened for appending: a fragment goes to its end.
Put(fragment) == lines' = [lines EXCEPT ![Len(lines)] = Append(@, fragment)]

BeginAppend(s) ==
    /\ pc[s] = "idle"
    /\ begun < MaxRecords
    /\ begun' = begun + 1
    /\ record' = [record EXCEPT ![s] = begun + 1]
    /\ Put(<<begun + 1, "head">>)
    /\ Goto(s, "head")
    /\ UNCHANGED <<lock, view, seen, acked, torn, evicted, now>>

WriteRest(s) ==
    /\ pc[s] = "head"
    /\ Put(<<record[s], "rest">>)
    /\ Goto(s, "rest")
    /\ UNCHANGED <<lock, view, seen, begun, record, acked, torn, evicted, now>>

\* The newline ends the line and append returns Ok; the session has the
\* record in its own task store and event stream.
WriteNewline(s) ==
    /\ pc[s] = "rest"
    /\ lines' = Append(lines, << >>)
    /\ acked' = Append(acked, record[s])
    /\ view' = [view EXCEPT ![s] = IF @ = Null THEN Null ELSE Append(@, record[s])]
    /\ Goto(s, "idle")
    /\ UNCHANGED <<lock, seen, begun, record, torn, evicted, now>>

\* A write fails: append returns the error and the session goes on.
AppendFails(s) ==
    /\ pc[s] \in {"head", "rest"}
    /\ torn' = TRUE
    /\ Goto(s, "idle")
    /\ UNCHANGED <<lock, view, seen, lines, begun, record, acked, evicted, now>>

----------------------------------------------------------------------------
(* Closing, dying, and the cleanup of a stale lock.                         *)

BeginDrop(s) ==
    /\ pc[s] = "idle"
    /\ Goto(s, "dropping")
    /\ UNCHANGED <<lock, view, seen, journal, evicted, now>>

\* remove_file(lock_path), whoever created the file that is there now.
Drop(s) ==
    /\ pc[s] = "dropping"
    /\ lock' = Null
    /\ Goto(s, "closed")
    /\ view' = [view EXCEPT ![s] = Null]
    /\ UNCHANGED <<seen, journal, evicted, now>>

\* The process is killed: Drop does not run.
Die(s) ==
    /\ pc[s] # "dead"
    /\ torn' = (torn \/ pc[s] \in {"head", "rest"})
    /\ Goto(s, "dead")
    /\ view' = [view EXCEPT ![s] = Null]
    /\ UNCHANGED <<lock, seen, lines, begun, record, acked, evicted, now>>

\* clear_stale_lock reads the file: a file without its info does not parse,
\* a young one is JournalLockNotStale.  The owner is not looked at.
Stale == lock # Null /\ lock.created # Null /\ now - lock.created >= StaleAge

ReadStaleLock(o) ==
    /\ o \notin seen
    /\ Stale
    /\ seen' = seen \cup {o}
    /\ UNCHANGED <<lock, pc, view, journal, evicted, now>>

\* States in which a session goes on as the owner of the lock file.
Holding == Writing \cup {"created", "informed", "dropping"}

\* ... and then removes the file of that path, whoever created it meanwhile
\* and whether or not its session still works under it.
RemoveStaleLock(o) ==
    /\ o \in seen
    /\ lock' = Null
    /\ seen' = seen \ {o}
    /\ evicted' = (evicted \/ (lock # Null /\ pc[lock.owner] \in Holding))
    /\ UNCHANGED <<pc, view, journal, now>>

Tick ==
    /\ now < MaxTime
    /\ now' = now + 1
    /\ UNCHANGED <<lock, pc, view, seen, journal, evicted>>

Open(s) == CreateLock(s) \/ WriteLockInfo(s) \/ WriteLockInfoFails(s)
             \/ OpenJournal(s) \/ OpenJournalFails(s) \/ StartFresh(s) \/ StartReplayed(s)
Write(s) == BeginAppend(s) \/ WriteRest(s) \/ WriteNewline(s) \/ AppendFails(s)
Close(s) == BeginDrop(s) \/ Drop(s) \/ Die(s)
Clear(o) == ReadStaleLock(o) \/ RemoveStaleLock(o)

Next ==
    \/ \E s \in Sessions : Open(s) \/ Write(s) \/ Close(s)
    \/ \E o \in Operators : Clear(o)
    \/ Tick

Spec == Init /\ [][Next]_vars

----------------------------------------------------------------------------
(* Properties.                                                              *)

\* Every variable has its type, and no lock is dated after now.
TypeOK ==
    /\ lock \in Lock \cup {Null}
    /\ lock # Null /\ lock.created # Null => lock.created <= now
    /\ pc \in [Sessions -> SessionState]
    /\ view \in [Sessions -> Seq(Nat) \cup {Null}]
    /\ seen \subseteq Operators
    /\ lines \in Seq(Seq(Nat \X Part))
    /\ begun \in 0..MaxRecords
    /\ record \in [Sessions -> 0..MaxRecords]
    /\ acked \in Seq(Nat)
    /\ torn \in BOOLEAN
    /\ evicted \in BOOLEAN
    /\ now \in 0..MaxTime

\* At most one session has the journal open for writing (RuntimeJournal::open
\* fails closed while another writer is active), unless a cleanup took the
\* lock of a session that still worked under it.  That is the only way to two
\* writers: not a death at any step, not a failed write of the info, and not
\* a Drop or a failed open, which remove whatever file has the path.
SingleWriter ==
    ~evicted => \A s, t \in Sessions : pc[s] \in Writing /\ pc[t] \in Writing => s = t

\* A session that is between creating the lock and dropping the journal has
\* its own file at lock_path.  Drop and the failed open remove the file
\* without looking: this is what makes it their own.
OwnLock ==
    ~evicted => \A s \in Sessions : pc[s] \in Holding => lock # Null /\ lock.owner = s

\* A session that replayed the journal knows every record ever acknowledged,
\* and no other, as long as it holds the journal and no append was cut short:
\* nobody appends behind its back.
ReplayIsCurrent ==
    \A s \in Sessions : view[s] # Null /\ pc[s] = "idle" => view[s] = acked

\* The lines that are complete are the acknowledged records in order, and the
\* unterminated line holds at most a record in flight.
JournalIsWhatWasAppended ==
    /\ Records(Front(lines)) = acked
    /\ \A i \in 1..Len(lines) - 1 : WholeLine(lines[i])
    /\ lines[Len(lines)] # << >> => \E s \in Sessions : pc[s] \in {"head", "rest"}

\* Sessions that open, die, fail to open and close between two appends, and
\* operators that clear the locks of the dead, lose nothing: neither the file
\* nor a memory, while no append was cut short and no holder was evicted.
NothingIsLost == ~torn /\ ~evicted => ReplayIsCurrent /\ JournalIsWhatWasAppended

\* Appends may be cut short as well.  A session that came through a replay
\* then has every acknowledged record, in order: where the file no longer
\* shows one, because its line continued a torn one, with_replayed_journal
\* fails.  (It may have a record too many: one whose newline was missing.)
\* It fails for good: no call of the journal mends such a line, although
\* README.md:396-398 and docs/status.md:767-769 call journaling recoverable.
IsAcked(r) == r \in Range(acked)
ReplayFailsClosed ==
    ~evicted => \A s \in Sessions :
        view[s] # Null /\ pc[s] = "idle" => SelectSeq(view[s], IsAcked) = acked

\* A line that is neither complete nor the beginning of the record in flight.
InFlight(line) ==
    \E s \in Sessions :
        \/ pc[s] = "head" /\ line = << <<record[s], "head">> >>
        \/ pc[s] = "rest" /\ line = << <<record[s], "head">>, <<record[s], "rest">> >>
Damaged ==
    \E i \in 1..Len(lines) :
        lines[i] # << >> /\ ~WholeLine(lines[i]) /\ ~InFlight(lines[i])
DamageIsFinal == [][Damaged => Damaged']_vars
=============================================================================
