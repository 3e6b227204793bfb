------------------------- MODULE JournalLockProofs -------------------------
(***************************************************************************)
(* The journal has one writer, and loses no acknowledged record, for any   *)
(* number of sessions that die wherever they like and of operators that    *)
(* call clear_stale_lock whenever they like, until one of these calls      *)
(* removes the lock of a session that still works under it.                *)
(***************************************************************************)
EXTENDS JournalLock, FiniteSetTheorems, TLAPS

\* What the argument needs of the types.
LockType ==
    /\ lock \in Lock \cup {Null}
    /\ pc \in [Sessions -> SessionState]
    /\ seen \subseteq Operators
    /\ evicted \in BOOLEAN

HoldsLock(s) == pc[s] \in Holding
Owned == \A s \in Sessions : HoldsLock(s) => lock # Null /\ lock.owner = s

LockInv == LockType /\ (~evicted => Owned)

\* A lock file is never taken for its absence.
LEMMA LockIsNotNull == Null \notin Lock
  BY ParameterAssumption DEF Lock

\* A session that owns the lock file is the only one to hold it.
LEMMA HolderIsUnique ==
    ASSUME Owned, NEW s \in Sessions, NEW t \in Sessions, HoldsLock(s), HoldsLock(t)
    PROVE  s = t
  BY DEF Owned

\* A session moves between holding states, or to one that does not hold;
\* the lock and the operators stay as they are.
LEMMA KeepsLock ==
    ASSUME LockInv, NEW s \in Sessions, NEW state \in SessionState,
           HoldsLock(s) \/ state \in {"closed", "dead"},
           Goto(s, state), UNCHANGED <<lock, seen, evicted>>
    PROVE  LockInv'
  <1>1. LockType'
    BY DEF LockInv, LockType, Goto
  <1>2. Owned => Owned'
    BY DEF LockInv, LockType, Owned, HoldsLock, Holding, Writing, Goto
  <1>3. QED
    BY <1>1, <1>2 DEF LockInv

\* The file is created only when there is none, so no session holds it.
LEMMA CreateLockKeeps ==
    ASSUME LockInv, NEW s \in Sessions, CreateLock(s)
    PROVE  LockInv'
  <1>1. lock' \in Lock /\ lock' # Null /\ lock'.owner = s /\ evicted' = evicted
    BY LockIsNotNull DEF CreateLock, Lock
  <1>2. LockType'
    BY <1>1 DEF LockInv, LockType, CreateLock, Goto, SessionState
  <1>3. Owned => Owned'
    BY <1>1 DEF LockInv, LockType, Owned, HoldsLock, Holding, Writing, CreateLock, Goto
  <1>4. QED
    BY <1>1, <1>2, <1>3 DEF LockInv

\* The info is written to the file of the session that created it, whatever
\* file has the path now.
LEMMA WriteLockInfoKeeps ==
    ASSUME LockInv, now \in Nat, NEW s \in Sessions, WriteLockInfo(s)
    PROVE  LockInv'
  <1>1. evicted' = evicted
    BY DEF WriteLockInfo
  <1>2. CASE lock # Null /\ lock.owner = s
    <2>1. lock' = [lock EXCEPT !.created = now] /\ lock \in Lock
      BY <1>2 DEF WriteLockInfo, LockInv, LockType
    <2>2. lock' \in Lock /\ lock' # Null /\ lock'.owner = s
      BY <1>2, <2>1, LockIsNotNull DEF Lock
    <2>3. LockType'
      BY <1>1, <2>2 DEF LockInv, LockType, WriteLockInfo, Goto, SessionState
    <2>4. Owned => Owned'
      BY <1>2, <2>2 DEF LockInv, LockType, Owned, HoldsLock, Holding, Writing, WriteLockInfo, Goto
    <2>5. QED
      BY <1>1, <2>3, <2>4 DEF LockInv
  <1>3. CASE ~(lock # Null /\ lock.owner = s)
    BY <1>3, KeepsLock DEF WriteLockInfo, SessionState, HoldsLock, Holding
  <1>4. QED
    BY <1>2, <1>3

\* A session that drops the journal removes its own file, as long as no
\* holder was evicted: afterwards it may remove another's.
LEMMA DropKeeps ==
    ASSUME LockInv, NEW s \in Sessions, Drop(s)
    PROVE  LockInv'
  <1>1. LockType' /\ evicted' = evicted
    BY DEF LockInv, LockType, Drop, Goto, SessionState
  <1>2. ASSUME Owned PROVE Owned'
    <2>1. HoldsLock(s) /\ lock # Null /\ lock.owner = s
      BY <1>2 DEF Owned, HoldsLock, Holding, Drop
    <2>2. \A t \in Sessions : ~HoldsLock(t)'
      BY <1>2, <2>1 DEF LockInv, LockType, Owned, HoldsLock, Holding, Writing, Drop, Goto
    <2>3. QED
      BY <2>2 DEF Owned
  <1>3. QED
    BY <1>1, <1>2 DEF LockInv

\* The cleanup removes a file that nobody holds, or evicts the one holder.
LEMMA ClearKeeps ==
    ASSUME LockInv, NEW o \in Operators, Clear(o)
    PROVE  LockInv'
  <1>1. CASE ReadStaleLock(o)
    BY <1>1 DEF LockInv, LockType, Owned, HoldsLock, ReadStaleLock
  <1>2. CASE RemoveStaleLock(o)
    <2>1. LockType'
      BY <1>2 DEF LockInv, LockType, RemoveStaleLock
    <2>2. ASSUME ~evicted' PROVE Owned'
      <3>1. Owned /\ ~(lock # Null /\ pc[lock.owner] \in Holding)
        BY <1>2, <2>2 DEF LockInv, RemoveStaleLock
      <3>2. \A s \in Sessions : ~HoldsLock(s)
        BY <3>1 DEF Owned, HoldsLock
      <3>3. QED
        BY <1>2, <3>2 DEF Owned, HoldsLock, RemoveStaleLock
    <2>3. QED
      BY <2>1, <2>2 DEF LockInv
  <1>3. QED
    BY <1>1, <1>2 DEF Clear

\* The clock is a natural number, which the info of a lock takes over.
LEMMA ClockIsNat == Spec => [](now \in Nat)
  <1>1. Init => now \in Nat
    BY DEF Init
  <1>2. now \in Nat /\ [Next]_vars => (now \in Nat)'
    <2>1. ASSUME NEW s \in Sessions, Open(s) PROVE now' = now
      BY <2>1 DEF Open, CreateLock, WriteLockInfo, WriteLockInfoFails, OpenJournal,
         OpenJournalFails, StartFresh, StartReplayed
    <2>2. ASSUME NEW s \in Sessions, Write(s) PROVE now' = now
      BY <2>2 DEF Write, BeginAppend, WriteRest, WriteNewline, AppendFails
    <2>3. ASSUME NEW s \in Sessions, Close(s) PROVE now' = now
      BY <2>3 DEF Close, BeginDrop, Drop, Die
    <2>4. ASSUME NEW o \in Operators, Clear(o) PROVE now' = now
      BY <2>4 DEF Clear, ReadStaleLock, RemoveStaleLock
    <2>5. QED
      BY <2>1, <2>2, <2>3, <2>4 DEF Next, Tick, vars
  <1>3. QED
    BY <1>1, <1>2, PTL DEF Spec

\* Every step of any session and of any operator keeps the ownership of the
\* lock, or is the first to break it.
LEMMA NextKeeps ==
    ASSUME LockInv, now \in Nat, [Next]_vars
    PROVE  LockInv'
  <1>1. ASSUME NEW s \in Sessions, Open(s) PROVE LockInv'
    <2>1. CASE CreateLock(s)
      BY <2>1, CreateLockKeeps
    <2>2. CASE WriteLockInfo(s)
      BY <2>2, WriteLockInfoKeeps
    <2>3. CASE WriteLockInfoFails(s)
      BY <2>3, KeepsLock DEF WriteLockInfoFails, SessionState
    <2>4. CASE OpenJournal(s)
      BY <2>4, KeepsLock DEF OpenJournal, SessionState, HoldsLock, Holding
    <2>5. CASE OpenJournalFails(s)
      BY <2>5, KeepsLock DEF OpenJournalFails, SessionState, HoldsLock, Holding
    <2>6. CASE StartFresh(s)
      BY <2>6, KeepsLock DEF StartFresh, SessionState, HoldsLock, Holding, Writing
    <2>7. CASE StartReplayed(s)
      BY <2>7, KeepsLock DEF StartReplayed, SessionState, HoldsLock, Holding, Writing
    <2>8. QED
      BY <1>1, <2>1, <2>2, <2>3, <2>4, <2>5, <2>6, <2>7 DEF Open
  <1>2. ASSUME NEW s \in Sessions, Write(s) PROVE LockInv'
    BY <1>2, KeepsLock DEF Write, BeginAppend, WriteRest, WriteNewline, AppendFails,
       SessionState, HoldsLock, Holding, Writing
  <1>3. ASSUME NEW s \in Sessions, Close(s) PROVE LockInv'
    <2>1. CASE BeginDrop(s)
      BY <2>1, KeepsLock DEF BeginDrop, SessionState, HoldsLock, Holding, Writing
    <2>2. CASE Drop(s)
      BY <2>2, DropKeeps
    <2>3. CASE Die(s)
      BY <2>3, KeepsLock DEF Die, SessionState
    <2>4. QED
      BY <1>3, <2>1, <2>2, <2>3 DEF Close
  <1>4. ASSUME NEW o \in Operators, Clear(o) PROVE LockInv'
    BY <1>4, ClearKeeps
  <1>5. CASE Tick
    BY <1>5 DEF LockInv, LockType, Owned, HoldsLock, Tick
  <1>6. CASE UNCHANGED vars
    BY <1>6 DEF LockInv, LockType, Owned, HoldsLock, vars
  <1>7. QED
    BY <1>1, <1>2, <1>3, <1>4, <1>5, <1>6 DEF Next

\* The inductive invariant: for any number of sessions, whenever they die.
THEOREM LockOwnership == Spec => []LockInv
  <1>1. Init => LockInv
    BY DEF Init, LockInv, LockType, Owned, HoldsLock, Holding, Writing, SessionState
  <1>2. LockInv /\ now \in Nat /\ [Next]_vars => LockInv'
    BY NextKeeps
  <1>3. QED
    BY <1>1, <1>2, ClockIsNat, PTL DEF Spec

\* RuntimeJournal::open fails closed while another writer is active: at most
\* one session writes to the journal.
THEOREM OneWriter == Spec => []SingleWriter
  <1>1. LockInv => SingleWriter
    BY HolderIsUnique DEF LockInv, SingleWriter, HoldsLock, Holding
  <1>2. QED
    BY <1>1, LockOwnership, PTL

\* Until a holder is evicted, a session that holds the journal has its own lock
\* file.
THEOREM LockIsOwn == Spec => []OwnLock
  <1>1. LockInv => OwnLock
    BY DEF LockInv, OwnLock, Owned, HoldsLock
  <1>2. QED
    BY <1>1, LockOwnership, PTL

-----------------------------------------------------------------------------
(* The journal's lines.                                                     *)

Fragments == Nat \X Part
Appending == {"head", "rest"}

\* No line has a fragment of a record that is not begun.
Begun(line) == \A k \in 1..Len(line) : line[k][1] <= begun

LineInv ==
    /\ begun \in Nat /\ record \in [Sessions -> Nat] /\ pc \in [Sessions -> SessionState]
    /\ lines \in Seq(Seq(Fragments)) /\ Len(lines) > 0
    /\ \A i \in 1..Len(lines) : Begun(lines[i])
    /\ \A s \in Sessions : pc[s] \in Appending => record[s] \in 1..begun

\* A fragment written to the end of a file lengthens its last line only.
LEMMA PutLengthens ==
    ASSUME NEW S, NEW ls \in Seq(Seq(S)), Len(ls) > 0, NEW f \in S,
           NEW put, put = [ls EXCEPT ![Len(ls)] = Append(@, f)]
    PROVE  /\ put \in Seq(Seq(S)) /\ Len(put) = Len(ls)
           /\ \A i \in 1..Len(ls) : i # Len(ls) => put[i] = ls[i]
           /\ put[Len(ls)] = Append(ls[Len(ls)], f)
  <1>1. Len(ls) \in 1..Len(ls) /\ ls[Len(ls)] \in Seq(S)
    OBVIOUS
  <1>2. Append(ls[Len(ls)], f) \in Seq(S)
    BY <1>1
  <1>3. QED
    BY <1>1, <1>2

LEMMA FragmentOf ==
    ASSUME NEW line \in Seq(Fragments), NEW k \in 1..Len(line)
    PROVE  line[k] \in Fragments /\ line[k][1] \in Nat
  <1>1. line[k] \in Fragments
    OBVIOUS
  <1>2. QED
    BY <1>1 DEF Fragments

\* What an appended fragment adds to a line, and what it leaves.
LEMMA Lengthened ==
    ASSUME NEW S, NEW line \in Seq(S), NEW f \in S
    PROVE  /\ Append(line, f) \in Seq(S) /\ Len(Append(line, f)) = Len(line) + 1
           /\ Append(line, f)[Len(line) + 1] = f /\ Len(line) \in Nat
           /\ \A k \in 1..Len(line) : Append(line, f)[k] = line[k]
  OBVIOUS

LEMMA LengthenedIsBounded ==
    ASSUME NEW line \in Seq(Fragments), NEW f \in Fragments, NEW b \in Nat, NEW c \in Nat,
           b <= c, f[1] <= c, \A k \in 1..Len(line) : line[k][1] <= b
    PROVE  \A k \in 1..Len(Append(line, f)) : Append(line, f)[k][1] <= c
  <1> DEFINE longer == Append(line, f)
  <1>1. /\ Len(longer) = Len(line) + 1 /\ longer[Len(line) + 1] = f /\ Len(line) \in Nat
        /\ \A k \in 1..Len(line) : longer[k] = line[k]
    BY Lengthened
  <1>2. \A k \in 1..Len(line) : line[k][1] \in Nat
    BY FragmentOf
  <1>3. ASSUME NEW k \in 1..Len(longer) PROVE longer[k][1] <= c
    <2>1. CASE k \in 1..Len(line)
      BY <1>1, <1>2, <2>1
    <2>2. CASE k = Len(line) + 1
      BY <1>1, <2>2
    <2>3. QED
      BY <1>1, <2>1, <2>2
  <1>4. QED
    BY <1>3

\* A record begun after a torn fragment makes no line complete, nor one that
\* could be completed.
LEMMA HeadAfterFragment ==
    ASSUME NEW line \in Seq(Fragments), line # << >>, NEW n, <<n, "head">> \in Fragments, NEW r
    PROVE  /\ Append(line, <<n, "head">>) # << >>
           /\ Append(line, <<n, "head">>) # << <<r, "head">> >>
           /\ Append(line, <<n, "head">>) # << <<r, "head">>, <<r, "rest">> >>
  <1> DEFINE longer == Append(line, <<n, "head">>)
  <1>1. Len(longer) = Len(line) + 1 /\ longer[Len(line) + 1] = <<n, "head">> /\ Len(line) \in Nat
    BY Lengthened
  <1>2. Len(line) # 0
    OBVIOUS
  <1> HIDE DEF longer
  <1>3. longer # << >> /\ longer # << <<r, "head">> >>
    BY <1>1, <1>2
  <1>4. ASSUME longer = << <<r, "head">>, <<r, "rest">> >> PROVE FALSE
    <2>1. Len(longer) = 2 /\ longer[2] = <<r, "rest">>
      BY <1>4
    <2>2. QED
      BY <1>1, <2>1
  <1>5. QED
    BY <1>3, <1>4 DEF longer

\* A rest completes only the head it belongs to.
LEMMA RestAfterFragment ==
    ASSUME NEW line \in Seq(Fragments), line # << >>, NEW n, <<n, "rest">> \in Fragments, NEW r
    PROVE  /\ Append(line, <<n, "rest">>) # << >>
           /\ Append(line, <<n, "rest">>) # << <<r, "head">> >>
           /\ Append(line, <<n, "rest">>) = << <<r, "head">>, <<r, "rest">> >>
                 => line = << <<n, "head">> >>
  <1> DEFINE longer == Append(line, <<n, "rest">>)
  <1>1. /\ Len(longer) = Len(line) + 1 /\ longer[Len(line) + 1] = <<n, "rest">> /\ Len(line) \in Nat
        /\ \A k \in 1..Len(line) : longer[k] = line[k]
    BY Lengthened
  <1>2. Len(line) # 0
    OBVIOUS
  <1> HIDE DEF longer
  <1>3. longer # << >> /\ longer # << <<r, "head">> >>
    BY <1>1, <1>2
  <1>4. ASSUME longer = << <<r, "head">>, <<r, "rest">> >> PROVE line = << <<n, "head">> >>
    <2>1. Len(longer) = 2 /\ longer[1] = <<r, "head">> /\ longer[2] = <<r, "rest">>
      BY <1>4
    <2>2. Len(line) = 1
      <3>1. Len(line) + 1 = 2 /\ Len(line) \in Nat
        BY <1>1, <2>1
      <3>2. \A m \in Nat : m + 1 = 2 => m = 1
        OBVIOUS
      <3>3. QED
        BY <3>1, <3>2, Zenon
    <2>3. <<n, "rest">> = <<r, "rest">> /\ line[1] = <<r, "head">>
      BY <1>1, <2>1, <2>2
    <2>4. n = r
      BY <2>3
    <2>5. QED
      BY <2>2, <2>3, <2>4
  <1>5. QED
    BY <1>3, <1>4 DEF longer

\* A step that writes nothing and starts no append.
Quiet ==
    /\ UNCHANGED <<lines, begun, record>>
    /\ pc' \in [Sessions -> SessionState]
    /\ \A s \in Sessions : pc'[s] \in Appending => pc'[s] = pc[s]

LEMMA QuietKeepsLines ==
    ASSUME LineInv, Quiet
    PROVE  LineInv' /\ (Damaged => Damaged')
  <1>1. LineInv'
    BY DEF LineInv, Quiet, Begun
  <1>2. \A line : WholeLine(line)' <=> WholeLine(line)
    BY DEF Quiet, WholeLine
  <1>3. \A line : InFlight(line)' => InFlight(line)
    BY DEF Quiet, InFlight, Appending
  <1>4. Damaged => Damaged'
    BY <1>2, <1>3 DEF Damaged, Quiet
  <1>5. QED
    BY <1>1, <1>4

LEMMA GotoIsQuiet ==
    ASSUME LineInv, NEW s \in Sessions, NEW state \in SessionState \ Appending,
           Goto(s, state), UNCHANGED <<lines, begun, record>>
    PROVE  Quiet
  BY DEF LineInv, Goto, Quiet

\* A fragment begins a record: on a blank line, or after what was torn.
LEMMA BeginAppendLines ==
    ASSUME LineInv, NEW s \in Sessions, BeginAppend(s)
    PROVE  LineInv' /\ (Damaged => Damaged')
  <1> DEFINE n == Len(lines)
             f == <<begun + 1, "head">>
  <1>1. begun \in Nat /\ lines \in Seq(Seq(Fragments)) /\ n \in Nat /\ n > 0 /\ f \in Fragments
    BY DEF LineInv, Fragments, Part
  <1>2. begun' = begun + 1 /\ record' = [record EXCEPT ![s] = begun + 1]
        /\ pc' = [pc EXCEPT ![s] = "head"] /\ pc[s] = "idle"
        /\ lines' = [lines EXCEPT ![n] = Append(@, f)]
    BY DEF BeginAppend, Put, Goto
  <1>3. /\ lines' \in Seq(Seq(Fragments)) /\ Len(lines') = n
        /\ \A i \in 1..n : i # n => lines'[i] = lines[i]
        /\ lines'[n] = Append(lines[n], f)
    BY <1>1, <1>2, PutLengthens
  <1>4. \A i \in 1..n : lines[i] \in Seq(Fragments)
    BY <1>1
  <1>5. \A i \in 1..n : \A k \in 1..Len(lines[i]) : lines[i][k][1] <= begun /\ lines[i][k][1] \in Nat
    BY <1>4, FragmentOf DEF LineInv, Begun
  <1>6. ASSUME NEW i \in 1..n PROVE Begun(lines[i])'
    <2>1. CASE i # n
      <3>1. \A k \in 1..Len(lines[i]) : lines[i][k][1] <= begun + 1
        BY <1>1, <1>5
      <3>2. QED
        BY <1>2, <1>3, <2>1, <3>1 DEF Begun
    <2>2. CASE i = n
      <3>1. \A k \in 1..Len(lines[n]) : lines[n][k][1] <= begun
        <4>1. Begun(lines[n])
          BY <2>2 DEF LineInv
        <4>2. QED
          BY <4>1 DEF Begun
      <3>2. \A k \in 1..Len(Append(lines[n], f)) : Append(lines[n], f)[k][1] <= begun + 1
        <4>1. f[1] <= begun + 1 /\ begun + 1 \in Nat /\ begun <= begun + 1 /\ lines[n] \in Seq(Fragments)
          BY <1>1, <1>4
        <4>2. QED
          BY <1>1, <3>1, <4>1, LengthenedIsBounded
      <3>3. QED
        BY <1>2, <1>3, <2>2, <3>2 DEF Begun
    <2>3. QED
      BY <2>1, <2>2
  <1>7. LineInv'
    <2>1. record' \in [Sessions -> Nat] /\ pc' \in [Sessions -> SessionState]
      BY <1>1, <1>2 DEF LineInv, SessionState
    <2>2. \A t \in Sessions : pc'[t] \in Appending => record'[t] \in 1..begun'
      BY <1>1, <1>2 DEF LineInv
    <2>3. QED
      BY <1>1, <1>2, <1>3, <1>6, <2>1, <2>2 DEF LineInv
  <1>8. ASSUME NEW i \in 1..n, lines[i] # << >>, ~WholeLine(lines[i]), ~InFlight(lines[i])
        PROVE  lines'[i] # << >> /\ ~WholeLine(lines[i])' /\ ~InFlight(lines[i])'
    <2>1. CASE i # n
      <3>1. lines'[i] = lines[i]
        BY <1>3, <2>1
      <3>2. Len(lines[i]) >= 1
        BY <1>4, <1>8
      <3>3. lines[i][1][1] <= begun /\ lines[i][1][1] \in Nat
        BY <1>4, <1>5, <3>2
      <3>4. lines[i] # << <<begun + 1, "head">>, <<begun + 1, "rest">> >>
            /\ lines[i] # << <<begun + 1, "head">> >>
        BY <1>1, <3>3
      <3>5. ~WholeLine(lines[i])'
        <4>1. 1..begun' = 1..begun \cup {begun + 1}
          BY <1>1, <1>2
        <4>2. QED
          BY <1>8, <3>1, <3>4, <4>1 DEF WholeLine
      <3>6. ~InFlight(lines[i])'
        <4>1. ASSUME NEW t \in Sessions, t # s PROVE pc'[t] = pc[t] /\ record'[t] = record[t]
          BY <1>2, <4>1 DEF LineInv
        <4>2. pc'[s] = "head" /\ record'[s] = begun + 1
          BY <1>2 DEF LineInv
        <4>3. QED
          BY <1>8, <3>1, <3>4, <4>1, <4>2 DEF InFlight
      <3>7. QED
        BY <1>8, <3>1, <3>5, <3>6
    <2>2. CASE i = n
      BY <1>1, <1>3, <1>4, <1>8, <2>2, HeadAfterFragment DEF WholeLine, InFlight
    <2>3. QED
      BY <2>1, <2>2
  <1>9. Damaged => Damaged'
    BY <1>3, <1>8 DEF Damaged
  <1>10. QED
    BY <1>7, <1>9

\* The rest of the record in flight completes a line that only it began.
LEMMA WriteRestLines ==
    ASSUME LineInv, NEW s \in Sessions, WriteRest(s)
    PROVE  LineInv' /\ (Damaged => Damaged')
  <1> DEFINE n == Len(lines)
             f == <<record[s], "rest">>
  <1>1. /\ begun \in Nat /\ lines \in Seq(Seq(Fragments)) /\ n \in Nat /\ n > 0
        /\ f \in Fragments /\ record[s] \in 1..begun /\ pc[s] = "head"
    BY DEF LineInv, Fragments, Part, WriteRest, Appending
  <1>2. begun' = begun /\ record' = record /\ pc' = [pc EXCEPT ![s] = "rest"]
        /\ lines' = [lines EXCEPT ![n] = Append(@, f)]
    BY DEF WriteRest, Put, Goto
  <1>3. /\ lines' \in Seq(Seq(Fragments)) /\ Len(lines') = n
        /\ \A i \in 1..n : i # n => lines'[i] = lines[i]
        /\ lines'[n] = Append(lines[n], f)
    BY <1>1, <1>2, PutLengthens
  <1>4. \A i \in 1..n : lines[i] \in Seq(Fragments)
    BY <1>1
  <1>5. pc'[s] = "rest" /\ \A t \in Sessions : t # s => pc'[t] = pc[t]
    BY <1>2 DEF LineInv
  <1>6. LineInv'
    <2>1. pc' \in [Sessions -> SessionState]
      BY <1>2 DEF LineInv, SessionState
    <2>2. \A t \in Sessions : pc'[t] \in Appending => record'[t] \in 1..begun'
      BY <1>1, <1>2 DEF LineInv
    <2>3. ASSUME NEW i \in 1..n PROVE Begun(lines[i])'
      <3>1. CASE i # n
        BY <1>2, <1>3, <3>1 DEF LineInv, Begun
      <3>2. CASE i = n
        <4>1. \A k \in 1..Len(lines[n]) : lines[n][k][1] <= begun
          <5>1. Begun(lines[n])
            BY <1>1 DEF LineInv
          <5> QED
            BY <5>1 DEF Begun
        <4>2. f[1] <= begun /\ begun <= begun /\ lines[n] \in Seq(Fragments)
          BY <1>1, <1>4
        <4>3. \A k \in 1..Len(Append(lines[n], f)) : Append(lines[n], f)[k][1] <= begun
          BY <1>1, <4>1, <4>2, LengthenedIsBounded
        <4>4. QED
          BY <1>2, <1>3, <3>2, <4>3 DEF Begun
      <3>3. QED
        BY <3>1, <3>2
    <2>4. QED
      BY <1>1, <1>2, <1>3, <2>1, <2>2, <2>3 DEF LineInv
  <1>7. ASSUME NEW i \in 1..n, lines[i] # << >>, ~WholeLine(lines[i]), ~InFlight(lines[i])
        PROVE  lines'[i] # << >> /\ ~WholeLine(lines[i])' /\ ~InFlight(lines[i])'
    <2>1. CASE i # n
      <3>1. lines'[i] = lines[i]
        BY <1>3, <2>1
      <3>2. ~WholeLine(lines[i])'
        BY <1>2, <1>7, <3>1 DEF WholeLine
      <3>3. lines[i] # << <<record[s], "head">>, <<record[s], "rest">> >>
        BY <1>1, <1>7 DEF WholeLine
      <3>4. ~InFlight(lines[i])'
        BY <1>2, <1>5, <1>7, <3>1, <3>3 DEF InFlight
      <3>5. QED
        BY <1>7, <3>1, <3>2, <3>4
    <2>2. CASE i = n
      <3>1. lines[n] # << <<record[s], "head">> >>
        BY <1>1, <1>7, <2>2 DEF InFlight
      <3>2. QED
        <4>1. lines[n] \in Seq(Fragments) /\ lines[n] # << >>
          BY <1>4, <1>7, <2>2
        <4>2. \A r : /\ lines'[n] # << >> /\ lines'[n] # << <<r, "head">> >>
                     /\ lines'[n] # << <<r, "head">>, <<r, "rest">> >>
          <5>1. \A r : Append(lines[n], f) = << <<r, "head">>, <<r, "rest">> >>
                          => lines[n] = << <<record[s], "head">> >>
            BY <1>1, <4>1, RestAfterFragment
          <5>2. \A r : Append(lines[n], f) # << >> /\ Append(lines[n], f) # << <<r, "head">> >>
            BY <1>1, <4>1, RestAfterFragment
          <5>3. QED
            BY <1>3, <3>1, <5>1, <5>2
        <4>3. QED
          BY <2>2, <4>2 DEF WholeLine, InFlight
    <2>3. QED
      BY <2>1, <2>2
  <1>8. Damaged => Damaged'
    BY <1>3, <1>7 DEF Damaged
  <1>9. QED
    BY <1>6, <1>8

\* The newline starts a blank line and leaves the others as they are.
LEMMA WriteNewlineLines ==
    ASSUME LineInv, NEW s \in Sessions, WriteNewline(s)
    PROVE  LineInv' /\ (Damaged => Damaged')
  <1>1. begun' = begun /\ record' = record /\ pc' = [pc EXCEPT ![s] = "idle"] /\ lines' = Append(lines, << >>)
    BY DEF WriteNewline, Goto
  <1>2. << >> \in Seq(Fragments) /\ lines \in Seq(Seq(Fragments)) /\ Len(lines) \in Nat
    BY DEF LineInv
  <1>3. /\ lines' \in Seq(Seq(Fragments)) /\ Len(lines') = Len(lines) + 1
        /\ \A i \in 1..Len(lines) : lines'[i] = lines[i]
        /\ lines'[Len(lines) + 1] = << >>
    BY <1>1, <1>2
  <1>4. pc' \in [Sessions -> SessionState]
        /\ \A t \in Sessions : pc'[t] \in Appending => pc'[t] = pc[t]
    BY <1>1 DEF LineInv, SessionState, Appending
  <1>5. ASSUME NEW i \in 1..Len(lines) + 1 PROVE Begun(lines[i])'
    <2>1. CASE i \in 1..Len(lines)
      BY <1>1, <1>3, <2>1 DEF LineInv, Begun
    <2>2. CASE i = Len(lines) + 1
      BY <1>3, <2>2 DEF Begun
    <2>3. QED
      BY <1>2, <2>1, <2>2
  <1>6. LineInv'
    BY <1>1, <1>2, <1>3, <1>4, <1>5 DEF LineInv
  <1>7. ASSUME NEW i \in 1..Len(lines), ~WholeLine(lines[i]), ~InFlight(lines[i])
        PROVE  ~WholeLine(lines[i])' /\ ~InFlight(lines[i])'
    <2>1. lines'[i] = lines[i]
      BY <1>3
    <2>2. ~WholeLine(lines[i])'
      BY <1>1, <1>7, <2>1 DEF WholeLine
    <2>3. \A t \in Sessions : pc'[t] \in {"head", "rest"} => pc'[t] = pc[t] /\ record'[t] = record[t]
      BY <1>1, <1>4 DEF Appending
    <2>4. ~InFlight(lines[i])'
      BY <1>7, <2>1, <2>3 DEF InFlight
    <2> QED
      BY <2>2, <2>4
  <1>8. ASSUME Damaged PROVE Damaged'
    <2>1. PICK i \in 1..Len(lines) : lines[i] # << >> /\ ~WholeLine(lines[i]) /\ ~InFlight(lines[i])
      BY <1>8 DEF Damaged
    <2>2. i \in 1..Len(lines') /\ lines'[i] # << >>
      <3>1. lines'[i] = lines[i] /\ Len(lines') = Len(lines) + 1
        BY <1>3
      <3>2. i \in 1..Len(lines) + 1
        BY <1>2
      <3> QED
        BY <2>1, <3>1, <3>2
    <2>3. QED
      BY <1>7, <2>1, <2>2 DEF Damaged
  <1>9. QED
    BY <1>6, <1>8

LEMMA NextLines ==
    ASSUME LineInv, [Next]_vars
    PROVE  LineInv' /\ (Damaged => Damaged')
  <1>1. ASSUME NEW s \in Sessions, Open(s) PROVE Quiet
    BY <1>1, GotoIsQuiet DEF Open, CreateLock, WriteLockInfo, WriteLockInfoFails, OpenJournal,
       OpenJournalFails, StartFresh, StartReplayed, SessionState, Appending, journal
  <1>2. ASSUME NEW s \in Sessions, Close(s) PROVE Quiet
    BY <1>2, GotoIsQuiet DEF Close, BeginDrop, Drop, Die, SessionState, Appending, journal
  <1>3. ASSUME NEW s \in Sessions, AppendFails(s) PROVE Quiet
    BY <1>3, GotoIsQuiet DEF AppendFails, SessionState, Appending
  <1>4. ASSUME NEW o \in Operators, Clear(o) PROVE Quiet
    BY <1>4 DEF Clear, ReadStaleLock, RemoveStaleLock, Quiet, LineInv, journal
  <1>5. CASE Tick \/ UNCHANGED vars
    BY <1>5, QuietKeepsLines DEF Tick, vars, Quiet, LineInv, journal
  <1>6. QED
    BY <1>1, <1>2, <1>3, <1>4, <1>5, QuietKeepsLines, BeginAppendLines, WriteRestLines, WriteNewlineLines
    DEF Next, Write

\* The lines are made of the fragments of records that were begun.
LEMMA LineInvariance == Spec => []LineInv
  <1>1. Init => LineInv
    BY DEF Init, LineInv, Begun, Fragments, Appending, SessionState
  <1>2. LineInv /\ [Next]_vars => LineInv'
    BY NextLines
  <1>3. QED
    BY <1>1, <1>2, PTL DEF Spec

\* A torn line stays torn, whoever appends to it: a property of the program,
\* not a wish of its documentation, which calls journaling recoverable
\* (README.md:396-398, docs/status.md:767-769).
THEOREM DamageIsForever == Spec => DamageIsFinal
  <1>1. LineInv /\ [Next]_vars => (Damaged => Damaged')
    BY NextLines
  <1>2. QED
    BY <1>1, LineInvariance, PTL DEF DamageIsFinal, Spec

-----------------------------------------------------------------------------
(* What was acknowledged is in the journal, and in every replayed session.  *)

Line(r) == << <<r, "head">>, <<r, "rest">> >>

LEMMA InitialInterval == ASSUME NEW n \in Nat PROVE Cardinality(1..n) = n
  BY FS_Interval

\* Where the lines that are not blank come first, the k-th of them is line k.
LEMMA NthOfInterval ==
    ASSUME NEW n \in Nat, NEW k \in 1..n
    PROVE  Nth(1..n, k) = k
  <1>1. \A i \in 1..n : {j \in 1..n : j <= i} = 1..i
    OBVIOUS
  <1>2. \A i \in 1..n : Cardinality({j \in 1..n : j <= i}) = i
    <2>1. \A i \in 1..n : Cardinality(1..i) = i
      BY InitialInterval
    <2>2. QED
      BY <1>1, <2>1, Zenon
  <1>3. \A i \in 1..n : Cardinality({j \in 1..n : j <= i}) = k <=> i = k
    BY <1>2
  <1>4. QED
    BY <1>3 DEF Nth

LEMMA RecordsInOrder ==
    ASSUME NEW ls, NEW n \in Nat, Len(ls) \in Nat, n <= Len(ls),
           \A i \in 1..Len(ls) : ls[i] # << >> <=> i <= n
    PROVE  Records(ls) = [k \in 1..n |-> ls[k][1][1]]
  <1>1. {i \in 1..Len(ls) : ls[i] # << >>} = 1..n
    OBVIOUS
  <1>2. Records(ls) = [k \in 1..n |-> ls[Nth(1..n, k)][1][1]]
    BY <1>1, InitialInterval DEF Records
  <1>3. QED
    BY <1>2, NthOfInterval

\* The unterminated line is the record in flight, if there is one.
TailInv ==
    LET tail == lines[Len(lines)]
    IN  /\ (\A s \in Sessions : pc[s] \notin Appending) => tail = << >>
        /\ \A s \in Sessions : /\ pc[s] = "head" => tail = << <<record[s], "head">> >>
                               /\ pc[s] = "rest" => tail = Line(record[s])

AppendInv ==
    /\ acked \in Seq(Nat) /\ torn \in BOOLEAN /\ DOMAIN view = Sessions
    /\ ~torn =>
          /\ Len(lines) = Len(acked) + 1
          /\ \A i \in 1..Len(acked) : acked[i] \in 1..begun /\ lines[i] = Line(acked[i])
          /\ TailInv
          /\ \A s \in Sessions : pc[s] \in Appending \cup {"idle"} /\ view[s] # Null => view[s] = acked

\* The lines of the acknowledged records come first, and only they are there.
LEMMA RecordsAreAcked ==
    ASSUME acked \in Seq(Nat), NEW ls, Len(ls) \in Nat, Len(acked) <= Len(ls),
           \A i \in 1..Len(acked) : ls[i] = Line(acked[i]),
           \A i \in 1..Len(ls) : i > Len(acked) => ls[i] = << >>
    PROVE  Records(ls) = acked
  <1>1. \A r : Line(r) # << >> /\ Line(r)[1][1] = r
    BY DEF Line
  <1>2. Len(acked) \in Nat
    OBVIOUS
  <1>3. \A i \in 1..Len(ls) : ls[i] # << >> <=> i <= Len(acked)
    BY <1>1, <1>2
  <1>4. Records(ls) = [k \in 1..Len(acked) |-> ls[k][1][1]]
    BY <1>2, <1>3, RecordsInOrder
  <1>5. \A k \in 1..Len(acked) : ls[k][1][1] = acked[k]
    BY <1>1
  <1>6. acked = [k \in 1..Len(acked) |-> acked[k]]
    OBVIOUS
  <1>7. QED
    BY <1>4, <1>5, <1>6

\* Of the sessions that write, there is one.
LEMMA WriterIsAlone ==
    ASSUME Owned, NEW s \in Sessions, NEW t \in Sessions, pc[s] \in Writing, pc[t] \in Writing
    PROVE  s = t
  BY HolderIsUnique DEF HoldsLock, Holding

\* A step that writes nothing: a session comes to rest with the records it has
\* or with none.
LEMMA RestKeepsAppends ==
    ASSUME LineInv, AppendInv, NEW s \in Sessions, NEW state \in SessionState \ Appending,
           pc[s] \notin Appending, Goto(s, state),
           UNCHANGED <<lines, begun, record, acked, torn>>,
           DOMAIN view' = Sessions, \A t \in Sessions : t # s => view'[t] = view[t],
           ~torn /\ state = "idle" /\ view'[s] # Null => view'[s] = acked
    PROVE  AppendInv'
  <1>1. pc'[s] = state /\ \A t \in Sessions : t # s => pc'[t] = pc[t]
    BY DEF LineInv, Goto
  <1>2. \A t \in Sessions : pc'[t] \in Appending <=> pc[t] \in Appending
    BY <1>1
  <1>3. TailInv => TailInv'
    BY <1>1, <1>2 DEF TailInv, Appending
  <1>4. ASSUME ~torn, NEW t \in Sessions, pc'[t] \in Appending \cup {"idle"}, view'[t] # Null
        PROVE  view'[t] = acked
    BY <1>1, <1>4 DEF AppendInv, Appending
  <1>5. QED
    BY <1>3, <1>4 DEF AppendInv

LEMMA TornKeepsAppends ==
    ASSUME AppendInv, torn' = TRUE, acked' = acked, DOMAIN view' = Sessions
    PROVE  AppendInv'
  BY DEF AppendInv

LEMMA BeginAppendKeeps ==
    ASSUME Owned, LineInv, AppendInv, NEW s \in Sessions, BeginAppend(s)
    PROVE  AppendInv'
  <1> DEFINE n == Len(lines)
             f == <<begun + 1, "head">>
  <1>1. begun \in Nat /\ lines \in Seq(Seq(Fragments)) /\ n \in Nat /\ n > 0 /\ f \in Fragments
    BY DEF LineInv, Fragments, Part
  <1>2. begun' = begun + 1 /\ record' = [record EXCEPT ![s] = begun + 1]
        /\ pc' = [pc EXCEPT ![s] = "head"] /\ pc[s] = "idle" /\ UNCHANGED <<acked, torn, view>>
        /\ lines' = [lines EXCEPT ![n] = Append(@, f)]
    BY DEF BeginAppend, Put, Goto
  <1>3. /\ lines' \in Seq(Seq(Fragments)) /\ Len(lines') = n
        /\ \A i \in 1..n : i # n => lines'[i] = lines[i]
        /\ lines'[n] = Append(lines[n], f)
    BY <1>1, <1>2, PutLengthens
  <1>4. pc'[s] = "head" /\ record'[s] = begun + 1 /\ \A t \in Sessions : t # s => pc'[t] = pc[t]
    BY <1>2 DEF LineInv
  <1>5. \A t \in Sessions : pc[t] \notin Appending /\ (pc[t] \in Writing => t = s)
    BY <1>2, WriterIsAlone DEF Writing, Appending
  <1>6. ASSUME ~torn
        PROVE  /\ Len(lines') = Len(acked) + 1
               /\ \A i \in 1..Len(acked) : acked[i] \in 1..begun' /\ lines'[i] = Line(acked[i])
    <2>1. /\ n = Len(acked) + 1 /\ Len(acked) \in Nat
          /\ \A i \in 1..Len(acked) : acked[i] \in 1..begun /\ lines[i] = Line(acked[i])
      BY <1>6 DEF AppendInv
    <2>2. \A i \in 1..Len(acked) : i \in 1..n /\ i # n
      BY <2>1
    <2>3. 1..begun \subseteq 1..begun'
      BY <1>1, <1>2
    <2>4. QED
      BY <1>3, <2>1, <2>2, <2>3
  <1>7. ASSUME ~torn PROVE TailInv'
    <2>1. lines[n] = << >>
      BY <1>5, <1>7 DEF AppendInv, TailInv
    <2>2. lines'[n] = << f >>
      BY <1>3, <2>1
    <2>3. QED
      BY <1>3, <1>4, <1>5, <2>2 DEF TailInv, Appending
  <1>8. ASSUME ~torn, NEW t \in Sessions, pc'[t] \in Appending \cup {"idle"}, view'[t] # Null
        PROVE  view'[t] = acked
    BY <1>2, <1>4, <1>8 DEF AppendInv
  <1>9. QED
    BY <1>2, <1>6, <1>7, <1>8 DEF AppendInv

LEMMA HeadThenRest ==
    ASSUME NEW a, NEW b
    PROVE  Append(<<a>>, b) = <<a, b>>
  <1>1. <<a>> \in Seq({a, b}) /\ Len(<<a>>) = 1 /\ <<a>>[1] = a /\ b \in {a, b}
    OBVIOUS
  <1>2. /\ Len(Append(<<a>>, b)) = 2 /\ Append(<<a>>, b)[1] = a /\ Append(<<a>>, b)[2] = b
        /\ Append(<<a>>, b) \in Seq({a, b})
    BY <1>1, Lengthened
  <1>3. \A q \in Seq({a, b}) : Len(q) = 2 => q = <<q[1], q[2]>>
    OBVIOUS
  <1>4. QED
    BY <1>2, <1>3

LEMMA WriteRestKeeps ==
    ASSUME Owned, LineInv, AppendInv, NEW s \in Sessions, WriteRest(s)
    PROVE  AppendInv'
  <1> DEFINE n == Len(lines)
             f == <<record[s], "rest">>
  <1>1. lines \in Seq(Seq(Fragments)) /\ n \in Nat /\ n > 0 /\ f \in Fragments /\ pc[s] = "head"
    BY DEF LineInv, Fragments, Part, WriteRest, Appending
  <1>2. begun' = begun /\ record' = record /\ pc' = [pc EXCEPT ![s] = "rest"]
        /\ UNCHANGED <<acked, torn, view>>
        /\ lines' = [lines EXCEPT ![n] = Append(@, f)]
    BY DEF WriteRest, Put, Goto
  <1>3. /\ lines' \in Seq(Seq(Fragments)) /\ Len(lines') = n
        /\ \A i \in 1..n : i # n => lines'[i] = lines[i]
        /\ lines'[n] = Append(lines[n], f)
    BY <1>1, <1>2, PutLengthens
  <1>4. pc'[s] = "rest" /\ \A t \in Sessions : t # s => pc'[t] = pc[t]
    BY <1>2 DEF LineInv
  <1>5. \A t \in Sessions : pc[t] \in Writing => t = s
    BY <1>1, WriterIsAlone DEF Writing
  <1>6. ASSUME ~torn
        PROVE  /\ Len(lines') = Len(acked) + 1
               /\ \A i \in 1..Len(acked) : acked[i] \in 1..begun' /\ lines'[i] = Line(acked[i])
    <2>1. /\ n = Len(acked) + 1 /\ Len(acked) \in Nat
          /\ \A i \in 1..Len(acked) : acked[i] \in 1..begun /\ lines[i] = Line(acked[i])
      BY <1>6 DEF AppendInv
    <2>2. \A i \in 1..Len(acked) : i \in 1..n /\ i # n
      BY <2>1
    <2>3. QED
      BY <1>2, <1>3, <2>1, <2>2
  <1>7. ASSUME ~torn PROVE TailInv'
    <2>1. lines[n] = << <<record[s], "head">> >>
      BY <1>1, <1>7 DEF AppendInv, TailInv
    <2>2. lines'[n] = Line(record[s])
      BY <1>3, <2>1, HeadThenRest DEF Line
    <2>3. \A t \in Sessions : pc'[t] \in Appending => t = s
      BY <1>4, <1>5 DEF Appending, Writing
    <2>4. QED
      BY <1>2, <1>3, <1>4, <2>2, <2>3 DEF TailInv, Appending
  <1>8. ASSUME ~torn, NEW t \in Sessions, pc'[t] \in Appending \cup {"idle"}, view'[t] # Null
        PROVE  view'[t] = acked
    BY <1>1, <1>2, <1>4, <1>8 DEF AppendInv, Appending
  <1>9. QED
    BY <1>2, <1>6, <1>7, <1>8 DEF AppendInv

LEMMA WriteNewlineKeeps ==
    ASSUME Owned, LineInv, AppendInv, NEW s \in Sessions, WriteNewline(s)
    PROVE  AppendInv'
  <1> DEFINE n == Len(lines)
  <1>1. /\ begun' = begun /\ record' = record /\ pc' = [pc EXCEPT ![s] = "idle"] /\ pc[s] = "rest"
        /\ lines' = Append(lines, << >>) /\ acked' = Append(acked, record[s]) /\ torn' = torn
        /\ \A t \in Sessions : t # s => view'[t] = view[t]
        /\ view' = [view EXCEPT ![s] = IF @ = Null THEN Null ELSE Append(@, record[s])]
    BY DEF WriteNewline, Goto
  <1>2. /\ lines \in Seq(Seq(Fragments)) /\ << >> \in Seq(Fragments) /\ n \in Nat
        /\ begun \in Nat /\ record[s] \in 1..begun /\ record[s] \in Nat
    BY <1>1 DEF LineInv, Appending
  <1>3. /\ Len(lines') = n + 1 /\ lines'[n + 1] = << >>
        /\ \A i \in 1..n : lines'[i] = lines[i]
    BY <1>1, <1>2
  <1>4. /\ acked \in Seq(Nat) /\ acked' \in Seq(Nat) /\ Len(acked') = Len(acked) + 1 /\ Len(acked) \in Nat
        /\ acked'[Len(acked) + 1] = record[s]
        /\ \A i \in 1..Len(acked) : acked'[i] = acked[i]
    BY <1>1, <1>2 DEF AppendInv
  <1>5. pc'[s] = "idle" /\ \A t \in Sessions : t # s => pc'[t] = pc[t]
    BY <1>1 DEF LineInv
  <1>6. \A t \in Sessions : pc[t] \in Writing => t = s
    BY <1>1, WriterIsAlone DEF Writing
  <1>7. \A t \in Sessions : pc'[t] \notin Appending /\ (pc'[t] = "idle" => t = s)
    BY <1>5, <1>6 DEF Appending, Writing
  <1>8. ASSUME ~torn
        PROVE  /\ Len(lines') = Len(acked') + 1
               /\ \A i \in 1..Len(acked') : acked'[i] \in 1..begun /\ lines'[i] = Line(acked'[i])
    <2>1. /\ n = Len(acked) + 1
          /\ \A i \in 1..Len(acked) : acked[i] \in 1..begun /\ lines[i] = Line(acked[i])
          /\ lines[n] = Line(record[s])
      BY <1>1, <1>8 DEF AppendInv, TailInv
    <2>2. ASSUME NEW i \in 1..Len(acked') PROVE acked'[i] \in 1..begun /\ lines'[i] = Line(acked'[i])
      <3>1. CASE i \in 1..Len(acked)
        <4>1. i \in 1..n
          BY <1>4, <2>1, <3>1
        <4>2. QED
          BY <1>3, <1>4, <2>1, <3>1, <4>1
      <3>2. CASE i = n
        <4>1. i = Len(acked) + 1 /\ i \in 1..n
          BY <1>4, <2>1, <3>2
        <4>2. QED
          BY <1>2, <1>3, <1>4, <2>1, <3>2, <4>1
      <3>3. QED
        BY <1>4, <2>1, <3>1, <3>2
    <2>3. QED
      BY <1>3, <1>4, <2>1, <2>2
  <1>9. TailInv'
    <2>1. lines'[Len(lines')] = << >>
      BY <1>2, <1>3
    <2>2. QED
      BY <1>7, <2>1 DEF TailInv, Appending
  <1>10. ASSUME ~torn, NEW t \in Sessions, pc'[t] \in Appending \cup {"idle"}, view'[t] # Null
         PROVE  view'[t] = acked'
    <2>1. t = s
      BY <1>7, <1>10
    <2>2. view[s] # Null /\ view'[s] = Append(view[s], record[s])
      BY <1>1, <1>10, <2>1 DEF AppendInv
    <2>3. view[s] = acked
      BY <1>1, <1>10, <2>2 DEF AppendInv, Appending
    <2>4. QED
      BY <1>1, <2>1, <2>2, <2>3
  <1>11. QED
    BY <1>1, <1>4, <1>8, <1>9, <1>10 DEF AppendInv

LEMMA OpenKeepsAppends ==
    ASSUME Owned, LineInv, AppendInv, NEW s \in Sessions, Open(s)
    PROVE  AppendInv'
  <1>1. CASE StartFresh(s)
    <2>1. DOMAIN view' = Sessions /\ view'[s] = Null /\ \A t \in Sessions : t # s => view'[t] = view[t]
      BY <1>1 DEF StartFresh, AppendInv
    <2>2. QED
      BY <1>1, <2>1, RestKeepsAppends DEF StartFresh, SessionState, Appending, journal
  <1>2. CASE StartReplayed(s)
    <2>1. pc[s] = "opened" /\ UNCHANGED <<lines, begun, record, acked, torn>>
      BY <1>2 DEF StartReplayed, journal
    <2>2. \A t \in Sessions : pc[t] \notin Appending
      BY <2>1, WriterIsAlone DEF Writing, Appending
    <2>3. ASSUME ~torn PROVE Records(lines) = acked
      <3>1. /\ Len(lines) = Len(acked) + 1 /\ Len(acked) \in Nat /\ acked \in Seq(Nat)
            /\ \A i \in 1..Len(acked) : lines[i] = Line(acked[i])
            /\ lines[Len(lines)] = << >>
        BY <2>2, <2>3 DEF AppendInv, TailInv
      <3>2. /\ Len(lines) \in Nat /\ Len(acked) <= Len(lines)
            /\ \A i \in 1..Len(lines) : i > Len(acked) => i = Len(lines)
        BY <3>1
      <3>3. QED
        BY <3>1, <3>2, RecordsAreAcked
    <2>4. DOMAIN view' = Sessions /\ \A t \in Sessions : t # s => view'[t] = view[t]
      BY <1>2 DEF StartReplayed, AppendInv
    <2>5. CASE Readable
      <3>1. Goto(s, "idle") /\ view'[s] = Records(lines)
        BY <1>2, <2>5 DEF StartReplayed, AppendInv
      <3>2. QED
        BY <2>1, <2>3, <2>4, <3>1, RestKeepsAppends DEF SessionState, Appending
    <2>6. CASE ~Readable
      BY <1>2, <2>1, <2>4, <2>6, RestKeepsAppends DEF StartReplayed, SessionState, Appending
    <2>7. QED
      BY <2>5, <2>6
  <1>3. CASE CreateLock(s) \/ WriteLockInfo(s) \/ WriteLockInfoFails(s) \/ OpenJournal(s) \/ OpenJournalFails(s)
    <2>1. /\ pc[s] \notin Appending
          /\ \E state \in SessionState \ (Appending \cup {"idle"}) : Goto(s, state)
          /\ UNCHANGED <<view, lines, begun, record, acked, torn>>
      BY <1>3 DEF CreateLock, WriteLockInfo, WriteLockInfoFails, OpenJournal, OpenJournalFails,
         SessionState, Appending, journal
    <2>2. DOMAIN view' = Sessions
      BY <2>1 DEF AppendInv
    <2>3. QED
      BY <2>1, <2>2, RestKeepsAppends
  <1>4. QED
    BY <1>1, <1>2, <1>3 DEF Open

LEMMA CloseKeepsAppends ==
    ASSUME LineInv, AppendInv, NEW s \in Sessions, Close(s)
    PROVE  AppendInv'
  <1>1. DOMAIN view' = Sessions /\ \A t \in Sessions : t # s => view'[t] = view[t]
    BY DEF Close, BeginDrop, Drop, Die, AppendInv
  <1>2. CASE BeginDrop(s) \/ Drop(s)
    BY <1>1, <1>2, RestKeepsAppends DEF BeginDrop, Drop, SessionState, Appending, journal
  <1>3. CASE Die(s) /\ pc[s] \in Appending
    BY <1>1, <1>3, TornKeepsAppends DEF Die, Appending
  <1>4. CASE Die(s) /\ pc[s] \notin Appending
    <2>1. torn' = torn
      BY <1>4 DEF Die, Appending, AppendInv
    <2>2. Goto(s, "dead") /\ UNCHANGED <<lines, begun, record, acked>>
      BY <1>4 DEF Die
    <2>3. QED
      BY <1>1, <1>4, <2>1, <2>2, RestKeepsAppends DEF SessionState, Appending
  <1>5. QED
    BY <1>2, <1>3, <1>4 DEF Close

LEMMA NextKeepsAppends ==
    ASSUME Owned, LineInv, AppendInv, [Next]_vars
    PROVE  AppendInv'
  <1>1. ASSUME NEW s \in Sessions, AppendFails(s) PROVE AppendInv'
    BY <1>1, TornKeepsAppends DEF AppendFails, AppendInv
  <1>2. ASSUME NEW s \in Sessions, Write(s) PROVE AppendInv'
    BY <1>1, <1>2, BeginAppendKeeps, WriteRestKeeps, WriteNewlineKeeps DEF Write
  <1>3. ASSUME UNCHANGED <<pc, view, journal>> PROVE AppendInv'
    BY <1>3 DEF AppendInv, TailInv, journal
  <1>4. ASSUME NEW o \in Operators, Clear(o) PROVE AppendInv'
    BY <1>3, <1>4 DEF Clear, ReadStaleLock, RemoveStaleLock
  <1>5. CASE Tick \/ UNCHANGED vars
    BY <1>3, <1>5 DEF Tick, vars
  <1>6. QED
    BY <1>2, <1>4, <1>5, OpenKeepsAppends, CloseKeepsAppends DEF Next

\* An eviction is not forgotten.
LEMMA EvictedStays ==
    ASSUME LockInv, [Next]_vars, ~evicted'
    PROVE  ~evicted
  <1>1. ASSUME NEW s \in Sessions, Open(s) PROVE evicted' = evicted
    BY <1>1 DEF Open, CreateLock, WriteLockInfo, WriteLockInfoFails, OpenJournal,
       OpenJournalFails, StartFresh, StartReplayed
  <1>2. ASSUME NEW s \in Sessions, Write(s) PROVE evicted' = evicted
    BY <1>2 DEF Write, BeginAppend, WriteRest, WriteNewline, AppendFails
  <1>3. ASSUME NEW s \in Sessions, Close(s) PROVE evicted' = evicted
    BY <1>3 DEF Close, BeginDrop, Drop, Die
  <1>4. ASSUME NEW o \in Operators, Clear(o) PROVE ~evicted
    BY <1>4 DEF Clear, ReadStaleLock, RemoveStaleLock
  <1>5. QED
    BY <1>1, <1>2, <1>3, <1>4 DEF Next, Tick, vars

LEMMA AppendInvariance == Spec => [](~evicted => AppendInv)
  <1>1. Init => AppendInv
    <2>1. ASSUME Init
          PROVE  /\ acked \in Seq(Nat) /\ Len(acked) = 0 /\ Len(lines) = 1 /\ lines[1] = << >>
                 /\ torn \in BOOLEAN /\ DOMAIN view = Sessions
                 /\ \A s \in Sessions : pc[s] = "closed"
      <3>1. << >> \in Seq(Nat) /\ Len(<< >>) = 0 /\ Len(<< << >> >>) = 1 /\ << << >> >>[1] = << >>
        OBVIOUS
      <3>2. QED
        BY <2>1, <3>1, Zenon DEF Init
    <2>2. ASSUME Init PROVE TailInv
      BY <2>1, <2>2 DEF TailInv, Appending
    <2>3. QED
      BY <2>1, <2>2 DEF AppendInv, Appending
  <1>2. LockInv /\ LineInv /\ (~evicted => AppendInv) /\ [Next]_vars => (~evicted => AppendInv)'
    BY EvictedStays, NextKeepsAppends DEF LockInv
  <1>3. QED
    BY <1>1, <1>2, LineInvariance, LockOwnership, PTL DEF Spec

\* The complete lines of the file are the acknowledged records.
LEMMA AppendedIsThere ==
    ASSUME LineInv, AppendInv, ~torn
    PROVE  /\ Records(Front(lines)) = acked
           /\ \A i \in 1..Len(lines) - 1 : WholeLine(lines[i])
           /\ lines[Len(lines)] # << >> => \E s \in Sessions : pc[s] \in {"head", "rest"}
  <1>1. /\ Len(lines) = Len(acked) + 1 /\ Len(acked) \in Nat /\ acked \in Seq(Nat)
        /\ \A i \in 1..Len(acked) : acked[i] \in 1..begun /\ lines[i] = Line(acked[i])
        /\ lines \in Seq(Seq(Fragments))
    BY DEF AppendInv, LineInv
  <1>2. /\ Len(Front(lines)) = Len(acked)
        /\ \A i \in 1..Len(acked) : Front(lines)[i] = lines[i]
    BY <1>1 DEF Front
  <1>3. Records(Front(lines)) = acked
    BY <1>1, <1>2, RecordsAreAcked
  <1>4. ASSUME NEW i \in 1..Len(lines) - 1 PROVE WholeLine(lines[i])
    <2>1. i \in 1..Len(acked)
      BY <1>1
    <2>2. QED
      BY <1>1, <2>1 DEF WholeLine, Line
  <1>5. lines[Len(lines)] # << >> => \E s \in Sessions : pc[s] \in {"head", "rest"}
    BY DEF AppendInv, TailInv, Appending
  <1>6. QED
    BY <1>3, <1>4, <1>5

\* Until a holder is evicted, sessions that die wherever they like between two
\* appends lose nothing: the journal has every acknowledged record in order,
\* and so has every session that replayed it and still holds it.
THEOREM AppendsAreKept == Spec => []NothingIsLost
  <1>1. AppendInv /\ ~torn => ReplayIsCurrent
    BY DEF AppendInv, ReplayIsCurrent
  <1>2. LineInv /\ AppendInv /\ ~torn => JournalIsWhatWasAppended
    BY AppendedIsThere DEF JournalIsWhatWasAppended
  <1>3. LineInv /\ (~evicted => AppendInv) => NothingIsLost
    BY <1>1, <1>2 DEF NothingIsLost
  <1>4. QED
    BY <1>3, AppendInvariance, LineInvariance, PTL
=============================================================================
