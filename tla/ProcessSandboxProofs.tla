------------------------ MODULE ProcessSandboxProofs ------------------------
(***************************************************************************)
(* Proofs about ProcessSandbox, for every size of the pipes, the request   *)
(* and the outputs and every timeout: the safety properties follow from    *)
(* the inductive invariant CallInv.                                        *)
(***************************************************************************)
EXTENDS ProcessSandbox, TLAPS

Joined == {"joinStdout", "joinStderr", "answering"}
Parsed == {"Result", "InvalidOutput"}

\* Before the child is spawned there is nothing; before the call returns it has
\* no outcome.
NotBegun ==
    /\ pc = "idle" => /\ alive = {} /\ status = "none"
                      /\ reader = [o \in Output |-> "off"]
    /\ pc # "returned" <=> outcome = "none"

\* A child that was waited for has ended, and has a status that stays.
Waited ==
    /\ "child" \in alive => status = "none"
    /\ reaped => status # "none"
    /\ pc \in Joined \/ outcome \in Parsed \cup {"TimedOut", "ProcessFailed"} => reaped

\* A reader that is done saw the end of the pipe: nobody can write to it again.
Drained ==
    /\ \A o \in Output : reader[o] = "done" => pipe[o] = 0 /\ ends[o] = {}
    /\ pc \in {"joinStderr", "answering"} => reader["stdout"] = "done"
    /\ pc = "answering" => reader["stderr"] = "done"

Parsing ==
    outcome \in Parsed =>
        status = "success" /\ \A o \in Output : reader[o] = "done"

\* What was written is read or still in the pipe.
Conserved == \A o \in Output : written[o] = got[o] + pipe[o]

CallInv == TypeOK /\ NotBegun /\ Waited /\ Drained /\ Parsing /\ Conserved

\* The initial states satisfy the invariant.
LEMMA InitInv == Init => CallInv
  <1> SUFFICES ASSUME Init PROVE CallInv
    OBVIOUS
  <1> USE DEF Init, Process, Output, Pipe
  <1>1. TypeOK
    <2>1. pc \in Place /\ outcome \in Outcome
      BY DEF Place, Outcome
    <2>2. unsent \in Nat /\ now \in Nat /\ pipe \in [Pipe -> 0 .. PipeSize]
      BY SandboxAssumption
    <2>3. ends \in [Pipe -> SUBSET Process] /\ alive \in SUBSET Process
      OBVIOUS
    <2>4. written \in [Output -> Nat] /\ got \in [Output -> Nat]
      OBVIOUS
    <2> QED
      BY <2>1, <2>2, <2>3, <2>4 DEF TypeOK
  <1>2. NotBegun
    BY DEF NotBegun
  <1>3. Waited
    BY DEF Waited, Joined, Parsed
  <1>4. Drained
    BY DEF Drained
  <1>5. Parsing
    BY DEF Parsing, Parsed
  <1>6. Conserved
    BY DEF Conserved
  <1> QED
    BY <1>1, <1>2, <1>3, <1>4, <1>5, <1>6 DEF CallInv

\* Every step preserves the types.
LEMMA TypeStep == TypeOK /\ [Next]_vars => TypeOK'
  <1> SUFFICES ASSUME TypeOK, [Next]_vars PROVE TypeOK'
    OBVIOUS
  <1> USE SandboxAssumption DEF TypeOK, Place, Outcome, vars, caller, readers, child, Process, Output, Pipe
  <1>1. CASE Spawn
    BY <1>1 DEF Spawn
  <1>2. CASE SpawnFails
    BY <1>2 DEF SpawnFails, Return
  <1>3. CASE WriteRequest
    BY <1>3 DEF WriteRequest
  <1>4. CASE WriteFails
    BY <1>4 DEF WriteFails, Return
  <1>5. CASE StartWaiting
    BY <1>5 DEF StartWaiting
  <1>6. CASE Poll
    BY <1>6 DEF Poll
  <1>7. CASE CheckDeadline
    BY <1>7 DEF CheckDeadline
  <1>8. CASE Kill
    BY <1>8 DEF Kill
  <1>9. CASE Reap
    BY <1>9 DEF Reap, Return
  <1>10. CASE Join("stdout", "joinStdout", "joinStderr")
    BY <1>10 DEF Join
  <1>11. CASE Join("stderr", "joinStderr", "answering")
    BY <1>11 DEF Join
  <1>12. CASE Answer
    BY <1>12 DEF Answer, Return
  <1>13. CASE \E o \in Output : Read(o)
    BY <1>13 DEF Read
  <1>14. CASE \E o \in Output : EndOfFile(o)
    BY <1>14 DEF EndOfFile
  <1>15. CASE \E p \in Process : ReadInput(p)
    BY <1>15 DEF ReadInput
  <1>16. CASE \E p \in Process, o \in Output : WriteOutput(p, o)
    BY <1>16 DEF WriteOutput
  <1>17. CASE \E p \in Process, e \in Pipe : CloseEnd(p, e)
    BY <1>17 DEF CloseEnd
  <1>18. CASE Fork
    BY <1>18 DEF Fork
  <1>19. CASE \E p \in Process : Exit(p)
    BY <1>19 DEF Exit
  <1>20. CASE Tick
    BY <1>20 DEF Tick
  <1>21. CASE UNCHANGED vars
    BY <1>21
  <1> QED
    BY <1>1, <1>2, <1>3, <1>4, <1>5, <1>6, <1>7, <1>8, <1>9, <1>10, <1>11, <1>12, <1>13, <1>14, <1>15, <1>16, <1>17, <1>18, <1>19, <1>20, <1>21 DEF Next, Caller, Reader, Other

\* A call that has not begun has no child and no outcome.
LEMMA NotBegunStep == TypeOK /\ NotBegun /\ [Next]_vars => NotBegun'
  <1> SUFFICES ASSUME TypeOK, NotBegun, [Next]_vars PROVE NotBegun'
    OBVIOUS
  <1> USE SandboxAssumption DEF TypeOK, NotBegun, Place, Outcome, vars, caller, readers, child, Process, Output, Pipe
  <1>1. CASE Spawn
    BY <1>1 DEF Spawn
  <1>2. CASE SpawnFails
    BY <1>2 DEF SpawnFails, Return
  <1>3. CASE WriteRequest
    BY <1>3 DEF WriteRequest
  <1>4. CASE WriteFails
    BY <1>4 DEF WriteFails, Return
  <1>5. CASE StartWaiting
    BY <1>5 DEF StartWaiting
  <1>6. CASE Poll
    BY <1>6 DEF Poll
  <1>7. CASE CheckDeadline
    BY <1>7 DEF CheckDeadline
  <1>8. CASE Kill
    BY <1>8 DEF Kill
  <1>9. CASE Reap
    BY <1>9 DEF Reap, Return
  <1>10. CASE Join("stdout", "joinStdout", "joinStderr")
    BY <1>10 DEF Join
  <1>11. CASE Join("stderr", "joinStderr", "answering")
    BY <1>11 DEF Join
  <1>12. CASE Answer
    BY <1>12 DEF Answer, Return
  <1>13. CASE \E o \in Output : Read(o)
    BY <1>13 DEF Read
  <1>14. CASE \E o \in Output : EndOfFile(o)
    BY <1>14 DEF EndOfFile
  <1>15. CASE \E p \in Process : ReadInput(p)
    BY <1>15 DEF ReadInput
  <1>16. CASE \E p \in Process, o \in Output : WriteOutput(p, o)
    BY <1>16 DEF WriteOutput
  <1>17. CASE \E p \in Process, e \in Pipe : CloseEnd(p, e)
    BY <1>17 DEF CloseEnd
  <1>18. CASE Fork
    BY <1>18 DEF Fork
  <1>19. CASE \E p \in Process : Exit(p)
    BY <1>19 DEF Exit
  <1>20. CASE Tick
    BY <1>20 DEF Tick
  <1>21. CASE UNCHANGED vars
    BY <1>21
  <1> QED
    BY <1>1, <1>2, <1>3, <1>4, <1>5, <1>6, <1>7, <1>8, <1>9, <1>10, <1>11, <1>12, <1>13, <1>14, <1>15, <1>16, <1>17, <1>18, <1>19, <1>20, <1>21 DEF Next, Caller, Reader, Other

\* Waiting is for a child that has ended, whose status stays.
LEMMA WaitedStep == TypeOK /\ NotBegun /\ Waited /\ [Next]_vars => Waited'
  <1> SUFFICES ASSUME TypeOK, NotBegun, Waited, [Next]_vars PROVE Waited'
    OBVIOUS
  <1> USE SandboxAssumption DEF TypeOK, NotBegun, Waited, Joined, Parsed, vars, caller, readers, child, Process, Output, Pipe
  <1>1. CASE Spawn
    BY <1>1 DEF Spawn
  <1>2. CASE SpawnFails
    BY <1>2 DEF SpawnFails, Return
  <1>3. CASE WriteRequest
    BY <1>3 DEF WriteRequest
  <1>4. CASE WriteFails
    BY <1>4 DEF WriteFails, Return
  <1>5. CASE StartWaiting
    BY <1>5 DEF StartWaiting
  <1>6. CASE Poll
    BY <1>6 DEF Poll
  <1>7. CASE CheckDeadline
    BY <1>7 DEF CheckDeadline
  <1>8. CASE Kill
    BY <1>8 DEF Kill
  <1>9. CASE Reap
    BY <1>9 DEF Reap, Return
  <1>10. CASE Join("stdout", "joinStdout", "joinStderr")
    BY <1>10 DEF Join
  <1>11. CASE Join("stderr", "joinStderr", "answering")
    BY <1>11 DEF Join
  <1>12. CASE Answer
    BY <1>12 DEF Answer, Return
  <1>13. CASE \E o \in Output : Read(o)
    BY <1>13 DEF Read
  <1>14. CASE \E o \in Output : EndOfFile(o)
    BY <1>14 DEF EndOfFile
  <1>15. CASE \E p \in Process : ReadInput(p)
    BY <1>15 DEF ReadInput
  <1>16. CASE \E p \in Process, o \in Output : WriteOutput(p, o)
    BY <1>16 DEF WriteOutput
  <1>17. CASE \E p \in Process, e \in Pipe : CloseEnd(p, e)
    BY <1>17 DEF CloseEnd
  <1>18. CASE Fork
    BY <1>18 DEF Fork
  <1>19. CASE \E p \in Process : Exit(p)
    BY <1>19 DEF Exit
  <1>20. CASE Tick
    BY <1>20 DEF Tick
  <1>21. CASE UNCHANGED vars
    BY <1>21
  <1> QED
    BY <1>1, <1>2, <1>3, <1>4, <1>5, <1>6, <1>7, <1>8, <1>9, <1>10, <1>11, <1>12, <1>13, <1>14, <1>15, <1>16, <1>17, <1>18, <1>19, <1>20, <1>21 DEF Next, Caller, Reader, Other

\* A drained pipe stays drained.
LEMMA DrainedStep == TypeOK /\ NotBegun /\ Drained /\ [Next]_vars => Drained'
  <1> SUFFICES ASSUME TypeOK, NotBegun, Drained, [Next]_vars PROVE Drained'
    OBVIOUS
  <1> USE SandboxAssumption DEF TypeOK, NotBegun, Drained, vars, caller, readers, child, Process, Output, Pipe
  <1>1. CASE Spawn
    BY <1>1 DEF Spawn
  <1>2. CASE SpawnFails
    BY <1>2 DEF SpawnFails, Return
  <1>3. CASE WriteRequest
    BY <1>3 DEF WriteRequest
  <1>4. CASE WriteFails
    BY <1>4 DEF WriteFails, Return
  <1>5. CASE StartWaiting
    BY <1>5 DEF StartWaiting
  <1>6. CASE Poll
    BY <1>6 DEF Poll
  <1>7. CASE CheckDeadline
    BY <1>7 DEF CheckDeadline
  <1>8. CASE Kill
    BY <1>8 DEF Kill
  <1>9. CASE Reap
    BY <1>9 DEF Reap, Return
  <1>10. CASE Join("stdout", "joinStdout", "joinStderr")
    BY <1>10 DEF Join
  <1>11. CASE Join("stderr", "joinStderr", "answering")
    BY <1>11 DEF Join
  <1>12. CASE Answer
    BY <1>12 DEF Answer, Return
  <1>13. CASE \E o \in Output : Read(o)
    BY <1>13 DEF Read
  <1>14. CASE \E o \in Output : EndOfFile(o)
    BY <1>14 DEF EndOfFile
  <1>15. CASE \E p \in Process : ReadInput(p)
    BY <1>15 DEF ReadInput
  <1>16. CASE \E p \in Process, o \in Output : WriteOutput(p, o)
    BY <1>16 DEF WriteOutput
  <1>17. CASE \E p \in Process, e \in Pipe : CloseEnd(p, e)
    BY <1>17 DEF CloseEnd
  <1>18. CASE Fork
    BY <1>18 DEF Fork
  <1>19. CASE \E p \in Process : Exit(p)
    BY <1>19 DEF Exit
  <1>20. CASE Tick
    BY <1>20 DEF Tick
  <1>21. CASE UNCHANGED vars
    BY <1>21
  <1> QED
    BY <1>1, <1>2, <1>3, <1>4, <1>5, <1>6, <1>7, <1>8, <1>9, <1>10, <1>11, <1>12, <1>13, <1>14, <1>15, <1>16, <1>17, <1>18, <1>19, <1>20, <1>21 DEF Next, Caller, Reader, Other

\* An answer is given of a whole output.
LEMMA ParsingStep == TypeOK /\ NotBegun /\ Waited /\ Drained /\ Parsing /\ [Next]_vars => Parsing'
  <1> SUFFICES ASSUME TypeOK, NotBegun, Waited, Drained, Parsing, [Next]_vars PROVE Parsing'
    OBVIOUS
  <1> USE SandboxAssumption DEF TypeOK, NotBegun, Waited, Drained, Parsing, Joined, Parsed, vars, caller, readers, child, Process, Output, Pipe
  <1>1. CASE Spawn
    BY <1>1 DEF Spawn
  <1>2. CASE SpawnFails
    BY <1>2 DEF SpawnFails, Return
  <1>3. CASE WriteRequest
    BY <1>3 DEF WriteRequest
  <1>4. CASE WriteFails
    BY <1>4 DEF WriteFails, Return
  <1>5. CASE StartWaiting
    BY <1>5 DEF StartWaiting
  <1>6. CASE Poll
    BY <1>6 DEF Poll
  <1>7. CASE CheckDeadline
    BY <1>7 DEF CheckDeadline
  <1>8. CASE Kill
    BY <1>8 DEF Kill
  <1>9. CASE Reap
    BY <1>9 DEF Reap, Return
  <1>10. CASE Join("stdout", "joinStdout", "joinStderr")
    BY <1>10 DEF Join
  <1>11. CASE Join("stderr", "joinStderr", "answering")
    BY <1>11 DEF Join
  <1>12. CASE Answer
    BY <1>12 DEF Answer, Return
  <1>13. CASE \E o \in Output : Read(o)
    BY <1>13 DEF Read
  <1>14. CASE \E o \in Output : EndOfFile(o)
    BY <1>14 DEF EndOfFile
  <1>15. CASE \E p \in Process : ReadInput(p)
    BY <1>15 DEF ReadInput
  <1>16. CASE \E p \in Process, o \in Output : WriteOutput(p, o)
    BY <1>16 DEF WriteOutput
  <1>17. CASE \E p \in Process, e \in Pipe : CloseEnd(p, e)
    BY <1>17 DEF CloseEnd
  <1>18. CASE Fork
    BY <1>18 DEF Fork
  <1>19. CASE \E p \in Process : Exit(p)
    BY <1>19 DEF Exit
  <1>20. CASE Tick
    BY <1>20 DEF Tick
  <1>21. CASE UNCHANGED vars
    BY <1>21
  <1> QED
    BY <1>1, <1>2, <1>3, <1>4, <1>5, <1>6, <1>7, <1>8, <1>9, <1>10, <1>11, <1>12, <1>13, <1>14, <1>15, <1>16, <1>17, <1>18, <1>19, <1>20, <1>21 DEF Next, Caller, Reader, Other

\* No byte is lost or invented.
LEMMA ConservedStep == TypeOK /\ Conserved /\ [Next]_vars => Conserved'
  <1> SUFFICES ASSUME TypeOK, Conserved, [Next]_vars PROVE Conserved'
    OBVIOUS
  <1> USE SandboxAssumption DEF TypeOK, Conserved, vars, caller, readers, child, Process, Output, Pipe
  <1>1. CASE Spawn
    BY <1>1 DEF Spawn
  <1>2. CASE SpawnFails
    BY <1>2 DEF SpawnFails, Return
  <1>3. CASE WriteRequest
    BY <1>3 DEF WriteRequest
  <1>4. CASE WriteFails
    BY <1>4 DEF WriteFails, Return
  <1>5. CASE StartWaiting
    BY <1>5 DEF StartWaiting
  <1>6. CASE Poll
    BY <1>6 DEF Poll
  <1>7. CASE CheckDeadline
    BY <1>7 DEF CheckDeadline
  <1>8. CASE Kill
    BY <1>8 DEF Kill
  <1>9. CASE Reap
    BY <1>9 DEF Reap, Return
  <1>10. CASE Join("stdout", "joinStdout", "joinStderr")
    BY <1>10 DEF Join
  <1>11. CASE Join("stderr", "joinStderr", "answering")
    BY <1>11 DEF Join
  <1>12. CASE Answer
    BY <1>12 DEF Answer, Return
  <1>13. CASE \E o \in Output : Read(o)
    BY <1>13 DEF Read
  <1>14. CASE \E o \in Output : EndOfFile(o)
    BY <1>14 DEF EndOfFile
  <1>15. CASE \E p \in Process : ReadInput(p)
    BY <1>15 DEF ReadInput
  <1>16. CASE \E p \in Process, o \in Output : WriteOutput(p, o)
    BY <1>16 DEF WriteOutput
  <1>17. CASE \E p \in Process, e \in Pipe : CloseEnd(p, e)
    BY <1>17 DEF CloseEnd
  <1>18. CASE Fork
    BY <1>18 DEF Fork
  <1>19. CASE \E p \in Process : Exit(p)
    BY <1>19 DEF Exit
  <1>20. CASE Tick
    BY <1>20 DEF Tick
  <1>21. CASE UNCHANGED vars
    BY <1>21
  <1> QED
    BY <1>1, <1>2, <1>3, <1>4, <1>5, <1>6, <1>7, <1>8, <1>9, <1>10, <1>11, <1>12, <1>13, <1>14, <1>15, <1>16, <1>17, <1>18, <1>19, <1>20, <1>21 DEF Next, Caller, Reader, Other

\* The invariant holds of every reachable state.
THEOREM CallInvariance == Spec => []CallInv
  <1>1. Init => CallInv
    BY InitInv
  <1>2. CallInv /\ [Next]_vars => CallInv'
    BY TypeStep, NotBegunStep, WaitedStep, DrainedStep, ParsingStep, ConservedStep
    DEF CallInv
  <1> QED
    BY <1>1, <1>2, PTL DEF Spec

\* A result was parsed from the whole output of a child that ended successfully.
THEOREM WholeResult == Spec => []ResultIsWhole
  <1>1. CallInv => ResultIsWhole
    BY DEF CallInv, TypeOK, Drained, Parsing, Conserved, ResultIsWhole, Parsed,
           Output, Pipe
  <1> QED
    BY <1>1, CallInvariance, PTL

\* A call that returned, but for an input or output error, leaves no child.
THEOREM NoChildLeft == Spec => []EndedCallReaps
  <1>1. CallInv => EndedCallReaps
    BY DEF CallInv, TypeOK, NotBegun, Waited, EndedCallReaps, Outcome, Parsed
  <1> QED
    BY <1>1, CallInvariance, PTL
=============================================================================
