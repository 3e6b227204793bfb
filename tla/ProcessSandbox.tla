--------------------------- MODULE ProcessSandbox ---------------------------
(***************************************************************************)
(* One call of ProcessSandbox::execute (moxi-sandbox): the calling thread, *)
(* the two threads that read the child's stdout and stderr, the child, and *)
(* a process the child may leave behind, which inherits its pipes (heir).  *)
(*                                                                         *)
(* A pipe is the number of bytes in it.  The caller writes the request,    *)
(* closes stdin, starts the readers, polls the child until it has exited   *)
(* or the deadline has passed, and joins the readers.  The deadline is set *)
(* after the request is written.  What the child does is not assumed.      *)
(***************************************************************************)
EXTENDS Naturals

CONSTANTS PipeSize,    \* bytes a pipe holds
          Requests,    \* sizes of the request
          Timeout,     \* timeout_ms, at least one (ProcessSandbox::timeout_ms)
          MaxOutput,   \* bound: bytes written to stdout, and to stderr
          MaxWriting,  \* bound: the clock while the request is written
          Null

ASSUME SandboxAssumption ==
    /\ PipeSize \in Nat \ {0} /\ Requests \subseteq Nat \ {0}
    /\ Timeout \in Nat \ {0} /\ MaxOutput \in Nat /\ MaxWriting \in Nat
    /\ Null \notin Nat

VARIABLES pc,        \* the caller
          outcome,   \* what execute returned
          unsent,    \* bytes of the request not yet written
          pipe,      \* bytes in each pipe
          ends,      \* processes that hold the child's end of each pipe
          written,   \* history: bytes written to each output
          got,       \* bytes each reader thread has
          reader,    \* the reader threads
          alive,     \* processes that run
          forked,    \* the child left a process behind
          status,    \* exit status of the child
          reaped,    \* the caller waited for the child's end
          deadline,
          now

caller == <<pc, outcome, unsent, deadline, reaped>>
readers == <<got, reader>>
child == <<ends, written, alive, forked, status>>
vars == <<caller, readers, child, pipe, now>>

Process == {"child", "heir"}
Output == {"stdout", "stderr"}
Pipe == Output \cup {"stdin"}

Outcome == {"none", "Result", "TimedOut", "ProcessFailed", "InvalidOutput", "Io"}
Place == {"idle", "writing", "polling", "checking", "killing", "reaping",
          "joinStdout", "joinStderr", "answering", "returned"}

Init ==
    /\ pc = "idle"
    /\ outcome = "none"
    /\ unsent \in Requests
    /\ pipe = [p \in Pipe |-> 0]
    /\ ends = [p \in Pipe |-> {}]
    /\ written = [o \in Output |-> 0]
    /\ got = [o \in Output |-> 0]
    /\ reader = [o \in Output |-> "off"]
    /\ alive = {}
    /\ forked = FALSE
    /\ status = "none"
    /\ reaped = FALSE
    /\ deadline = Null
    /\ now = 0

Return(o) ==
    /\ pc' = "returned"
    /\ outcome' = o

(***************************************************************************)
(* The caller.                                                             *)
(***************************************************************************)
Spawn ==
    /\ pc = "idle"
    /\ pc' = "writing"
    /\ alive' = {"child"}
    /\ ends' = [p \in Pipe |-> {"child"}]
    /\ UNCHANGED <<outcome, unsent, pipe, written, readers, forked, status,
                   reaped, deadline, now>>

SpawnFails ==
    /\ pc = "idle"
    /\ Return("Io")
    /\ UNCHANGED <<unsent, deadline, reaped, readers, child, pipe, now>>

\* write_all: blocks while the pipe is full.
WriteRequest ==
    /\ pc = "writing"
    /\ unsent > 0
    /\ ends["stdin"] # {}
    /\ pipe["stdin"] < PipeSize
    /\ unsent' = unsent - 1
    /\ pipe' = [pipe EXCEPT !["stdin"] = @ + 1]
    /\ UNCHANGED <<pc, outcome, deadline, reaped, readers, child, now>>

\* Nobody holds the other end: execute returns at once and drops the child,
\* which Rust neither kills nor waits for.
WriteFails ==
    /\ pc = "writing"
    /\ unsent > 0
    /\ ends["stdin"] = {}
    /\ Return("Io")
    /\ UNCHANGED <<unsent, deadline, reaped, readers, child, pipe, now>>

\* stdin is dropped, the readers start, and only now the deadline is set.
StartWaiting ==
    /\ pc = "writing"
    /\ unsent = 0
    /\ pc' = "polling"
    /\ reader' = [o \in Output |-> "reading"]
    /\ deadline' = now + Timeout
    /\ UNCHANGED <<outcome, unsent, reaped, got, child, pipe, now>>

\* try_wait.
Poll ==
    /\ pc = "polling"
    /\ \/ /\ status # "none"
          /\ reaped' = TRUE
          /\ pc' = "joinStdout"
       \/ /\ status = "none"
          /\ pc' = "checking"
          /\ UNCHANGED reaped
    /\ UNCHANGED <<outcome, unsent, deadline, readers, child, pipe, now>>

\* The deadline is looked at after the child was; otherwise the caller sleeps.
CheckDeadline_Abandons ==
    /\ pc = "checking"
    /\ \/ now >= deadline /\ Return("TimedOut")
       \/ now < deadline /\ pc' = "polling" /\ UNCHANGED outcome
    /\ UNCHANGED <<unsent, deadline, reaped, readers, child, pipe, now>>

CheckDeadline ==
    /\ pc = "checking"
    /\ pc' = IF now >= deadline THEN "killing" ELSE "polling"
    /\ UNCHANGED <<outcome, unsent, deadline, reaped, readers, child, pipe, now>>

\* kill: the child ends unless it already did.  Its heir is not killed.
Kill_NoSignal ==
    /\ pc = "killing"
    /\ pc' = "reaping"
    /\ UNCHANGED <<outcome, unsent, deadline, reaped, readers, child, pipe, now>>

Kill ==
    /\ pc = "killing"
    /\ pc' = "reaping"
    /\ alive' = alive \ {"child"}
    /\ ends' = [p \in Pipe |-> ends[p] \ {"child"}]
    /\ status' = IF status = "none" THEN "killed" ELSE status
    /\ UNCHANGED <<outcome, unsent, deadline, reaped, readers, written, forked,
                   pipe, now>>

\* wait, then the error; the reader threads are left to themselves.
Reap ==
    /\ pc = "reaping"
    /\ status # "none"
    /\ reaped' = TRUE
    /\ Return("TimedOut")
    /\ UNCHANGED <<unsent, deadline, readers, child, pipe, now>>

\* join_pipe of stdout, then of stderr: there is no deadline here.
Join(o, here, next) ==
    /\ pc = here
    /\ reader[o] = "done"
    /\ pc' = next
    /\ UNCHANGED <<outcome, unsent, deadline, reaped, readers, child, pipe, now>>

\* A child that succeeded has answered, if its output parses.
Answer ==
    /\ pc = "answering"
    /\ \/ status # "success" /\ Return("ProcessFailed")
       \/ status = "success" /\ \E o \in {"Result", "InvalidOutput"} : Return(o)
    /\ UNCHANGED <<unsent, deadline, reaped, readers, child, pipe, now>>

Caller ==
    \/ Spawn \/ SpawnFails
    \/ WriteRequest \/ WriteFails \/ StartWaiting
    \/ Poll \/ CheckDeadline \/ Kill \/ Reap
    \/ Join("stdout", "joinStdout", "joinStderr")
    \/ Join("stderr", "joinStderr", "answering")
    \/ Answer

(***************************************************************************)
(* The reader threads: read_to_end.                                        *)
(***************************************************************************)
Read(o) ==
    /\ reader[o] = "reading"
    /\ pipe[o] > 0
    /\ pipe' = [pipe EXCEPT ![o] = @ - 1]
    /\ got' = [got EXCEPT ![o] = @ + 1]
    /\ UNCHANGED <<caller, child, reader, now>>

EndOfFile_WhenEmpty(o) ==
    /\ reader[o] = "reading"
    /\ pipe[o] = 0
    /\ reader' = [reader EXCEPT ![o] = "done"]
    /\ UNCHANGED <<caller, child, pipe, got, now>>

EndOfFile(o) ==
    /\ reader[o] = "reading"
    /\ pipe[o] = 0
    /\ ends[o] = {}
    /\ reader' = [reader EXCEPT ![o] = "done"]
    /\ UNCHANGED <<caller, child, pipe, got, now>>

Reader(o) == Read(o) \/ EndOfFile(o)

(***************************************************************************)
(* The processes on the other side.                                        *)
(***************************************************************************)
ReadInput(p) ==
    /\ p \in alive \cap ends["stdin"]
    /\ pipe["stdin"] > 0
    /\ pipe' = [pipe EXCEPT !["stdin"] = @ - 1]
    /\ UNCHANGED <<caller, readers, child, now>>

\* Blocks while the pipe is full; fails when the caller's end is gone.
WriteOutput(p, o) ==
    /\ p \in alive \cap ends[o]
    /\ pc = "writing" \/ reader[o] = "reading"
    /\ pipe[o] < PipeSize
    /\ written[o] < MaxOutput
    /\ pipe' = [pipe EXCEPT ![o] = @ + 1]
    /\ written' = [written EXCEPT ![o] = @ + 1]
    /\ UNCHANGED <<caller, readers, ends, alive, forked, status, now>>

CloseEnd(p, e) ==
    /\ p \in alive \cap ends[e]
    /\ ends' = [ends EXCEPT ![e] = @ \ {p}]
    /\ UNCHANGED <<caller, readers, written, alive, forked, status, pipe, now>>

Fork ==
    /\ "child" \in alive
    /\ ~forked
    /\ forked' = TRUE
    /\ alive' = alive \cup {"heir"}
    /\ ends' = [e \in Pipe |->
                   IF "child" \in ends[e] THEN ends[e] \cup {"heir"} ELSE ends[e]]
    /\ UNCHANGED <<caller, readers, written, status, pipe, now>>

Exit(p) ==
    /\ p \in alive
    /\ alive' = alive \ {p}
    /\ ends' = [e \in Pipe |-> ends[e] \ {p}]
    /\ \/ p = "child" /\ status' \in {"success", "failure"}
       \/ p = "heir" /\ UNCHANGED status
    /\ UNCHANGED <<caller, readers, written, forked, pipe, now>>

Tick ==
    /\ pc \notin {"idle", "returned"}
    /\ now < IF deadline = Null THEN MaxWriting ELSE deadline
    /\ now' = now + 1
    /\ UNCHANGED <<caller, readers, child, pipe>>

Other ==
    \/ \E p \in Process : ReadInput(p) \/ Exit(p)
    \/ \E p \in Process, o \in Output : WriteOutput(p, o)
    \/ \E p \in Process, e \in Pipe : CloseEnd(p, e)
    \/ Fork

Next == Caller \/ (\E o \in Output : Reader(o)) \/ Other \/ Tick

Spec == Init /\ [][Next]_vars

\* Threads of the sandbox run and time passes; nothing is assumed of the child.
\* A call that was never made need not be.
FairSpec ==
    /\ Spec
    /\ WF_vars(pc # "idle" /\ Caller)
    /\ \A o \in Output : WF_vars(Reader(o))
    /\ WF_vars(Tick)

(***************************************************************************)
(* Properties.                                                             *)
(***************************************************************************)

\* Every variable has its type.
TypeOK ==
    /\ pc \in Place
    /\ outcome \in Outcome
    /\ unsent \in Nat
    /\ pipe \in [Pipe -> 0 .. PipeSize]
    /\ ends \in [Pipe -> SUBSET Process]
    /\ written \in [Output -> Nat]
    /\ got \in [Output -> Nat]
    /\ reader \in [Output -> {"off", "reading", "done"}]
    /\ alive \in SUBSET Process
    /\ forked \in BOOLEAN
    /\ status \in {"none", "success", "failure", "killed"}
    /\ reaped \in BOOLEAN
    /\ deadline \in Nat \cup {Null}
    /\ now \in Nat

\* A result was parsed from the whole output, of a child that ended by itself and
\* successfully, however its writes, its end, the deadline and the readers
\* interleave, and although the process it left behind writes to the same pipe.
ResultIsWhole ==
    outcome \in {"Result", "InvalidOutput"} =>
        /\ status = "success"
        /\ \A o \in Output : got[o] = written[o] /\ ends[o] = {}

\* A call that returned anything but an input or output error leaves no child, and
\* no zombie: it has ended and was waited for, also when it ended between the last
\* poll and the kill.
EndedCallReaps ==
    pc = "returned" /\ outcome # "Io" =>
        reaped /\ "child" \notin alive /\ status # "none"

HeldByHeir == \E o \in Output : "heir" \in ends[o]

\* Once the request is written the call returns, whatever the child does, unless a
\* process that the child left behind keeps an output open; and a request that
\* fits the pipe is always written.
CallReturns ==
    <>[](~HeldByHeir) =>
        /\ pc = "polling" ~> pc = "returned"
        /\ pc = "writing" /\ unsent <= PipeSize /\ pipe["stdin"] = 0
              ~> pc = "returned"

\* While the caller waits, no writer stays blocked on a full pipe: both outputs are
\* drained at the same time.
PipesDrain ==
    \A o \in Output :
        pc = "polling" /\ pipe[o] = PipeSize ~> pipe[o] < PipeSize

\* A child can neither hold the call with its silence nor with its output.
ChildCannotHold == CallReturns /\ PipesDrain

\* "enforces a timeout" (README.md): a call that spawned its child comes to an end,
\* whatever the child does, if it leaves no process behind.
TimeoutIsEnforced ==
    [](~forked) => (pc = "writing" ~> pc = "returned")
=============================================================================
