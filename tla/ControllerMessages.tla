------------------------- MODULE ControllerMessages -------------------------
(***************************************************************************)
(* The messages between a controller and the program in its container      *)
(* (src/controller/controller.go, src/images/python/refunction.py), and    *)
(* the commands that use them: the handlers of the CRI service             *)
(* (src/cri/service/controller_service.go) and their clients, who may give *)
(* up waiting as funk does (src/funk/funker/funker.go; see Funker).        *)
(*                                                                         *)
(* A handler writes a line to the program's input and takes messages from  *)
(* c.messages, a channel of capacity one, until one has the type it waits  *)
(* for.  A reader goroutine fills the channel from the program's output.   *)
(* Restore puts the memory of the program back, and with it what it has    *)
(* read ahead; the pipes, the reader and the channel stay as they are.     *)
(*                                                                         *)
(* Abstractions: a message is its type, the handler whose line it is or    *)
(* answers, and the function that computed it; how threads are stopped is  *)
(* Controller's, so a Restore is one step.  A handler serves one command.  *)
(***************************************************************************)
EXTENDS Naturals, Sequences, FiniteSets

CONSTANTS
  Handlers,   \* handler goroutines, one for each command
  Functions,  \* the functions that can be loaded
  None,       \* no function, no message
  Clients,    \* how many commands may wait for their answer at a time
  Faults      \* what may go wrong, see FaultKinds

\* "load": a function does not load      "raise": a function raises, or returns
\* what JSON cannot hold                 "print": a function prints
\* "garble": a function returns NaN or Infinity, which Python writes and Go does
\* not read, or leaves a line it prints without its end, so that the answer is
\* not a line of its own                 "timeout": a client gives up
\* "late": the streams of the container are attached only after it has started
FaultKinds == {"load", "raise", "print", "garble", "timeout", "late"}

Types == {"function", "request", "started", "function_loaded", "response", "log",
          "garbled"}
Message == [type : Types, id : Handlers \cup {None},
            fn : Functions \cup {None}, ok : BOOLEAN]
Msg(type, id, f, ok) == [type |-> type, id |-> id, fn |-> f, ok |-> ok]

MessagesAssumption ==
  /\ IsFiniteSet(Handlers)
  /\ None \notin Functions \cup Handlers \cup Message
  /\ {"new", "unknown"} \cap (Functions \cup {None}) = {}
  /\ Clients \in Nat \ {0}
  /\ Faults \subseteq FaultKinds

VARIABLES
  program,   \* "starting" | "load" | "serve" | "busy" | "dead"
  loaded,    \* the function in the program's memory
  job,       \* the request it computes
  ahead,     \* the lines it has read ahead, in its memory
  stdin,     \* the lines in the pipe to it
  stdout,    \* the lines in the pipe from it
  streams,   \* whether the pipes are attached to the program's output
  hand,      \* the message the reader goroutine wants to deliver
  chan,      \* c.messages
  lost,      \* handlers whose answer was a line the reader could not use
  pc,        \* where each handler is
  cmd,       \* its command
  fn,        \* the function of the command: to load, or loaded when it asks
  reply,     \* what its command returned
  waiting,   \* handlers whose client still waits
  believed   \* what the clients take for loaded; "unknown" after a timeout

progVars == <<program, loaded, job, ahead>>
pipeVars == <<stdin, stdout, streams>>
readVars == <<hand, chan, lost>>
callVars == <<pc, cmd, fn, reply, waiting, believed>>
vars     == <<progVars, pipeVars, readVars, callVars>>

Commands == {"activate", "function", "request", "restore"}

TypeOK ==
  /\ program \in {"starting", "load", "serve", "busy", "dead"}
  /\ loaded \in Functions \cup {None}
  /\ job \in Message \cup {None}
  /\ ahead \in Seq(Message) /\ stdin \in Seq(Message) /\ stdout \in Seq(Message)
  /\ streams \in BOOLEAN
  /\ hand \in Message \cup {None}
  /\ chan \in Message \cup {None}
  /\ lost \subseteq Handlers \cup {None}
  /\ pc \in [Handlers -> {"new", "write", "await", "done", "error"}]
  /\ cmd \in [Handlers -> Commands \cup {None}]
  /\ fn \in [Handlers -> Functions \cup {None}]
  /\ reply \in [Handlers -> Message \cup {None}]
  /\ waiting \subseteq Handlers
  /\ believed \in Functions \cup {None, "new", "unknown"}

Init ==
  /\ program = "starting"
  /\ loaded = None
  /\ job = None
  /\ ahead = <<>> /\ stdin = <<>> /\ stdout = <<>>
  /\ streams = ("late" \notin Faults)
  /\ hand = None
  /\ chan = None
  /\ lost = {}
  /\ pc = [h \in Handlers |-> "new"]
  /\ cmd = [h \in Handlers |-> None]
  /\ fn = [h \in Handlers |-> None]
  /\ reply = [h \in Handlers |-> None]
  /\ waiting = {}
  /\ believed = "new"

-----------------------------------------------------------------------------
(* The program: refunction.py.                                             *)

\* print(..., flush=True): a line nobody is attached for is lost.
Emit(m) == stdout' = IF streams THEN Append(stdout, m) ELSE stdout

\* send_data of what has succeeded: the line may be one that Go cannot read.
EmitAnswer(type, id, f) ==
  \/ Emit(Msg(type, id, f, TRUE))
  \/ "garble" \in Faults /\ Emit(Msg("garbled", id, f, TRUE))

Started ==
  /\ program = "starting"
  /\ program' = "load"
  /\ Emit(Msg("started", None, None, TRUE))
  /\ UNCHANGED <<loaded, job, ahead, stdin, streams, readVars, callVars>>

\* Python's input is buffered: a read takes what is there.
ReadAhead ==
  /\ program \in {"load", "serve"}
  /\ ahead = <<>>
  /\ stdin # <<>>
  /\ ahead' = stdin
  /\ stdin' = <<>>
  /\ UNCHANGED <<program, loaded, job, stdout, streams, readVars, callVars>>

\* Variants: what a failed load might do.
LoadFunctionSilent ==
  /\ program = "load"
  /\ ahead # <<>>
  /\ ahead' = Tail(ahead)
  /\ LET m == Head(ahead) IN
       \/ m.type # "function" /\ UNCHANGED <<program, loaded, stdout>>
       \/ /\ m.type = "function"
          /\ program' = "serve"
          /\ loaded' = m.fn
          /\ Emit(Msg("function_loaded", m.id, m.fn, TRUE))
       \/ /\ m.type = "function"
          /\ "load" \in Faults
          /\ UNCHANGED <<program, loaded, stdout>>
  /\ UNCHANGED <<job, stdin, streams, readVars, callVars>>

LoadFunctionGoesOn ==
  /\ program = "load"
  /\ ahead # <<>>
  /\ ahead' = Tail(ahead)
  /\ LET m == Head(ahead) IN
       \/ m.type # "function" /\ UNCHANGED <<program, loaded, stdout>>
       \/ /\ m.type = "function"
          /\ program' = "serve"
          /\ loaded' = m.fn
          /\ \/ Emit(Msg("function_loaded", m.id, m.fn, TRUE))
             \/ /\ "load" \in Faults
                /\ stdout' = stdout \o <<Msg("function_loaded", m.id, m.fn, FALSE),
                                         Msg("function_loaded", m.id, m.fn, TRUE)>>
  /\ UNCHANGED <<job, stdin, streams, readVars, callVars>>

\* The load loop skips what is not a function.  A load that fails is reported,
\* and the loop goes on.
LoadFunction ==
  /\ program = "load"
  /\ ahead # <<>>
  /\ ahead' = Tail(ahead)
  /\ LET m == Head(ahead) IN
       \/ /\ m.type # "function"
          /\ UNCHANGED <<program, loaded, stdout>>
       \/ /\ m.type = "function"
          /\ program' = "serve"
          /\ loaded' = m.fn
          /\ EmitAnswer("function_loaded", m.id, m.fn)
       \/ /\ m.type = "function"
          /\ "load" \in Faults
          /\ Emit(Msg("function_loaded", m.id, m.fn, FALSE))
          /\ UNCHANGED <<program, loaded>>
  /\ UNCHANGED <<job, stdin, streams, readVars, callVars>>

\* The serve loop skips what is not a request.
ReceiveRequest ==
  /\ program = "serve"
  /\ ahead # <<>>
  /\ ahead' = Tail(ahead)
  /\ \/ /\ Head(ahead).type # "request"
        /\ UNCHANGED <<program, job>>
     \/ /\ Head(ahead).type = "request"
        /\ program' = "busy"
        /\ job' = Head(ahead)
  /\ UNCHANGED <<loaded, pipeVars, readVars, callVars>>

\* Variant: a result is reported twice.
ComputeTwice ==
  /\ program = "busy"
  /\ program' = "serve"
  /\ job' = None
  /\ stdout' = stdout \o <<Msg("response", job.id, loaded, TRUE),
                         Msg("response", job.id, loaded, TRUE)>>
  /\ UNCHANGED <<loaded, ahead, stdin, streams, readVars, callVars>>

\* main(data) returns.  An exception is not caught: it ends the program.
Compute ==
  /\ program = "busy"
  /\ \/ /\ program' = "serve"
        /\ job' = None
        /\ EmitAnswer("response", job.id, loaded)
     \/ /\ "raise" \in Faults
        /\ program' = "dead"
        /\ job' = None
        /\ UNCHANGED stdout
     \/ /\ "print" \in Faults
        /\ Len(stdout) < 2
        /\ Emit(Msg("log", None, None, TRUE))
        /\ UNCHANGED <<program, job>>
  /\ UNCHANGED <<loaded, ahead, stdin, streams, readVars, callVars>>

-----------------------------------------------------------------------------
(* The reader goroutine, and the channel.                                  *)

\* SetStreams' goroutine: a line that is no message, and logs, are skipped.
ReadLine ==
  /\ hand = None
  /\ stdout # <<>>
  /\ stdout' = Tail(stdout)
  /\ hand' = IF Head(stdout).type \in {"log", "garbled"} THEN None ELSE Head(stdout)
  /\ lost' = IF Head(stdout).type = "garbled" THEN lost \cup {Head(stdout).id} ELSE lost
  /\ UNCHANGED <<progVars, stdin, streams, chan, callVars>>

\* c.messages <- message
Deliver ==
  /\ hand # None
  /\ chan = None
  /\ chan' = hand
  /\ hand' = None
  /\ UNCHANGED <<progVars, pipeVars, lost, callVars>>

-----------------------------------------------------------------------------
(* The handlers.                                                           *)

Goto(h, p) == pc' = [pc EXCEPT ![h] = p]

Awaited(c) == IF c = "activate" THEN "started"
              ELSE IF c = "function" THEN "function_loaded" ELSE "response"

\* The client: activate first, load a function into a container that has none,
\* ask one that has; after a timeout, restore.
Legal(c) ==
  /\ c = "activate" => believed = "new"
  /\ c = "function" => believed = None
  /\ c = "request"  => believed \in Functions
  /\ c = "restore"  => believed # "new"

\* While a command changes what is loaded, no other runs (its clients see to
\* that); requests may run beside requests.
Exclusive(c) == c # "request"

Begin(h) ==
  /\ pc[h] = "new"
  /\ Cardinality(waiting) < Clients
  /\ \A w \in waiting : ~Exclusive(cmd[w])
  /\ \E c \in Commands :
       /\ Legal(c)
       /\ Exclusive(c) => waiting = {}
       /\ cmd' = [cmd EXCEPT ![h] = c]
       /\ \/ c = "function" /\ \E f \in Functions : fn' = [fn EXCEPT ![h] = f]
          \/ c = "request" /\ fn' = [fn EXCEPT ![h] = believed]
          \/ c \notin {"function", "request"} /\ UNCHANGED fn
       /\ Goto(h, IF c = "activate" THEN "await" ELSE "write")
  /\ waiting' = waiting \cup {h}
  /\ believed' = IF believed = "new" THEN "unknown" ELSE believed
  /\ UNCHANGED <<progVars, pipeVars, readVars, reply>>

\* What the client makes of an answer it still waits for.
Answered(h, m, b) ==
  /\ reply' = [reply EXCEPT ![h] = m]
  /\ believed' = IF h \in waiting THEN b ELSE believed
  /\ waiting' = waiting \ {h}

\* SendMessage: one line with the type and the data, written as a whole.
SendMessage(h) == stdin' = Append(stdin, Msg(cmd[h], h, fn[h], TRUE))

\* Variant: the line is written again when no answer has come.
WriteAgain(h) ==
  /\ pc[h] \in {"write", "await"}
  /\ cmd[h] \in {"function", "request"}
  /\ Len(stdin) < 2
  /\ Goto(h, "await")
  /\ SendMessage(h)
  /\ UNCHANGED <<progVars, stdout, streams, readVars, cmd, fn, reply, waiting, believed>>

\* SendFunction and SendRequest write their line.  With the program gone the
\* write fails, or is taken by a pipe nobody reads.
Write(h) ==
  /\ pc[h] = "write"
  /\ cmd[h] \in {"function", "request"}
  /\ \/ /\ Goto(h, "await")
        /\ SendMessage(h)
        /\ UNCHANGED <<reply, waiting, believed>>
     \/ /\ program = "dead"
        /\ Goto(h, "error")
        /\ Answered(h, None, "unknown")
        /\ UNCHANGED stdin
  /\ UNCHANGED <<progVars, stdout, streams, readVars, cmd, fn>>

\* AwaitMessage takes whatever comes, and drops what it does not wait for.
AwaitDrops(h) ==
  /\ pc[h] = "await"
  /\ chan # None
  /\ chan.type # Awaited(cmd[h])
  /\ chan' = None
  /\ UNCHANGED <<progVars, pipeVars, hand, lost, callVars>>

\* SendFunction returns an error if the function has not loaded; Activate goes
\* on to attach and to take the checkpoint.
AwaitReturns(h) ==
  /\ pc[h] = "await"
  /\ chan # None
  /\ chan.type = Awaited(cmd[h])
  /\ chan' = None
  /\ Goto(h, IF chan.ok THEN "done" ELSE "error")
  /\ Answered(h, chan, IF cmd[h] = "function" /\ chan.ok THEN fn[h]
                       ELSE IF cmd[h] = "request" THEN believed ELSE None)
  /\ UNCHANGED <<progVars, pipeVars, hand, lost, cmd, fn>>

\* Restore: the program is back where Activate found it, in its load loop.
Restore(h) ==
  /\ pc[h] = "write"
  /\ cmd[h] = "restore"
  /\ \/ /\ program \notin {"dead", "starting"}
        /\ program' = "load"
        /\ loaded' = None
        /\ job' = None
        /\ ahead' = <<>>
        /\ Goto(h, "done")
        /\ Answered(h, None, None)
     \/ /\ program \in {"dead", "starting"}
        /\ Goto(h, "error")
        /\ Answered(h, None, "unknown")
        /\ UNCHANGED progVars
  /\ UNCHANGED <<pipeVars, readVars, cmd, fn>>

\* The funk client gives up after ten seconds; the handler is not told, and
\* sends, waits or restores all the same.
Timeout(h) ==
  /\ "timeout" \in Faults
  /\ h \in waiting
  /\ cmd[h] \in {"function", "request", "restore"}
  /\ waiting' = waiting \ {h}
  /\ believed' = "unknown"
  /\ UNCHANGED <<progVars, pipeVars, readVars, pc, cmd, fn, reply>>

\* The goroutine of setControllerStreams reaches the container.
AttachStreams ==
  /\ ~streams
  /\ streams' = TRUE
  /\ UNCHANGED <<progVars, stdin, stdout, readVars, callVars>>

-----------------------------------------------------------------------------
Program == Started \/ ReadAhead \/ LoadFunction \/ ReceiveRequest \/ Compute
Reader == ReadLine \/ Deliver
Handler(h) == Write(h) \/ AwaitDrops(h) \/ AwaitReturns(h) \/ Restore(h)

Next ==
  \/ Program \/ Reader \/ AttachStreams
  \/ \E h \in Handlers : Begin(h) \/ Handler(h) \/ Timeout(h)

Spec == Init /\ [][Next]_vars

\* The goroutines and the program are scheduled; a function prints only so
\* often before it returns.
Fairness ==
  /\ WF_vars(Started) /\ WF_vars(ReadAhead) /\ WF_vars(LoadFunction)
  /\ WF_vars(ReceiveRequest) /\ SF_vars(Compute /\ program' # "busy")
  /\ WF_vars(Reader) /\ WF_vars(AttachStreams)
  /\ \A h \in Handlers : WF_vars(Handler(h))

FairSpec == Spec /\ Fairness

-----------------------------------------------------------------------------
(* Properties.                                                             *)

\* A command runs at most once and its answer goes to one handler at most,
\* however clients give up, handlers live on, and Restores come between: the
\* line of a command is in one place, or is its answer (controller.go:256).
Lines(q, h) == Cardinality({i \in DOMAIN q : q[i].id = h})
One(m, h) == IF m # None /\ m.id = h THEN 1 ELSE 0
Answers(h) == Cardinality({g \in Handlers : reply[g] # None /\ reply[g].id = h})

Places(h) ==
  Lines(stdin, h) + Lines(ahead, h) + One(job, h) + Lines(stdout, h)
    + One(hand, h) + One(chan, h) + Answers(h)

RunsOnce ==
  \A h \in Handlers : Places(h) <= 1 /\ (pc[h] \in {"new", "write"} => Places(h) = 0)

\* Between two commands nothing is left on its way: no message in the channel
\* or with the reader, no line in a pipe but logs (controller.go:325).
QuietBetweenCommands ==
  waiting = {} /\ program \in {"load", "serve"} /\ believed # "new" =>
    /\ chan = None
    /\ hand = None
    /\ stdin = <<>> /\ ahead = <<>>
    /\ \A i \in DOMAIN stdout : stdout[i].type = "log"

\* What the clients take for loaded is what the program holds.
BeliefIsTrue ==
  waiting = {} /\ believed \in Functions \cup {None} /\ program # "dead" =>
    loaded = believed

\* A client that no longer waits, and was not refused, has the answer to its own
\* command, computed by the function that was loaded when it asked.
AnswersItsOwn ==
  \A h \in Handlers :
    h \in waiting /\ h \notin waiting' /\ pc'[h] = "done"
      /\ cmd[h] \in {"function", "request"} =>
        reply'[h].id = h /\ reply'[h].fn = fn[h]

=============================================================================
