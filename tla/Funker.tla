------------------------------- MODULE Funker -------------------------------
(***************************************************************************)
(* The funk command line (src/funk): every command is a process of its     *)
(* own.  "target" saves the address of a refunction service in a file; the *)
(* others read it, dial, make one call that is given ten seconds, and      *)
(* close the connection.                                                   *)
(*                                                                         *)
(* Abstractions: what the service does with a call is CRIService's and     *)
(* ControllerMessages'; here it is one step, whose outcome is a success or *)
(* an error.  A process runs one command.                                  *)
(***************************************************************************)
EXTENDS Naturals

CONSTANTS
  Processes,  \* processes of funk
  Services,   \* addresses at which a service listens
  Nowhere,    \* an address at which nothing does
  Overlay,    \* what a file with the second address holds when the first has been
              \* written over its beginning
  None,       \* no file, no command, no connection
  Empty       \* the file that was opened for writing and is not written yet

Targets == Services \cup {Nowhere}
Calls == {"list", "function", "request", "restore"}
Commands == Calls \cup {"target"}

FunkerAssumption ==
  /\ Nowhere \notin Services
  /\ {None, Empty} \cap Targets = {} /\ None # Empty
  /\ Overlay \in [Targets \X Targets -> Targets]

VARIABLES
  funkrc,   \* ~/.funkrc: None, Empty, or an address
  saved,    \* the addresses that were ever given to "target"
  overlapped,  \* two processes have had the file open for writing at a time
  stage,    \* where each process is
  command,  \* its command
  address,  \* the address it saves, or has read
  conn,     \* its connection: "none" | "open" | "closed"
  calls,    \* processes whose call is on its way to a service
  served,   \* how often each service has carried out, or refused, the call of each process
  answer    \* what has come back: None | "success" | "failure"

vars == <<funkrc, saved, overlapped, stage, command, address, conn, calls, served, answer>>

TypeOK ==
  /\ funkrc \in Targets \cup {None, Empty}
  /\ saved \subseteq Targets
  /\ overlapped \in BOOLEAN
  /\ stage \in [Processes -> {"new", "open", "write", "start", "dial", "call", "await",
                              "close", "ok", "error"}]
  /\ command \in [Processes -> Commands \cup {None}]
  /\ address \in [Processes -> Targets \cup {None, Empty}]
  /\ conn \in [Processes -> {"none", "open", "closed"}]
  /\ calls \subseteq Processes
  /\ served \in [Services -> [Processes -> Nat]]
  /\ answer \in [Processes -> {None, "success", "failure"}]

Init ==
  /\ funkrc = None
  /\ saved = {}
  /\ overlapped = FALSE
  /\ stage = [p \in Processes |-> "new"]
  /\ command = [p \in Processes |-> None]
  /\ address = [p \in Processes |-> None]
  /\ conn = [p \in Processes |-> "none"]
  /\ calls = {}
  /\ served = [s \in Services |-> [p \in Processes |-> 0]]
  /\ answer = [p \in Processes |-> None]

-----------------------------------------------------------------------------
Goto(p, s) == stage' = [stage EXCEPT ![p] = s]

\* The user starts a command.
Run(p) ==
  /\ stage[p] = "new"
  /\ \E c \in Commands :
       /\ command' = [command EXCEPT ![p] = c]
       /\ IF c = "target"
          THEN /\ \E t \in Targets : /\ address' = [address EXCEPT ![p] = t]
                                     /\ saved' = saved \cup {t}
               /\ Goto(p, "open")
          ELSE Goto(p, "start") /\ UNCHANGED <<address, saved>>
  /\ UNCHANGED <<funkrc, overlapped, conn, calls, served, answer>>

\* ioutil.WriteFile opens the file, which empties it, and writes from its start:
\* over what another process has written since.  Either may fail.
SaveTarget(p) ==
  /\ \/ /\ stage[p] = "open"
        /\ funkrc' = Empty
        /\ overlapped' = (overlapped \/ \E q \in Processes : stage[q] = "write")
        /\ Goto(p, "write")
     \/ /\ stage[p] = "write"
        /\ funkrc' = IF funkrc \in Targets THEN Overlay[<<address[p], funkrc>>]
                     ELSE address[p]
        /\ UNCHANGED overlapped
        /\ Goto(p, "ok")
     \/ /\ stage[p] \in {"open", "write"}
        /\ UNCHANGED <<funkrc, overlapped>>
        /\ Goto(p, "error")
  /\ UNCHANGED <<saved, command, address, conn, calls, served, answer>>

getTarget(p) ==
  /\ stage[p] = "start"
  /\ IF funkrc = None
     THEN Goto(p, "error") /\ UNCHANGED address
     ELSE Goto(p, "dial") /\ address' = [address EXCEPT ![p] = funkrc]
  /\ UNCHANGED <<funkrc, saved, overlapped, command, conn, calls, served, answer>>

\* Dial does not wait for anyone to listen.
Dial(p) ==
  /\ stage[p] = "dial"
  /\ \/ conn' = [conn EXCEPT ![p] = "open"] /\ Goto(p, "call")
     \/ Goto(p, "error") /\ UNCHANGED conn
  /\ UNCHANGED <<funkrc, saved, overlapped, command, address, calls, served, answer>>

\* A call fails at once where nobody listens, and anywhere with the network.
Call(p) ==
  /\ stage[p] = "call"
  /\ \/ /\ address[p] \in Services
        /\ calls' = calls \cup {p}
        /\ Goto(p, "await")
     \/ Goto(p, "error") /\ UNCHANGED calls
  /\ UNCHANGED <<funkrc, saved, overlapped, command, address, conn, served, answer>>

\* The service carries out the call, or refuses it; its answer may be lost.
Serve(p) ==
  /\ p \in calls
  /\ calls' = calls \ {p}
  /\ served' = [served EXCEPT ![address[p]][p] = @ + 1]
  /\ \E a \in {None, "success", "failure"} : answer' = [answer EXCEPT ![p] = a]
  /\ UNCHANGED <<funkrc, saved, overlapped, stage, command, address, conn>>

\* Variant: the error of the call is not looked at.
ReturnIgnoresError(p) ==
  /\ stage[p] = "await"
  /\ answer[p] # None
  /\ Goto(p, "close")
  /\ UNCHANGED <<funkrc, saved, overlapped, command, address, conn, calls, served, answer>>

\* An error is returned at once: only a success closes the connection.
Return(p) ==
  /\ stage[p] = "await"
  /\ answer[p] # None
  /\ Goto(p, IF answer[p] = "success" THEN "close" ELSE "error")
  /\ UNCHANGED <<funkrc, saved, overlapped, command, address, conn, calls, served, answer>>

\* Ten seconds are over, for a call that was not made yet or not answered: the
\* service is told, but a handler that runs goes on.
Timeout(p) ==
  /\ stage[p] = "await"
  /\ Goto(p, "error")
  /\ calls' \in {calls, calls \ {p}}
  /\ UNCHANGED <<funkrc, saved, overlapped, command, address, conn, served, answer>>

Close(p) ==
  /\ stage[p] = "close"
  /\ conn' = [conn EXCEPT ![p] = "closed"]
  /\ Goto(p, "ok")
  /\ UNCHANGED <<funkrc, saved, overlapped, command, address, calls, served, answer>>

Next ==
  \E p \in Processes :
    \/ Run(p) \/ SaveTarget(p) \/ getTarget(p) \/ Dial(p) \/ Call(p)
    \/ Serve(p) \/ Return(p) \/ Timeout(p) \/ Close(p)

Spec == Init /\ [][Next]_vars

-----------------------------------------------------------------------------
(* Properties.                                                             *)

\* A command that reports success was carried out exactly once, by the service
\* it was sent to and by no other, and none is carried out twice, though files
\* are written beside it and calls given up (client.go:63).
CarriedOutOnce ==
  \A p \in Processes :
    /\ \A s \in Services : served[s][p] <= (IF s = address[p] THEN 1 ELSE 0)
    /\ stage[p] = "ok" /\ command[p] \in Calls =>
         answer[p] = "success" /\ \E s \in Services : served[s][p] = 1

\* A service at an address that nobody saved is never called (funker.go:113);
\* unless two processes have written the file at a time, whose addresses are laid
\* over each other.
ServedWhereSaved ==
  ~overlapped =>
    \A s \in Services, p \in Processes : served[s][p] > 0 => s \in saved

=============================================================================
