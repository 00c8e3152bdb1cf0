------------------------ MODULE MCControllerMessages ------------------------
(***************************************************************************)
(* ControllerMessages for TLC, with a second instance of it over the same  *)
(* variables, and the command line that sends its commands; in an          *)
(* execution one of them runs and the others are at rest.                  *)
(*                                                                         *)
(* "serial": a client sends one command after the other and waits for each *)
(*           answer; functions fail to load, raise, print and garble their *)
(*           answer (the configuration gives Clients and Faults these      *)
(*           values)                                                       *)
(* "impatient": two commands at a time, and clients that give up           *)
(* "funk": processes of the command line, two services, and an address     *)
(*         where there is none                                             *)
(***************************************************************************)
EXTENDS ControllerMessages

CONSTANTS Last,                                  \* a handler
          Processes, Services, Nowhere, Empty,   \* of Funker
          Overlay

VARIABLES
  scenario,    \* fixed at the start
  \* of Funker
  funkrc, saved, overlapped, stage, command, address, conn, calls, served, answer

Impatient == INSTANCE ControllerMessages WITH
               Clients <- 2, Faults <- FaultKinds

Funk == INSTANCE Funker

ASSUME ScenarioAssumption ==
  /\ Last \in Handlers
  /\ MessagesAssumption
  /\ Impatient!MessagesAssumption
  /\ Funk!FunkerAssumption

funkVars ==
  <<funkrc, saved, overlapped, stage, command, address, conn, calls, served, answer>>
mcVars == <<scenario, vars, funkVars>>

\* For Overlay: the address of nothing is shorter than those of the services, and
\* written over one of them leaves that of another.
ShortOverLong ==
  [t \in (Services \cup {Nowhere}) \X (Services \cup {Nowhere}) |->
     IF t[1] = Nowhere /\ t[2] \in Services /\ Services # {t[2]}
     THEN CHOOSE s \in Services : s # t[2] ELSE t[1]]

MCInit ==
  /\ \/ scenario \in {"serial", "funk"} /\ Init
     \/ scenario = "impatient" /\ Impatient!Init
  /\ Funk!Init

SerialNext == scenario = "serial" /\ Next /\ UNCHANGED <<scenario, funkVars>>

\* One command less: the last handler never begins.
ImpatientNext ==
  scenario = "impatient" /\ Impatient!Next /\ pc'[Last] = "new"
    /\ UNCHANGED <<scenario, funkVars>>

FunkNext == scenario = "funk" /\ Funk!Next /\ UNCHANGED <<scenario, vars>>

MCNext == SerialNext \/ ImpatientNext \/ FunkNext

MCSpec == MCInit /\ [][MCNext]_mcVars

\* The fairness of ControllerMessages; no property of the other scenarios
\* needs any.
InSerial(A) == scenario = "serial" /\ A /\ UNCHANGED <<scenario, funkVars>>

MCFairness ==
  /\ WF_mcVars(InSerial(Started))
  /\ WF_mcVars(InSerial(ReadAhead))
  /\ WF_mcVars(InSerial(LoadFunction))
  /\ WF_mcVars(InSerial(ReceiveRequest))
  /\ SF_mcVars(InSerial(Compute /\ program' # "busy"))
  /\ WF_mcVars(InSerial(Reader))
  /\ WF_mcVars(InSerial(AttachStreams))
  /\ \A h \in Handlers : WF_mcVars(InSerial(Handler(h)))

MCFairSpec == MCSpec /\ MCFairness

-----------------------------------------------------------------------------
(* RunsOnce of ControllerMessages is checked in every scenario; the        *)
(* properties here in the scenarios they are about.                        *)

\* Between two commands nothing is left on its way, no message, no line but
\* logs, and what the client takes for loaded is what the program holds
\* (controller.go:325): for a client that waits for its answers.
SerialIsQuiet ==
  scenario = "serial" => QuietBetweenCommands /\ BeliefIsTrue

\* The answer a client gets is the answer to its own request, computed by the
\* function that was loaded when it asked (controller.go:256): for a client
\* that waits for its answers.
OwnAnswer == [][scenario = "serial" => AnswersItsOwn]_mcVars

\* A command of funk that reports success was carried out, exactly once, by the
\* service it was sent to (client.go:63), and that is one whose address somebody
\* saved, unless two processes have written the file at a time (funker.go:113).
FunkServedWhereSaved ==
  Funk!TypeOK /\ Funk!CarriedOutOnce /\ Funk!ServedWhereSaved

\* Every command of a client that waits gets an answer, unless the program is
\* gone, or has sent as the answer what Go does not read as a message
\* (controller.go:118, controller.go:274).
CommandsReturn ==
  \A h \in Handlers :
    scenario = "serial" /\ h \in waiting ~>
      (h \notin waiting \/ program = "dead" \/ h \in lost)

=============================================================================
