-------------------------- MODULE MessageProvider ---------------------------
(***************************************************************************)
(* How the invoker sends and receives (src/invoker/messages): a provider   *)
(* with a connection, a writer for each topic and a reader for the topic   *)
(* of the invoker, the messenger's completions and results, the health     *)
(* pings, and the part of main that makes them and closes them again.      *)
(*                                                                         *)
(* Every message is sent by a goroutine of its own, and a writer is made   *)
(* at the first message of its topic.  The maps of writers and readers     *)
(* have no lock: two goroutines may both find no writer, and the runtime   *)
(* may end a program that uses a map while another goroutine writes to it. *)
(*                                                                         *)
(* Abstractions: the broker is a set of what was written to each topic,    *)
(* and a queue for the invoker, whose offset is committed with each read.  *)
(* A writer is named for the goroutine that made it, and writes to the     *)
(* topic that one had.  Two variables are history: beside and late.        *)
(***************************************************************************)
EXTENDS Naturals, Sequences, FiniteSets

CONSTANTS
  Senders,     \* goroutines that send a message
  Completed,   \* topics of the OpenWhisk controllers
  Health,      \* the topic of the pings
  None,        \* no writer, no topic, no activation
  Activations  \* how many activations are in the queue

Topics == Completed \cup {Health}

MessageProviderAssumption ==
  /\ None \notin Senders \cup Topics
  /\ Health \notin Completed
  /\ Activations \in Nat

VARIABLES
  conn,      \* the admin connection: "none" | "open" | "closed"
  ensured,   \* whether the topic of the invoker was ensured
  writers,   \* the writer of each topic
  made,      \* writers that were made, with their topic
  closed,    \* writers that were closed
  written,   \* messages on each topic, by sender
  storing,   \* goroutines in the middle of a write to the map
  beside,    \* pairs that found no writer before either had stored one
  late,      \* those that stored a writer when Close had come to the writers
  pc,        \* where each sender is
  topic,     \* what it sends to
  mine,      \* the writer it found or made
  pinger,    \* the loop of StartHealthPings: "none" | "sleep" | "select" | "stopped"
  pulling,   \* whether the goroutine of main that reads has been started
  reader,    \* the reader: "none" | "storing": being put into its map | "open" | "closed"
  queue,     \* activations the broker still has for the invoker
  pulled,    \* activations GetActivation has returned
  life,      \* where main is, see Lives
  crashed    \* the runtime has ended the invoker

Starting == {"connect", "topic", "storage", "pool"}
Closing  == {"health", "writers", "readers", "connection"}
Lives    == Starting \cup {"running"} \cup Closing \cup {"closed", "error"}

connVars == <<conn, ensured>>
sendVars == <<writers, made, closed, written, storing, beside, late, pc, topic, mine>>
readVars == <<pulling, reader, queue, pulled>>
mainVars == <<connVars, pinger, readVars, life>>
vars     == <<mainVars, sendVars, crashed>>

TypeOK ==
  /\ conn \in {"none", "open", "closed"} /\ ensured \in BOOLEAN
  /\ writers \in [Topics -> Senders \cup {None}]
  /\ made \subseteq Senders
  /\ closed \subseteq made
  /\ written \in [Topics -> SUBSET Senders]
  /\ storing \subseteq Senders /\ late \subseteq Senders
  /\ beside \subseteq SUBSET Senders
  /\ pc \in [Senders -> {"idle", "lookup", "store", "storing", "write", "sent", "error"}]
  /\ topic \in [Senders -> Topics \cup {None}]
  /\ mine \in [Senders -> Senders \cup {None}]
  /\ pinger \in {"none", "sleep", "select", "stopped"}
  /\ pulling \in BOOLEAN
  /\ reader \in {"none", "storing", "open", "closed"}
  /\ queue \in 0 .. Activations /\ pulled \in 0 .. Activations
  /\ life \in Lives
  /\ crashed \in BOOLEAN

Init ==
  /\ conn = "none" /\ ensured = FALSE
  /\ writers = [t \in Topics |-> None]
  /\ made = {} /\ closed = {}
  /\ written = [t \in Topics |-> {}]
  /\ storing = {} /\ beside = {} /\ late = {}
  /\ pc = [s \in Senders |-> "idle"]
  /\ topic = [s \in Senders |-> None]
  /\ mine = [s \in Senders |-> None]
  /\ pinger = "none"
  /\ pulling = FALSE
  /\ reader = "none"
  /\ queue = Activations /\ pulled = 0
  /\ life = "connect"
  /\ crashed = FALSE

-----------------------------------------------------------------------------
Up == ~crashed /\ life \notin {"closed", "error"}
Goto(s, p) == pc' = [pc EXCEPT ![s] = p]
Sending(s) == pc[s] \in {"lookup", "store", "storing", "write"}
Making(s) == pc[s] \in {"store", "storing"}
Race(s) == storing \ {s} # {}

(* main starts the messenger, the function storage, the pings and the      *)
(* workers; what was deferred when a step fails is done before it exits.   *)

\* The connection, which is used to create topics only.
NewKafkaConnection == conn' = "open"
CreateTopics == conn = "open" /\ ensured' = TRUE

NewMessageProvider ==
  /\ Up
  /\ life = "connect"
  /\ \/ NewKafkaConnection /\ life' = "topic"
     \/ life' = "error" /\ UNCHANGED conn
  /\ UNCHANGED <<ensured, sendVars, pinger, readVars, crashed>>

\* NewMessenger: the topic of the invoker.  A failure leaves the connection.
EnsureTopic ==
  /\ Up
  /\ life = "topic"
  /\ \/ CreateTopics /\ life' = "storage"
     \/ life' = "error" /\ UNCHANGED ensured
  /\ UNCHANGED <<conn, sendVars, pinger, readVars, crashed>>

\* NewFunctionStorage, and then the pings; its failure closes the messenger.
StartPings ==
  /\ Up
  /\ life = "storage"
  /\ \/ pinger' = "select" /\ life' = "pool"
     \/ life' = "writers" /\ UNCHANGED pinger
  /\ UNCHANGED <<connVars, sendVars, readVars, crashed>>

\* NewWorkerPool, beside the pings; its failure stops the pings as well.
StartPool ==
  /\ Up
  /\ life = "pool"
  /\ \/ life' = "running" /\ pulling' = TRUE
     \/ life' = "health" /\ UNCHANGED pulling
  /\ UNCHANGED <<connVars, sendVars, pinger, reader, queue, pulled, crashed>>

-----------------------------------------------------------------------------
(* The senders: completions, results and pings.                            *)

Start(t) ==
  /\ \E s \in Senders :
       /\ pc[s] = "idle"
       /\ Goto(s, "lookup")
       /\ topic' = [topic EXCEPT ![s] = t]
  /\ UNCHANGED <<writers, made, closed, written, storing, beside, late, mine>>

\* SendCompletion and SendResult, for an activation that was pulled.
SendCompletion ==
  /\ Up
  /\ pulled > 0
  /\ \E t \in Completed : Start(t)
  /\ UNCHANGED <<mainVars, crashed>>

\* The loop of StartHealthPings: a ping, and a second of sleep.
Ping ==
  /\ Up
  /\ pinger = "select"
  /\ life # "health"
  /\ Start(Health)
  /\ pinger' = "sleep"
  /\ UNCHANGED <<connVars, readVars, life, crashed>>

\* Variant: the loop ends by itself.
WakeEnds ==
  /\ Up
  /\ pinger = "sleep"
  /\ pinger' = "stopped"
  /\ UNCHANGED <<connVars, sendVars, readVars, life, crashed>>

\* The second is over.
Wake ==
  /\ Up
  /\ pinger = "sleep"
  /\ pinger' = "select"
  /\ UNCHANGED <<connVars, sendVars, readVars, life, crashed>>

\* The loop takes the stop main sends, at its next select.
StopPings ==
  /\ Up
  /\ life = "health"
  /\ pinger = "select"
  /\ pinger' = "stopped"
  /\ life' = "writers"
  /\ UNCHANGED <<connVars, sendVars, readVars, crashed>>

-----------------------------------------------------------------------------
(* WriteMessage                                                            *)

\* p.writers[topic]
Found(s) == writers[topic[s]]

\* Variant: any writer will do.
LookUpAny(s) ==
  /\ Up
  /\ pc[s] = "lookup"
  /\ \E t \in Topics :
       /\ mine' = [mine EXCEPT ![s] = writers[t]]
       /\ Goto(s, IF writers[t] = None THEN "store" ELSE "write")
  /\ UNCHANGED <<mainVars, writers, made, closed, written, storing, beside, late, topic, crashed>>

LookUp(s) ==
  /\ Up
  /\ pc[s] = "lookup"
  /\ \/ Race(s) /\ crashed' = TRUE /\ UNCHANGED <<beside, pc, mine>>
     \/ /\ mine' = [mine EXCEPT ![s] = Found(s)]
        /\ Goto(s, IF Found(s) = None THEN "store" ELSE "write")
        /\ beside' = beside \cup {{r, s} : r \in {q \in Senders : Making(q)}}
        /\ UNCHANGED crashed
  /\ UNCHANGED <<mainVars, writers, made, closed, written, storing, late, topic>>

\* NewWriter: it connects when it is used.
NewWriter(s) ==
  /\ made' = made \cup {s}
  /\ mine' = [mine EXCEPT ![s] = s]

\* Variant: the writer that was made is not kept.
StoreForgets(s) ==
  /\ Up
  /\ pc[s] = "store"
  /\ NewWriter(s)
  /\ Goto(s, "write")
  /\ UNCHANGED <<mainVars, writers, closed, written, storing, beside, late, topic, crashed>>

\* A writer is made, and its write to the map begins, and ends.
Store(s) ==
  /\ Up
  /\ \/ /\ pc[s] = "store"
        /\ \/ Race(s) /\ crashed' = TRUE /\ UNCHANGED <<pc, storing, made, mine>>
           \/ /\ NewWriter(s)
              /\ storing' = storing \cup {s}
              /\ Goto(s, "storing")
              /\ UNCHANGED crashed
        /\ UNCHANGED <<writers, late>>
     \/ /\ pc[s] = "storing"
        /\ writers' = [writers EXCEPT ![topic[s]] = s]
        /\ storing' = storing \ {s}
        /\ late' = IF life \in {"writers", "readers", "connection"} THEN late \cup {s} ELSE late
        /\ Goto(s, "write")
        /\ UNCHANGED <<made, mine, crashed>>
  /\ UNCHANGED <<mainVars, closed, written, beside, topic>>

\* The writer in hand sends to the topic it was made for.  A closed one refuses
\* the message; the broker may be away, or have it and the answer is lost.
Write(s) ==
  /\ Up
  /\ pc[s] = "write"
  /\ \/ /\ mine[s] \notin closed
        /\ written' = [written EXCEPT ![topic[mine[s]]] = @ \cup {s}]
        /\ Goto(s, "sent") \/ Goto(s, "error")
     \/ /\ Goto(s, "error")
        /\ UNCHANGED written
  /\ UNCHANGED <<mainVars, writers, made, closed, storing, beside, late, topic, mine, crashed>>

-----------------------------------------------------------------------------
(* ReadMessage: one goroutine of main calls it, until it fails.            *)

\* NewReader: its group goes on where the group has read to.  It is put into
\* the map of readers.
NewReader ==
  \/ reader = "none" /\ reader' = "storing"
  \/ reader = "storing" /\ reader' = "open"

\* A message that is no activation ends the goroutine as a failure does.
Read ==
  /\ Up
  /\ pulling
  /\ \/ NewReader /\ UNCHANGED <<pulling, queue, pulled>>
     \/ /\ reader = "open" /\ queue > 0
        /\ queue' = queue - 1
        /\ pulled' = pulled + 1 \/ pulled' = pulled
        /\ pulling' = (pulled' # pulled)
        /\ UNCHANGED reader
     \/ /\ reader \in {"open", "closed"}
        /\ pulling' = FALSE
        /\ UNCHANGED <<reader, queue, pulled>>
  /\ UNCHANGED <<connVars, sendVars, pinger, life, crashed>>

-----------------------------------------------------------------------------
(* main ends: the pings are stopped, then the provider is closed.          *)

BeginClose ==
  /\ Up
  /\ life = "running"
  /\ life' = "health"
  /\ UNCHANGED <<connVars, sendVars, pinger, readVars, crashed>>

\* for k := range p.writers: the first error ends Close, and a writer that is
\* stored meanwhile may be missed.
CloseWriters ==
  /\ Up
  /\ life = "writers"
  /\ \/ /\ storing # {}
        /\ crashed' = TRUE
        /\ UNCHANGED <<closed, life>>
     \/ /\ \E t \in Topics :
             /\ writers[t] \notin closed \cup {None}
             /\ closed' = closed \cup {writers[t]}
        /\ life' \in {"writers", "error"}
        /\ UNCHANGED crashed
     \/ /\ \A t \in Topics : writers[t] \in closed \cup late \cup {None}
        /\ life' = "readers"
        /\ UNCHANGED <<closed, crashed>>
  /\ UNCHANGED <<connVars, writers, made, written, storing, beside, late, pc, topic, mine, pinger,
                 readVars>>

\* for k := range p.readers
CloseReaders ==
  /\ Up
  /\ life = "readers"
  /\ \/ /\ reader = "storing"
        /\ crashed' = TRUE
        /\ UNCHANGED <<reader, life>>
     \/ /\ reader' = IF reader = "open" THEN "closed" ELSE reader
        /\ life' \in {"connection", "error"}
        /\ UNCHANGED crashed
  /\ UNCHANGED <<connVars, pulling, sendVars, pinger, queue, pulled>>

CloseConnection ==
  /\ Up
  /\ life = "connection"
  /\ conn' = "closed"
  /\ life' = "closed"
  /\ UNCHANGED <<ensured, sendVars, pinger, readVars, crashed>>

-----------------------------------------------------------------------------
NewMessenger == NewMessageProvider \/ EnsureTopic \/ StartPings \/ StartPool
Close == BeginClose \/ StopPings \/ CloseWriters \/ CloseReaders \/ CloseConnection

Next ==
  \/ NewMessenger \/ SendCompletion \/ Ping \/ Wake \/ Read \/ Close
  \/ \E s \in Senders : LookUp(s) \/ Store(s) \/ Write(s)

Spec == Init /\ [][Next]_vars

\* The pinger, and main when it closes, are scheduled.
FairSpec == Spec /\ WF_vars(Wake) /\ WF_vars(StopPings) /\ WF_vars(CloseWriters)
                 /\ WF_vars(CloseReaders) /\ WF_vars(CloseConnection)

-----------------------------------------------------------------------------
(* Properties.                                                             *)

\* "reuses the same writer over many writes to the same topic"
\* (provider_test.go:77): a topic gets a second writer only from a sender that
\* found none before the other's was stored (provider.go:66-70), as the map has
\* no lock; what any of them has stored is found by all that come later.
OneWriter ==
  \A s, r \in made : topic[s] = topic[r] /\ s # r => {s, r} \in beside

\* Whatever writer a sender finds or makes, a message reaches no topic but its
\* own, and one that its sender takes for sent has reached it, however sends
\* and Close overlap (provider.go:66-77).
SentToTopic ==
  \A s \in Senders :
    /\ \A t \in Topics : s \in written[t] => topic[s] = t
    /\ pc[s] = "sent" => s \in written[topic[s]]

\* "closes its writers" (provider_test.go:111): a Close without error leaves a
\* writer open only if another took its place in the map, or it was stored when
\* Close had come to the writers (provider.go:92).
WritersClosed ==
  life = "closed" =>
    /\ conn = "closed" /\ ensured
    /\ \A w \in made \ closed :
         \/ w \in late \/ pc[w] = "storing"
         \/ \E r \in made \ {w} : topic[r] = topic[w]

=============================================================================
