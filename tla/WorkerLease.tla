---------------------------- MODULE WorkerLease ----------------------------
(***************************************************************************)
(* What a scheduler promises, without lists, locks or timers: workers are  *)
(* leased to calls, one call at a time; a call is answered by a worker it  *)
(* has leased, with the function it asked for; and a worker that holds a   *)
(* function is leased only to calls for that function until it has been    *)
(* reset.  Nothing is said of which worker is chosen, or when one is reset.*)
(***************************************************************************)
CONSTANTS Workers, Functions, Calls, None

VARIABLES
  phase,    \* of each worker: "clean", "leased", "ready", "resetting", "lost"
  lessee,   \* the call a leased worker is leased to
  content,  \* the function in the worker's process
  asked,    \* the function each call is for
  answer,   \* the function that answered it
  closed    \* workers that have been shut down

vars == <<phase, lessee, content, asked, answer, closed>>

Init ==
  /\ phase = [w \in Workers |-> "clean"]
  /\ lessee = [w \in Workers |-> None]
  /\ content = [w \in Workers |-> None]
  /\ asked = [c \in Calls |-> None]
  /\ answer = [c \in Calls |-> None]
  /\ closed = {}

Ask(c, f) ==
  /\ asked[c] = None
  /\ asked' = [asked EXCEPT ![c] = f]
  /\ UNCHANGED <<phase, lessee, content, answer, closed>>

Move(w, from, to) ==
  /\ phase[w] = from
  /\ phase' = [phase EXCEPT ![w] = to]

\* A waiting call leases a clean worker, or one ready with its function; one
\* that is shut down may be taken for ready with any.
Lease(c, w) ==
  /\ asked[c] # None /\ answer[c] = None
  /\ \A v \in Workers : lessee[v] # c
  /\ \/ Move(w, "clean", "leased")
     \/ Move(w, "ready", "leased") /\ (content[w] = asked[c] \/ w \in closed)
  /\ lessee' = [lessee EXCEPT ![w] = c]
  /\ UNCHANGED <<content, asked, answer, closed>>

\* The lessee loads its function into a worker that holds none.
Load(c, w) ==
  /\ lessee[w] = c
  /\ content[w] = None
  /\ content' = [content EXCEPT ![w] = asked[c]]
  /\ UNCHANGED <<phase, lessee, asked, answer, closed>>

Answer(c, w) ==
  /\ lessee[w] = c
  /\ content[w] = asked[c]
  /\ answer[c] = None
  /\ answer' = [answer EXCEPT ![c] = content[w]]
  /\ UNCHANGED <<phase, lessee, content, asked, closed>>

\* An answered call gives the worker back, still holding its function.  From a
\* worker that is shut down no answer can be had.
Release(c, w) ==
  /\ lessee[w] = c
  /\ answer[c] # None \/ w \in closed
  /\ Move(w, "leased", "ready")
  /\ lessee' = [lessee EXCEPT ![w] = None]
  /\ UNCHANGED <<content, asked, answer, closed>>

StartReset(w) ==
  /\ Move(w, "ready", "resetting")
  /\ UNCHANGED <<lessee, content, asked, answer, closed>>

Empty(w) ==
  /\ phase[w] = "resetting"
  /\ content' = [content EXCEPT ![w] = None]
  /\ UNCHANGED <<phase, lessee, asked, answer, closed>>

EndReset(w) ==
  /\ content[w] = None
  /\ Move(w, "resetting", "clean")
  /\ UNCHANGED <<lessee, content, asked, answer, closed>>

\* A worker whose call or whose reset failed is never used again.
Lose(w) ==
  /\ Move(w, "leased", "lost") \/ Move(w, "resetting", "lost")
  /\ lessee' = [lessee EXCEPT ![w] = None]
  /\ UNCHANGED <<content, asked, answer, closed>>

Close(w) ==
  /\ closed' = closed \cup {w}
  /\ UNCHANGED <<phase, lessee, content, asked, answer>>

Next ==
  \/ \E c \in Calls, f \in Functions : Ask(c, f)
  \/ \E c \in Calls, w \in Workers :
       Lease(c, w) \/ Load(c, w) \/ Answer(c, w) \/ Release(c, w)
  \/ \E w \in Workers : StartReset(w) \/ Empty(w) \/ EndReset(w) \/ Lose(w) \/ Close(w)

Spec == Init /\ [][Next]_vars
=============================================================================
