---------------------------- MODULE RuntimeCache ----------------------------
(***************************************************************************)
(* The runtimes and layers an invoker downloads when it starts, into a     *)
(* directory that outlives it (src/invoker/workerpool/workerpool.go):      *)
(* every start downloads them again and unpacks them over what is there.   *)
(*                                                                         *)
(* Abstractions: one runtime and one layer; the content of a file is a     *)
(* sequence of the versions its parts come from, or of Page for an answer  *)
(* that is no archive; directories, and files of an older version that the *)
(* archive no longer has, are left out.                                    *)
(***************************************************************************)
EXTENDS Naturals, Sequences, FiniteSets

CONSTANTS
  Files,     \* the files of the runtime's archive
  Layer,     \* the layer's file
  Versions,  \* bound on the versions that are published
  MaxLen     \* bound on the length of a file

CacheAssumption ==
  /\ Layer \notin Files
  /\ Versions \in Nat \ {0} /\ MaxLen \in Nat \ {0}

\* What the store answers when it has nothing to give: a page that says so.
Page == 0

AllFiles == Files \cup {Layer}
Lengths == [AllFiles -> 1 .. MaxLen]

VARIABLES
  size,       \* the length of each file in each version
  published,  \* the version the store has
  cached,     \* the content of each file in the cache
  step,       \* "fetch" | "runtime" | "layer" | "copy" | "ready" | "error"
  unpacked,   \* files of the archive that were unpacked
  got         \* the version each download got, or Page

vars == <<size, published, cached, step, unpacked, got>>

Content(f, v) == [i \in 1 .. size[v][f] |-> v]

TypeOK ==
  /\ size \in [1 .. Versions -> Lengths]
  /\ published \in 1 .. Versions
  /\ \A f \in AllFiles : cached[f] \in Seq(Page .. Versions) /\ Len(cached[f]) <= MaxLen
  /\ step \in {"fetch", "runtime", "layer", "copy", "ready", "error"}
  /\ unpacked \subseteq Files
  /\ got \in [{"runtime", "layer"} -> Page .. Versions] /\ got["runtime"] # Page

Init ==
  /\ size \in [1 .. Versions -> Lengths]
  /\ published = 1
  /\ cached = [f \in AllFiles |-> <<>>]
  /\ step = "fetch"
  /\ unpacked = {}
  /\ got = [d \in {"runtime", "layer"} |-> 1]

-----------------------------------------------------------------------------
\* What a file holds when n parts of version v are written over it.
Over(old, v, n) ==
  [i \in 1 .. (IF n > Len(old) THEN n ELSE Len(old)) |-> IF i <= n THEN v ELSE old[i]]

Error == step' = "error"

\* downloadRuntime begins: the answer is of the version published then.  A
\* store that does not answer, or denies, is an error, and so is any page:
\* it is no archive to untar.
DownloadRuntime ==
  /\ step = "fetch"
  /\ \/ Error /\ UNCHANGED got
     \/ step' = "runtime" /\ got' = [got EXCEPT !["runtime"] = published]
  /\ UNCHANGED <<size, published, cached, unpacked>>

\* Variant: a file that is there is not written again.
UntarSkips ==
  /\ step = "runtime"
  /\ \E f \in Files \ unpacked :
       LET n == size[got["runtime"]][f] IN
       \/ /\ cached' = [cached EXCEPT ![f] = IF @ = <<>> THEN Over(@, got["runtime"], n) ELSE @]
          /\ unpacked' = unpacked \cup {f}
          /\ step' = IF unpacked' = Files THEN "layer" ELSE "runtime"
       \/ \E k \in 0 .. n - 1 :
            /\ cached' = [cached EXCEPT ![f] = Over(@, got["runtime"], k)]
            /\ Error
            /\ UNCHANGED unpacked
  /\ UNCHANGED <<size, published, got>>

\* untar: each file is opened, created if need be, and written from its
\* start; it is not truncated.  The download may end before the file does.
Untar ==
  /\ step = "runtime"
  /\ \E f \in Files \ unpacked :
       LET n == size[got["runtime"]][f] IN
       \/ /\ cached' = [cached EXCEPT ![f] = Over(@, got["runtime"], n)]
          /\ unpacked' = unpacked \cup {f}
          /\ step' = IF unpacked' = Files THEN "layer" ELSE "runtime"
       \/ \E k \in 0 .. n - 1 :
            /\ cached' = [cached EXCEPT ![f] = Over(@, got["runtime"], k)]
            /\ Error
            /\ UNCHANGED unpacked
  /\ UNCHANGED <<size, published, got>>

\* downloadLayer: os.Create truncates the file before the answer is looked at.
\* A page is an error if it is short or says AccessDenied within 150 bytes;
\* the status of the answer is not looked at, and any other page is the layer.
CreateLayer ==
  /\ step = "layer"
  /\ \/ Error /\ UNCHANGED <<cached, got>>
     \/ /\ \E a \in {published, Page} : got' = [got EXCEPT !["layer"] = a]
        /\ cached' = [cached EXCEPT ![Layer] = <<>>]
        /\ step' \in {"copy", "error"}
  /\ UNCHANGED <<size, published, unpacked>>

\* How long the answer is: a page may have any length.
AnswerLengths == IF got["layer"] = Page THEN 1 .. MaxLen ELSE {size[got["layer"]][Layer]}

\* io.Copy: all of the answer, or what came before an error.
CopyLayer ==
  /\ step = "copy"
  /\ \E n \in AnswerLengths : \E k \in 0 .. n :
       /\ cached' = [cached EXCEPT ![Layer] = Over(@, got["layer"], k)]
       /\ step' = IF k = n THEN "ready" ELSE "error"
  /\ UNCHANGED <<size, published, unpacked, got>>

-----------------------------------------------------------------------------
\* The invoker ends, with an error or later, and is started again.
Restart ==
  /\ step \in {"ready", "error"}
  /\ step' = "fetch"
  /\ unpacked' = {}
  /\ UNCHANGED <<size, published, cached, got>>

Publish ==
  /\ published < Versions
  /\ published' = published + 1
  /\ UNCHANGED <<size, cached, step, unpacked, got>>

Next == DownloadRuntime \/ Untar \/ CreateLayer \/ CopyLayer \/ Restart \/ Publish

Spec == Init /\ [][Next]_vars

-----------------------------------------------------------------------------
(* Properties.                                                             *)

\* No file of the runtime is shorter in a later version: nothing truncates a
\* file that is written again (workerpool.go:318).
Grows == \A v, u \in 1 .. Versions : v <= u => \A f \in Files : size[v][f] <= size[u][f]

\* When the downloads have succeeded, the runtime that is used is the one that
\* was downloaded, whatever starts before failed half way, if files only grow: of
\* a file that was longer in an earlier version the end is still there.
RuntimeIsWhole ==
  Grows /\ step \in {"layer", "copy", "ready"} =>
    \A f \in Files : cached[f] = Content(f, got["runtime"])

\* The layer that is used is the last answer and nothing of an older file, which
\* is truncated first (workerpool.go:270): all of the version that was published,
\* or a page of the store that passed for it (:284).
LayerIsAnswer ==
  step = "ready" =>
    IF got["layer"] = Page
    THEN \A i \in DOMAIN cached[Layer] : cached[Layer][i] = Page
    ELSE cached[Layer] = Content(Layer, got["layer"])

=============================================================================
