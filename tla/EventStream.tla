------------------------------ MODULE EventStream ------------------------------
(***************************************************************************)
(* The event stream over several watched kinds (ctrltest/events.go).       *)
(*                                                                         *)
(* One pump per kind stamps arrivals and queues them on Stream.raw; one    *)
(* merge goroutine holds them for the reorder window, sorts them by        *)
(* resourceVersion, diffs each against the object's last document and      *)
(* queues the differences on Stream.out, which Next and Drain read.        *)
(*                                                                         *)
(* A resourceVersion is a position in `log'.  Time is kept as the age of   *)
(* each stamped event, in units of reorderPoll.                            *)
(***************************************************************************)
EXTENDS Integers, Sequences, FiniteSets, SequencesExt

CONSTANTS
  Kinds,           \* watched kinds, in the order Watch was given them
  Obj, KindOf,     \* objects of the namespace, and the kind of each
  Doc, Absent,     \* projected documents; an object that does not exist
  reorderWindow,   \* in polls; the code's is 10
  RawCap, OutCap,  \* capacities of Stream.raw and Stream.out
  Reads,           \* which of "next" and "drain" the test calls
  Timeout,         \* the argument of Next, in polls
  Faults,          \* which of "closed", "error", "bookmark" a watch may deliver
  Prompt,          \* TRUE: a runnable goroutine runs before time passes
  MaxEvents,       \* bound: resourceVersions
  MaxReads         \* bound: calls of Next and Drain

Kind == Range(Kinds)

ASSUME EventStreamAssumption ==
  /\ Kinds \in Seq(Kind) /\ KindOf \in [Obj -> Kind] /\ Absent \notin Doc
  /\ reorderWindow \in Nat \ {0} /\ RawCap \in Nat \ {0} /\ OutCap \in Nat \ {0}
  /\ Reads \subseteq {"next", "drain"} /\ Timeout \in Nat
  /\ Faults \subseteq {"closed", "error", "bookmark"} /\ Prompt \in BOOLEAN
  /\ MaxEvents \in Nat /\ MaxReads \in Nat

VARIABLES
  log,      \* accepted writes: position is resourceVersion; doc Absent is a deletion
  chan,     \* per kind: what its watcher has queued
  opened,   \* per kind: length of log when its watch opened, or -1
  pump,     \* per kind: "off", "recv", "send", "done"
  hand,     \* per kind: the stamped event its pump is sending
  raw,      \* Stream.raw
  held,     \* merge: the reorder buffer
  mpc,      \* merge: "off", "select", "drain", "clock", "emit", "done"
  prev,     \* Stream.prev
  due,      \* if Prompt: a tick of the merge's poll ticker is pending
  out,      \* Stream.out, with the event emit is sending beyond OutCap
  err,      \* Stream.err is set (and Stream.failed closed)
  stop,     \* Stream.stop is closed
  joined,   \* shutdown returned
  rpc, left, answer, reads,  \* reader: call in progress, time left, last answer, calls made
  \* History:
  pub,      \* events in the order the merge let go of them
  known,    \* at "clock": versions that had been on raw when drainQueued returned
  owed,     \* accepted by a pump while the reader's call was entitled to see it
  lost      \* a watch had broken when the reader's call began

watches == <<log, chan, opened>>
merging == <<held, mpc, prev, pub, known>>
reader  == <<rpc, left, answer, reads, lost>>
vars    == <<watches, pump, hand, raw, merging, due, out, err, stop, joined, reader,
             owed>>

Version == 1 .. MaxEvents
Nothing == [rv |-> 0, age |-> 0]
Stamped == [rv : Version, age : 0 .. reorderWindow]
Change  == [typ : {"change"}, rv : Version]
Fault   == [typ : Faults \cup {"closed"}, rv : {0}]

TypeOK ==
  /\ log \in Seq([obj : Obj, doc : Doc \cup {Absent}]) /\ Len(log) <= MaxEvents
  /\ chan \in [Kind -> Seq(Change \cup Fault)]
  /\ opened \in [Kind -> -1 .. MaxEvents]
  /\ pump \in [Kind -> {"off", "recv", "send", "done"}]
  /\ hand \in [Kind -> Stamped \cup {Nothing}]
  /\ raw \in Seq(Stamped) /\ Len(raw) <= RawCap
  /\ held \in Seq(Stamped)
  /\ mpc \in {"off", "select", "drain", "clock", "emit", "done"}
  /\ prev \in [Obj -> Doc \cup {Absent}]
  /\ out \in Seq(Version) /\ Len(out) <= OutCap + (IF mpc \in {"emit", "done"} THEN 1 ELSE 0)
  /\ {due, err, stop, joined, lost} \subseteq BOOLEAN
  /\ rpc \in {"idle", "next", "sleep", "drain"}
  /\ answer \in {"none", "event", "quiet", "drained", "terminal"}
  /\ left \in Nat /\ reads \in 0 .. MaxReads
  /\ pub \in Seq([rv : Version, from : Doc \cup {Absent}, overtaken : SUBSET Version])
  /\ {known, owed} \subseteq SUBSET Version

Versions(o) == {r \in DOMAIN log : log[r].obj = o}
Latest(o, rs) == IF rs = {} THEN Absent ELSE log[CHOOSE r \in rs : \A s \in rs : s <= r].doc
Live(o) == Latest(o, Versions(o))

Init ==
  /\ log = <<>>
  /\ chan = [k \in Kind |-> <<>>]
  /\ opened = [k \in Kind |-> -1]
  /\ pump = [k \in Kind |-> "off"]
  /\ hand = [k \in Kind |-> Nothing]
  /\ raw = <<>> /\ held = <<>> /\ out = <<>> /\ pub = <<>>
  /\ mpc = "off" /\ due = FALSE
  /\ prev = [o \in Obj |-> Absent]
  /\ err = FALSE /\ stop = FALSE /\ joined = FALSE
  /\ rpc = "idle" /\ left = 0 /\ answer = "none" /\ reads = 0 /\ lost = FALSE
  /\ known = {} /\ owed = {}
------------------------------------------------------------------------------
(* The API server. *)

Broken(k) == \E i \in DOMAIN chan[k] : chan[k][i].typ \in {"closed", "error"}

Deliver(k, ev) ==
  chan' = IF opened[k] >= 0 /\ pump[k] # "done" /\ ~Broken(k)
          THEN [chan EXCEPT ![k] = Append(@, ev)] ELSE chan

(* An accepted write takes the next resourceVersion.  A write that moved   *)
(* only bookkeeping leaves the projected document as it was.               *)
Write(o, d) ==
  /\ Len(log) < MaxEvents /\ ~stop  \* no later write reaches a reader
  /\ d = Absent => Live(o) # Absent
  /\ log' = Append(log, [obj |-> o, doc |-> d])
  /\ Deliver(KindOf[o], [typ |-> "change", rv |-> Len(log) + 1])
  /\ UNCHANGED <<opened, pump, hand, raw, merging, due, out, err, stop, joined, reader,
                 owed>>

(* The watch breaks (closed, error event), or carries no change (bookmark). *)
Disturb(k, f) ==
  /\ opened[k] >= 0 /\ ~stop
  /\ \A i \in DOMAIN chan[k] : chan[k][i].typ = "change"
  /\ Deliver(k, [typ |-> f, rv |-> 0])
  /\ UNCHANGED <<log, opened, pump, hand, raw, merging, due, out, err, stop, joined, reader,
                 owed>>
------------------------------------------------------------------------------
(* Suite.watch, addSource, shutdown. *)

(* One kind: the server replays the namespace's contents as added, in list *)
(* order, and a pump starts.                                               *)
addSource(k) ==
  /\ mpc = "off" /\ ~stop
  /\ \E i \in DOMAIN Kinds : k = Kinds[i] /\ \A j \in DOMAIN Kinds : opened[Kinds[j]] = -1 <=> j >= i
  /\ LET live == {o \in Obj : KindOf[o] = k /\ Live(o) # Absent}
         rvOf(o) == CHOOSE r \in Versions(o) : \A s \in Versions(o) : s <= r
     IN \E order \in SetToSeqs(live) :
          chan' = [chan EXCEPT ![k] = [i \in DOMAIN order |-> [typ |-> "change",
                                                              rv |-> rvOf(order[i])]]]
  /\ opened' = [opened EXCEPT ![k] = Len(log)]
  /\ pump' = [pump EXCEPT ![k] = "recv"]
  /\ UNCHANGED <<log, hand, raw, merging, due, out, err, stop, joined, reader, owed>>

(* The merge starts once every kind is watched. *)
watch ==
  /\ mpc = "off" /\ ~stop
  /\ \A k \in Kind : opened[k] >= 0
  /\ mpc' = "select"
  /\ UNCHANGED <<watches, pump, hand, raw, held, prev, pub, known, due, out, err, stop, joined,
                 reader, owed>>

(* shutdown closes stop, then stops every watcher: a pump may see its      *)
(* channel close before it sees stop.                                      *)
shutdown ==
  /\ ~stop /\ rpc = "idle"
  /\ stop' = TRUE
  /\ UNCHANGED <<watches, pump, hand, raw, merging, due, out, err, joined, reader, owed>>

StopWatcher(k) ==
  /\ stop /\ pump[k] # "off" /\ ~Broken(k)
  /\ chan' = [chan EXCEPT ![k] = Append(@, [typ |-> "closed", rv |-> 0])]
  /\ UNCHANGED <<log, opened, pump, hand, raw, merging, due, out, err, stop, joined, reader,
                 owed>>

(* wg.Wait returns. *)
Join ==
  /\ stop /\ ~joined
  /\ \A k \in Kind : pump[k] \in {"off", "done"}
  /\ mpc \in {"off", "done"}
  /\ joined' = TRUE
  /\ UNCHANGED <<watches, pump, hand, raw, merging, due, out, err, stop, reader, owed>>
------------------------------------------------------------------------------
(* The pumps. *)

Goto(k, loc) == pump' = [pump EXCEPT ![k] = loc]

PumpStops(k) ==
  /\ pump[k] \in {"recv", "send"} /\ stop
  /\ Goto(k, "done")
  /\ hand' = [hand EXCEPT ![k] = Nothing]
  /\ UNCHANGED <<watches, raw, merging, due, out, err, stop, joined, reader, owed>>

WatchClosed_Silent(k) ==  \* slip: the pump of a closed watch just ends
  /\ Goto(k, "done") /\ UNCHANGED <<hand, err, owed>>

(* A closed watch is lost history, unless the stream is stopping. *)
WatchClosed(k) ==
  /\ Goto(k, "done")
  /\ err' = (err \/ ~stop)
  /\ UNCHANGED <<hand, owed>>

(* An event no history survives: error, unknown type, unparseable version. *)
WatchErrors(k) ==
  /\ Goto(k, "done")
  /\ err' = TRUE
  /\ UNCHANGED <<hand, owed>>

visibilityLag_HoldOnly == reorderWindow  \* slip: as if the merge noticed at once

visibilityLag == reorderWindow + 2

(* The reader is owed what a pump accepts before its own timeout: Next's   *)
(* timer also runs for the visibility lag, in which new arrivals are not.  *)
Owing == rpc = "next" /\ left > visibilityLag

(* The event is stamped before it is sent. *)
Accept(k, rv) ==
  /\ Goto(k, "send")
  /\ hand' = [hand EXCEPT ![k] = [rv |-> rv, age |-> 0]]
  /\ owed' = IF Owing THEN owed \cup {rv} ELSE owed
  /\ UNCHANGED err

forward(k) ==
  /\ pump[k] = "recv" /\ chan[k] # <<>>
  /\ chan' = [chan EXCEPT ![k] = Tail(@)]
  /\ LET ev == Head(chan[k]) IN
       \/ ev.typ = "change" /\ Accept(k, ev.rv)
       \/ ev.typ = "bookmark" /\ UNCHANGED <<pump, hand, err, owed>>
       \/ ev.typ = "closed" /\ WatchClosed(k)
       \/ ev.typ = "error" /\ WatchErrors(k)
  /\ UNCHANGED <<log, opened, raw, merging, due, out, stop, joined, reader>>

Ripe(ev) == ev.age = reorderWindow

HeadRipe == held # <<>> /\ Ripe(Head(held))

Send(k) ==
  /\ pump[k] = "send" /\ Len(raw) < RawCap
  /\ raw' = Append(raw, hand[k])
  /\ hand' = [hand EXCEPT ![k] = Nothing]
  /\ Goto(k, "recv")
  /\ UNCHANGED <<watches, merging, due, out, err, stop, joined, reader, owed>>
------------------------------------------------------------------------------
(* The merge. *)

insertByResourceVersion_Front(ev) ==  \* slip: newest arrival first
  <<ev>> \o held

(* sort.Search: before the first held event that is not older. *)
insertByResourceVersion(ev) ==
  LET i == Cardinality({j \in DOMAIN held : held[j].rv < ev.rv})
  IN InsertAt(held, i + 1, ev)

MergeStops_NotInEmit ==  \* slip: emit sends without watching stop
  /\ stop /\ mpc = "select"
  /\ mpc' = "done"
  /\ UNCHANGED <<watches, pump, hand, raw, held, prev, pub, known, due, out, err, stop, joined,
                 reader, owed>>

MergeStops ==
  /\ stop /\ mpc \in {"select", "emit"}
  /\ mpc' = "done"
  /\ UNCHANGED <<watches, pump, hand, raw, held, prev, pub, known, due, out, err, stop, joined,
                 reader, owed>>

(* The select of merge and the loop of drainQueued take one arrival. *)
Receive ==
  /\ mpc \in {"select", "drain"} /\ raw # <<>>
  /\ held' = insertByResourceVersion(Head(raw))
  /\ raw' = Tail(raw)
  /\ mpc' = "drain"
  /\ UNCHANGED <<watches, pump, hand, prev, pub, known, due, out, err, stop, joined, reader,
                 owed>>

Poll ==
  /\ mpc = "select" /\ (Prompt => due)
  /\ due' = FALSE /\ mpc' = "drain"
  /\ UNCHANGED <<watches, pump, hand, raw, held, prev, pub, known, out, err, stop, joined, reader,
                 owed>>

drainQueued_Once == mpc = "drain"  \* slip: emit without draining raw first

drainQueued == mpc = "drain" /\ raw = <<>>

VersionsIn(q) == {q[i].rv : i \in DOMAIN q}

(* drainQueued found raw empty. *)
Drained ==
  /\ drainQueued
  /\ mpc' = "clock"
  /\ known' = VersionsIn(raw) \cup VersionsIn(held) \cup VersionsIn(pub)
  /\ UNCHANGED <<watches, pump, hand, raw, held, prev, pub, due, out, err, stop, joined,
                 reader, owed>>

(* emitRipe reads the clock after drainQueued returned. *)
NoneRipe ==
  /\ mpc = "clock" /\ ~HeadRipe
  /\ mpc' = "select" /\ known' = {}
  /\ UNCHANGED <<watches, pump, hand, raw, held, prev, pub, due, out, err, stop, joined, reader,
                 owed>>

project(o, doc) == prev' = [prev EXCEPT ![o] = doc]

(* The head is ripe: it is projected, and queued unless nothing differs. *)
emitRipe ==
  /\ mpc = "clock" /\ HeadRipe
  /\ held' = Tail(held) /\ known' = {}
  /\ LET rv == Head(held).rv
         o  == log[rv].obj
     IN /\ project(o, log[rv].doc)
        /\ pub' = Append(pub, [rv |-> rv, from |-> prev[o],
                             overtaken |-> {r \in known \ VersionsIn(pub) : r < rv}])
        /\ IF prev[o] = log[rv].doc
           THEN mpc' = "drain" /\ UNCHANGED out
           ELSE mpc' = "emit" /\ out' = Append(out, rv)
  /\ UNCHANGED <<watches, pump, hand, raw, due, err, stop, joined, reader,
                 owed>>

(* The last element of out is the event in emit's hands: it is on the      *)
(* channel once there is room for it.                                      *)
emit ==
  /\ mpc = "emit" /\ Len(out) <= OutCap
  /\ mpc' = "drain"
  /\ UNCHANGED <<watches, pump, hand, raw, held, prev, pub, known, due, out, err, stop, joined,
                 reader, owed>>
------------------------------------------------------------------------------
(* The reader. *)

OnChannel == IF mpc = "emit" /\ out # <<>> THEN Front(out) ELSE out
Pending == {e.rv : e \in Range(raw) \cup Range(held) \cup (Range(hand) \ {Nothing})} \cup Range(out)

Return(a) == rpc' = "idle" /\ left' = 0 /\ answer' = a /\ UNCHANGED <<reads, lost>>

Call(c) ==
  /\ rpc = "idle" /\ reads < MaxReads /\ ~stop /\ mpc # "off"
  /\ reads' = reads + 1
  /\ lost' = (err \/ \E k \in Kind : Broken(k))
  /\ owed' = Pending
  /\ \/ c = "next" /\ err /\ rpc' = "idle" /\ left' = 0 /\ answer' = "terminal"
     \/ c = "next" /\ ~err /\ rpc' = "next" /\ left' = Timeout + visibilityLag /\ answer' = "none"
     \/ c = "drain" /\ rpc' = "sleep" /\ left' = visibilityLag /\ answer' = "none"
  /\ UNCHANGED <<watches, pump, hand, raw, merging, due, out, err, stop, joined>>

(* Next's select picks any ready case. *)
Next_Event ==
  /\ rpc = "next" /\ OnChannel # <<>>
  /\ out' = Tail(out)
  /\ Return("event")
  /\ UNCHANGED <<watches, pump, hand, raw, merging, due, err, stop, joined, owed>>

Next_Ends ==
  /\ rpc = "next"
  /\ \/ err /\ Return("terminal")
     \/ left = 0 /\ Return(IF err THEN "terminal" ELSE "quiet")
  /\ UNCHANGED <<watches, pump, hand, raw, merging, due, out, err, stop, joined, owed>>

Drain_Wakes ==
  /\ rpc = "sleep" /\ left = 0
  /\ rpc' = "drain"
  /\ UNCHANGED <<watches, pump, hand, raw, merging, due, out, err, stop, joined,
                 left, answer, reads, lost, owed>>

Drain_Takes ==
  /\ rpc = "drain" /\ OnChannel # <<>>
  /\ out' = Tail(out)
  /\ UNCHANGED <<watches, pump, hand, raw, merging, due, err, stop, joined, reader,
                 owed>>

Drain_Ends ==
  /\ rpc = "drain" /\ OnChannel = <<>>
  /\ Return(IF err THEN "terminal" ELSE "drained")
  /\ UNCHANGED <<watches, pump, hand, raw, merging, due, out, err, stop, joined, owed>>

ReaderStep == Next_Event \/ Next_Ends \/ Drain_Wakes \/ Drain_Takes \/ Drain_Ends
------------------------------------------------------------------------------
(* Time. *)

PumpReady(k) ==
  \/ pump[k] = "recv" /\ chan[k] # <<>>
  \/ pump[k] = "send" /\ Len(raw) < RawCap
MergeReady == mpc \in {"drain", "clock", "emit"} \/ (mpc = "select" /\ (due \/ raw # <<>>))
ReaderReady == \/ rpc = "next" /\ (OnChannel # <<>> \/ err \/ left = 0)
               \/ rpc = "drain" \/ (rpc = "sleep" /\ left = 0)

Aged(ev) == IF ev.rv > 0 /\ ev.age < reorderWindow THEN [ev EXCEPT !.age = @ + 1] ELSE ev

Tick ==
  /\ Prompt => ~MergeReady /\ ~ReaderReady /\ \A k \in Kind : ~PumpReady(k)
  /\ due' = (Prompt /\ mpc \notin {"off", "done"})
  /\ left' = IF left > 0 THEN left - 1 ELSE 0
  /\ hand' = [k \in Kind |-> Aged(hand[k])]
  /\ raw' = [i \in DOMAIN raw |-> Aged(raw[i])]
  /\ held' = [i \in DOMAIN held |-> Aged(held[i])]
  /\ <<due', left', hand', raw', held'>> # <<due, left, hand, raw, held>>
  /\ UNCHANGED <<watches, pump, mpc, prev, pub, known, out, err, stop, joined, rpc, answer, reads,
                 lost, owed>>

PumpStep(k) == PumpStops(k) \/ forward(k) \/ Send(k)
MergeStep == MergeStops \/ Receive \/ Poll \/ Drained \/ NoneRipe \/ emitRipe \/ emit

Next ==
  \/ \E o \in Obj, d \in Doc \cup {Absent} : Write(o, d)
  \/ \E k \in Kind, f \in Faults : Disturb(k, f)
  \/ \E k \in Kind : addSource(k)
  \/ watch \/ shutdown \/ Join
  \/ \E k \in Kind : StopWatcher(k)
  \/ \E k \in Kind : PumpStep(k)
  \/ MergeStep
  \/ \E c \in Reads : Call(c)
  \/ ReaderStep
  \/ Tick

Spec == Init /\ [][Next]_vars

------------------------------------------------------------------------------
(* Properties. *)

(* The document o had just before version r, as this stream's watch could  *)
(* know it: nothing, if r is a replay of the contents at opening.          *)
Before(o, r) == IF r <= opened[KindOf[o]] THEN Absent
                ELSE Latest(o, {s \in Versions(o) : s < r})

(* Every Changed list is a diff against the object's true predecessor:     *)
(* whatever the pumps and the merge interleave, no object's events are     *)
(* projected out of order, skipped, or diffed across a delete and recreate *)
(* (project, with the FIFO channels and the sorted buffer).                *)
DiffsAgainstPredecessor ==
  \A i \in DOMAIN pub : pub[i].from = Before(log[pub[i].rv].obj, pub[i].rv)

(* emitRipe's drain is load-bearing: a version is published ahead of a     *)
(* lower one only if the lower one was not queued yet when the merge last  *)
(* drained raw.                                                            *)
OvertakesOnlyTheUnseen == \A i \in DOMAIN pub : pub[i].overtaken = {}

(* visibilityLag: when no goroutine is starved, Next's timeout means       *)
(* nothing arrived within the caller's timeout, and Drain returns all that *)
(* had arrived when it was called.                                         *)
SilenceIsReal == answer \in {"quiet", "drained"} => owed \cap Pending = {}

(* A stream that lost history never answers as if it had not: a Drain or a *)
(* timed-out Next that began after a watch broke returns the terminal      *)
(* error (pump, fail, Terminal).                                           *)
LossIsLoud == lost => answer \notin {"quiet", "drained"}

(* shutdown never waits on a goroutine that waits on it: from the close of *)
(* stop to the return of wg.Wait some goroutine can always move on, also   *)
(* one blocked on a full raw or out that nobody reads any more (forward,   *)
(* emit).  Poll is left out: it is the one step that could repeat forever. *)
ShutdownNeverStuck ==
  stop /\ ~joined =>
    \/ \E k \in Kind : ENABLED (StopWatcher(k) \/ PumpStep(k))
    \/ ENABLED (MergeStops \/ Receive \/ Drained \/ NoneRipe \/ emitRipe \/ emit)
    \/ ENABLED Join
==============================================================================
