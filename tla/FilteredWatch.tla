---------------------------- MODULE FilteredWatch ----------------------------
(***************************************************************************)
(* fakeapi's Watch (watch.go) over the store of FakeApi: the upstream      *)
(* watch is opened, then the objects inside the selector are listed, then  *)
(* a goroutine filters the upstream's events.  Writes go on throughout.    *)
(***************************************************************************)
EXTENDS FakeApi

CONSTANTS
  Requests   \* what the selector asks for

ASSUME RequestsAssumption == Requests \subseteq {"all", "indexed", "unindexed"}

VARIABLES
  w,       \* the watch: its place (pc), the request, in, and the event in hand
  stop,    \* Stop was called, or the context is cancelled
  closed,  \* the upstream has closed its channel
  view,    \* what the consumer holds: the objects listed as the watch opened, kept by its events
  left,    \* keys that were modified out of the selector while the watch was seeded
  late     \* events delivered after stop

vars == <<apiVars, w, stop, closed, view, left, late>>
watchVars == <<w, stop, closed, view, left, late>>

Matching == {k \in DOMAIN store : store[k].spec \in Selected}
Open == w.pc \notin {"new", "refused", "failed", "done"} /\ ~closed

Init ==
  /\ ApiInit
  /\ \E r \in Requests : w = [pc |-> "new", request |-> r, in |-> <<>>, ev |-> <<>>]
  /\ stop = FALSE /\ closed = FALSE /\ view = <<>> /\ left = {} /\ late = 0
------------------------------------------------------------------------------
(* A selector on a field with no index is refused before anything is       *)
(* opened; one that asks for nothing is the upstream itself.               *)
watchFunc ==
  /\ w.pc = "new"
  /\ w' = [w EXCEPT !.pc = CASE w.request = "unindexed" -> "refused"
                             [] w.request = "all" -> "plain"
                             [] OTHER -> "seeding"]
  /\ view' = IF w.request = "indexed" THEN [k \in Matching |-> store[k]] ELSE store
  /\ UNCHANGED <<apiVars, stop, closed, left, late>>

(* The seeding List. *)
currentMembers ==
  /\ w.pc = "seeding"
  /\ w' = [w EXCEPT !.pc = "check", !.in = [k \in Matching |-> store[k]]]
  /\ left' = {k \in DOMAIN view \ Matching :
                \E i \in DOMAIN up : up[i].key = k /\ up[i].type \in {"Added", "Modified"}
                                                   /\ up[i].obj.spec \notin Selected}
  /\ UNCHANGED <<apiVars, stop, closed, view, late>>

(* It fails, for whatever reason: the upstream is stopped and the caller   *)
(* gets the error.                                                         *)
seedFails ==
  /\ w.pc = "seeding"
  /\ w' = [w EXCEPT !.pc = "failed"] /\ closed' = TRUE /\ up' = <<>>
  /\ UNCHANGED <<store, rv, call, stop, view, left, late>>
------------------------------------------------------------------------------
(* The goroutine. *)

(* What filter makes of an event: the new membership, and the event to     *)
(* deliver, if any.                                                        *)
Filtered(in, ev) == [in |-> in, out |-> <<ev>>]
Hidden(in) == [in |-> in, out |-> <<>>]

(* A deletion inside the seeding window is of an object the List no longer *)
(* saw, so the deleted object decides too.  Mutant: membership alone does. *)
showsDeletion_Membership(was, matches) == was
showsDeletion(was, matches) == was \/ matches

filter(in, ev) ==
  LET k == ev.key
      was == k \in DOMAIN in
      matches == ev.obj.spec \in Selected IN
  CASE ev.type = "Error" -> Filtered(in, ev)
    [] ev.type = "Deleted" -> IF showsDeletion(was, matches) THEN Filtered(Drop(in, k), ev) ELSE Hidden(Drop(in, k))
    [] OTHER -> IF matches THEN Filtered(Put(in, k, ev.obj),
                                         [ev EXCEPT !.type = IF was THEN "Modified" ELSE "Added"])
                ELSE IF was THEN Filtered(Drop(in, k),
                                          Event("Deleted", k, [in[k] EXCEPT !.rv = ev.obj.rv]))
                ELSE Hidden(in)

Ends == w' = [w EXCEPT !.pc = "done", !.ev = <<>>] /\ stop' = TRUE /\ closed' = TRUE /\ up' = <<>>

(* Mutant: straight to the select. *)
run_check_None ==
  /\ w.pc = "check"
  /\ w' = [w EXCEPT !.pc = "select"]
  /\ UNCHANGED <<apiVars, stop, closed, view, left, late>>

(* A stop already signalled is looked for on its own. *)
run_check ==
  /\ w.pc = "check"
  /\ IF stop THEN Ends ELSE w' = [w EXCEPT !.pc = "select"] /\ UNCHANGED <<stop, closed, up>>
  /\ UNCHANGED <<store, rv, call, view, left, late>>

(* select: whichever arm is ready. *)
run_select ==
  /\ w.pc = "select"
  /\ \/ stop /\ Ends
     \/ closed /\ up = <<>> /\ Ends
     \/ /\ up # <<>>
        /\ LET f == filter(w.in, Head(up)) IN
             w' = [w EXCEPT !.in = f.in, !.ev = f.out,
                            !.pc = IF f.out = <<>> THEN "check" ELSE "send"]
        /\ up' = Tail(up) /\ UNCHANGED <<stop, closed>>
  /\ UNCHANGED <<store, rv, call, view, left, late>>

Seen(ev) == CASE ev.type = "Error" -> view
              [] ev.type = "Deleted" -> Drop(view, ev.key)
              [] OTHER -> Put(view, ev.key, ev.obj)

(* The unbuffered channel: the consumer takes the event, or stop comes     *)
(* first.                                                                  *)
run_send ==
  /\ w.pc = "send"
  /\ \/ /\ view' = Seen(w.ev[1]) /\ late' = late + (IF stop THEN 1 ELSE 0)
        /\ w' = [w EXCEPT !.pc = "check", !.ev = <<>>]
        /\ UNCHANGED <<stop, closed, up>>
     \/ stop /\ Ends /\ UNCHANGED <<view, late>>
  /\ UNCHANGED <<store, rv, call, left>>

(* An upstream watch that is not filtered: the consumer reads it itself. *)
plain ==
  /\ w.pc = "plain" /\ up # <<>> /\ ~stop
  /\ view' = Seen(Head(up)) /\ up' = Tail(up)
  /\ UNCHANGED <<store, rv, call, w, stop, closed, left, late>>
------------------------------------------------------------------------------
(* Stop, or the end of the context, which stops the upstream too. *)
Stop ==
  /\ w.pc \in {"seeding", "check", "select", "send", "plain"} /\ ~stop
  /\ stop' = TRUE /\ closed' = TRUE
  /\ UNCHANGED <<apiVars, w, view, left, late>>

(* The upstream of a caller's Watch interceptor reports an error, which    *)
(* carries no object, or closes.                                           *)
UpstreamFails ==
  /\ Open /\ rv < MaxWrites
  /\ \/ up' = Append(up, Event("Error", CHOOSE k \in Key : TRUE, [spec |-> "none"]))
        /\ rv' = rv + 1 /\ UNCHANGED closed
     \/ closed' = TRUE /\ UNCHANGED <<up, rv>>
  /\ UNCHANGED <<store, call, w, stop, view, left, late>>

Watch == \/ watchFunc \/ currentMembers \/ seedFails \/ run_check \/ run_select \/ run_send \/ plain
         \/ Stop \/ UpstreamFails

Next == Watch \/ (Api(Open) /\ UNCHANGED watchVars)

Spec == Init /\ [][Next]_vars
------------------------------------------------------------------------------
(* Properties. *)

(* metadata.generation moves by exactly one for a change of the content or *)
(* the beginning of a deletion, and not at all otherwise, through every    *)
(* kind of write and whatever the client sent (generationTracker).         *)
GenerationCounts ==
  [][ \A k \in DOMAIN store \cap DOMAIN store' :
        LET o == store[k] n == store'[k] IN
        n.gen = o.gen + IF n.spec # o.spec \/ n.deleting # o.deleting THEN 1 ELSE 0 ]_vars

(* When a write succeeds, the object in hand carries a generation the store *)
(* held for it at some moment since the write, whoever wrote in between;   *)
(* a dry run, or an object that was gone by the read-back, leaves what was *)
(* sent (createFunc, updateFunc, writeBackGeneration).                     *)
HeldGenerationWasStored ==
  call.pc = "done" =>
    IF call.dry \/ call.gone THEN call.held = call.sent ELSE call.held \in call.since

(* A watch that has nothing left to deliver has told its consumer          *)
(* everything: the members it remembers and the objects the consumer holds *)
(* are those in the store that match, except that an object modified out   *)
(* of the selector between the opening and the seeding List may stay in    *)
(* the consumer's view (watchFunc, currentMembers, filter).                *)
WatchConverges ==
  w.pc \in {"check", "select"} /\ up = <<>> /\ ~closed =>
    /\ w.in = [k \in Matching |-> store[k]]
    /\ \A k \in Matching : k \in DOMAIN view /\ view[k] = store[k]
    /\ DOMAIN view \ Matching \subseteq left

(* After Stop the consumer may still be handed the event that was in       *)
(* flight, and no other (run's check of stop on its own).                  *)
OneInFlight == late <= 1
==============================================================================
