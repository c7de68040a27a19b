-------------------------------- MODULE Cursor --------------------------------
(***************************************************************************)
(* Recording clients and one cursor over the op log they feed              *)
(* (ctrltest/recorder.go, ctrltest/matchers.go).                           *)
(*                                                                         *)
(* Controllers write concurrently: the API server answers a write, and     *)
(* only then does the recording client file it.  A waiter runs the polling *)
(* loop of WaitForNext, WaitForAll, WaitForMatching or                     *)
(* RequireNoActionTaken over the cursor.  Cursor.mu and Recorder.mu are    *)
(* taken and released inside one iteration, so the iteration is not atomic.*)
(***************************************************************************)
EXTENDS OpLog, SequencesExt

CONSTANTS
  Controller,        \* names the recording clients are tagged with
  Namespace,
  Label,             \* verb, kind and name of a write
  Waiter,            \* goroutines using the cursor; the owner alone when used as documented
  Kinds,             \* the assertions they call
  MaxWant,           \* bound: expectations given to WaitForAll
  CursorNs,          \* Cursor.ns
  CursorController,  \* Cursor.controller
  Timeout,           \* clock ticks until a wait's deadline
  MaxOps,            \* bound: length of the op log
  NoWait             \* no call in progress

ASSUME CursorAssumption ==
  /\ CursorNs \in Namespace
  /\ CursorController \in Controller \cup {AnyController}
  /\ AnyController \notin Controller
  /\ Kinds \subseteq {"next", "all", "matching", "quiet"}
  /\ Timeout \in Nat \ {0} /\ MaxOps \in Nat /\ MaxWant \in Nat \ {0}

VARIABLES
  ops,       \* Recorder.ops
  answered,  \* the write each client has an answer for and has not filed yet
  scan,      \* Cursor.scan
  wpc, call, left,    \* of each waiter: position in the loop, arguments, time left
  from, found, floor, \* of each waiter: what position and scanInScope returned
  answer              \* how its last call ended

waits      == <<wpc, call, left, from, found, floor, answer>>
cursorVars == <<ops, answered, scan, waits>>

Op == [controller : Controller, ns : Namespace, accepted : BOOLEAN, label : Label]

Wants == UNION {[1 .. n -> Label] : n \in 1 .. MaxWant}
Calls == {c \in [kind : Kinds, want : Wants \cup {<<>>}] :
            CASE c.kind = "all"   -> c.want # <<>>
              [] c.kind = "quiet" -> c.want = <<>>
              [] OTHER            -> Len(c.want) = 1}

ASSUME NoWaitIsNoCall == NoWait \notin Calls

CursorTypeOK ==
  /\ ops \in Seq(Op) /\ Len(ops) <= MaxOps + 1
  /\ answered \in [Controller -> Op \cup {NoWait}]
  /\ scan \in 0 .. Len(ops)
  /\ wpc \in [Waiter -> {"idle", "poll", "scan", "advance", "clock"}]
  /\ call \in [Waiter -> Calls \cup {NoWait}]
  /\ left \in [Waiter -> 0 .. Timeout]
  /\ from \in [Waiter -> 0 .. Len(ops)]
  /\ floor \in [Waiter -> 0 .. Len(ops)]
  /\ found \in [Waiter -> Seq(0 .. Len(ops) - 1)]
  /\ answer \in [Waiter -> {"none", "ok", "mismatch", "timeout", "action", "quiet"}]

(* CursorFor: the cursor starts at the current end of the log. *)
CursorInit ==
  /\ ops \in {<<>>} \cup {<<op>> : op \in Op}
  /\ scan = Len(ops)
  /\ answered = [c \in Controller |-> NoWait]
  /\ wpc = [w \in Waiter |-> "idle"]
  /\ call = [w \in Waiter |-> NoWait]
  /\ left = [w \in Waiter |-> 0]
  /\ from = [w \in Waiter |-> 0]
  /\ floor = [w \in Waiter |-> 0]
  /\ found = [w \in Waiter |-> <<>>]
  /\ answer = [w \in Waiter |-> "none"]

Scoped(op) == inScope(op, CursorNs, CursorController, FALSE)
------------------------------------------------------------------------------
(* recordingClient: every write verb is the API call, then Recorder.add. *)

Answer(c, op) ==
  /\ answered[c] = NoWait
  /\ op.controller = c
  /\ Len(ops) + Cardinality({d \in Controller : answered[d] # NoWait}) < MaxOps
  /\ answered' = [answered EXCEPT ![c] = op]
  /\ UNCHANGED <<ops, scan, wpc, call, left, from, found, floor, answer>>

addKey(c) ==
  /\ answered[c] # NoWait
  /\ ops' = Append(ops, answered[c])
  /\ answered' = [answered EXCEPT ![c] = NoWait]
  /\ UNCHANGED <<scan, waits>>
------------------------------------------------------------------------------
(* The waiters. *)

Call(w, c) ==
  /\ wpc[w] = "idle"
  /\ call' = [call EXCEPT ![w] = c]
  /\ wpc' = [wpc EXCEPT ![w] = "poll"]
  /\ left' = [left EXCEPT ![w] = Timeout]
  /\ answer' = [answer EXCEPT ![w] = "none"]
  /\ UNCHANGED <<ops, answered, scan, from, found, floor>>

Tick ==
  /\ \E w \in Waiter : left[w] > 0
  /\ left' = [w \in Waiter |-> IF left[w] > 0 THEN left[w] - 1 ELSE 0]
  /\ UNCHANGED <<ops, answered, scan, wpc, call, from, found, floor, answer>>

ReturnFrom(w, a) ==
  /\ wpc' = [wpc EXCEPT ![w] = "idle"]
  /\ call' = [call EXCEPT ![w] = NoWait]
  /\ left' = [left EXCEPT ![w] = 0]
  /\ from' = [from EXCEPT ![w] = 0]
  /\ floor' = [floor EXCEPT ![w] = 0]
  /\ found' = [found EXCEPT ![w] = <<>>]
  /\ answer' = [answer EXCEPT ![w] = a]

Goto(w, loc) ==
  /\ wpc' = [wpc EXCEPT ![w] = loc]
  /\ UNCHANGED <<call, left, answer>>

(* peekLocked: park on the next in-scope op, or past the end of the log. *)
peekLocked == firstMatchFrom(ops, scan, CursorNs, CursorController, FALSE)

(* waitForNext: take pops the op it finds, matching or not. *)
take(w) ==
  /\ wpc[w] = "poll" /\ call[w].kind = "next"
  /\ IF peekLocked < Len(ops)
     THEN /\ scan' = peekLocked + 1
          /\ ReturnFrom(w, IF ops[peekLocked + 1].label = call[w].want[1] THEN "ok" ELSE "mismatch")
     ELSE /\ scan' = peekLocked
          /\ Goto(w, "clock") /\ UNCHANGED <<from, found, floor>>
  /\ UNCHANGED <<ops, answered>>

(* waitWithinQuiet: next does not consume. *)
waitWithinQuiet(w) ==
  /\ wpc[w] = "poll" /\ call[w].kind = "quiet"
  /\ scan' = peekLocked
  /\ IF peekLocked < Len(ops)
     THEN ReturnFrom(w, "action")
     ELSE Goto(w, "clock") /\ UNCHANGED <<from, found, floor>>
  /\ UNCHANGED <<ops, answered>>

(* waitForAll and waitForMatching read the position, scan, then advance, in  *)
(* three critical sections.                                                  *)
position(w) ==
  /\ wpc[w] = "poll" /\ call[w].kind \in {"all", "matching"}
  /\ from' = [from EXCEPT ![w] = scan]
  /\ Goto(w, "scan")
  /\ UNCHANGED <<ops, answered, scan, found, floor>>

(* Up to n in-scope positions at or after p, in log order. *)
FirstScoped(log, p, n) ==
  LET upTo[i \in 0 .. Len(log)] ==
        IF i = 0 THEN <<>>
        ELSE LET hits == upTo[i - 1]
             IN  IF i > p /\ Len(hits) < n /\ Scoped(log[i]) THEN Append(hits, i - 1) ELSE hits
  IN  upTo[Len(log)]

scanInScope(w) ==
  LET hits == FirstScoped(ops, from[w], Len(call[w].want))
  IN  /\ wpc[w] = "scan" /\ call[w].kind = "all"
      /\ found' = [found EXCEPT ![w] = hits]
      /\ floor' = [floor EXCEPT ![w] = IF hits = <<>> THEN Len(ops) ELSE Head(hits)]
      /\ Goto(w, "advance")
      /\ UNCHANGED <<ops, answered, scan, from>>

findInScope(w) ==
  LET hits == {i \in ScopedFrom(ops, from[w], CursorNs, CursorController, FALSE) :
                 ops[i + 1].label = call[w].want[1]}
  IN  /\ wpc[w] = "scan" /\ call[w].kind = "matching"
      /\ found' = [found EXCEPT ![w] = IF hits = {} THEN <<>> ELSE <<Min(hits)>>]
      /\ Goto(w, "advance")
      /\ UNCHANGED <<ops, answered, scan, from, floor>>

(* advanceTo never moves the cursor backwards. *)
advanceTo(idx) == scan' = IF idx > scan THEN idx ELSE scan

(* compareMultiset: nothing missing and nothing unexpected, duplicates       *)
(* counted.                                                                  *)
compareMultiset_NoCount(want, got) ==  \* slip: duplicates are not counted
  ToSet(want) \subseteq ToSet(got)

Count(s, l) == Cardinality({i \in DOMAIN s : s[i] = l})

compareMultiset(want, got) ==
  LET missing    == {l \in ToSet(want) : Count(want, l) > Count(got, l)}
      unexpected == {l \in ToSet(got) : Count(got, l) > Count(want, l)}
  IN  missing = {} /\ unexpected = {}

waitForAll(w) ==
  /\ wpc[w] = "advance" /\ call[w].kind = "all"
  /\ IF Len(found[w]) = Len(call[w].want)
     THEN /\ advanceTo(Last(found[w]) + 1)
          /\ ReturnFrom(w, IF compareMultiset(call[w].want,
                                              [i \in DOMAIN found[w] |-> ops[found[w][i] + 1].label])
                           THEN "ok" ELSE "mismatch")
     ELSE /\ advanceTo(floor[w])
          /\ Goto(w, "clock") /\ UNCHANGED <<from, found, floor>>
  /\ UNCHANGED <<ops, answered>>

waitForMatching(w) ==
  /\ wpc[w] = "advance" /\ call[w].kind = "matching"
  /\ IF found[w] # <<>>
     THEN /\ advanceTo(found[w][1] + 1)
          /\ ReturnFrom(w, "ok")
     ELSE /\ Goto(w, "clock") /\ UNCHANGED <<scan, from, found, floor>>
  /\ UNCHANGED <<ops, answered>>

(* time.Now().After(deadline), or sleep and poll again. *)
deadline(w) ==
  /\ wpc[w] = "clock"
  /\ IF left[w] = 0
     THEN ReturnFrom(w, IF call[w].kind = "quiet" THEN "quiet" ELSE "timeout")
     ELSE Goto(w, "poll") /\ UNCHANGED <<from, found, floor>>
  /\ UNCHANGED <<ops, answered, scan>>

WaiterStep(w) ==
  \/ take(w) \/ waitWithinQuiet(w) \/ position(w) \/ scanInScope(w) \/ findInScope(w)
  \/ waitForAll(w) \/ waitForMatching(w) \/ deadline(w)

CursorNext ==
  \/ \E c \in Controller : addKey(c) \/ \E op \in Op : Answer(c, op)
  \/ \E w \in Waiter : WaiterStep(w) \/ \E c \in Calls : Call(w, c)
  \/ Tick

CursorSpec == CursorInit /\ [][CursorNext]_cursorVars
------------------------------------------------------------------------------
(* Properties *)

Owner == CHOOSE w \in Waiter : TRUE

(* Used by its one owner, the cursor is a queue of the accepted writes in    *)
(* its scope: no write is skipped, seen twice or taken out of order by the   *)
(* exact matchers, whatever is out of scope, rejected or recorded meanwhile. *)
Queue == INSTANCE OpQueue WITH
  pending <- [i \in DOMAIN FirstScoped(ops, scan, Len(ops)) |-> ops[FirstScoped(ops, scan, Len(ops))[i] + 1].label],
  call    <- call[Owner],
  answer  <- answer[Owner]

IsQueue == Queue!QSpec
==============================================================================
