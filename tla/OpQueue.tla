------------------------------- MODULE OpQueue -------------------------------
(***************************************************************************)
(* What a Cursor promises its one owner: a queue of the in-scope writes    *)
(* recorded since it was constructed.  WaitForNext takes the head whatever *)
(* it is, WaitForAll takes the next n as a multiset, WaitForMatching drops *)
(* everything up to the first match, RequireNoActionTaken takes nothing.   *)
(***************************************************************************)
EXTENDS Integers, Sequences, SequencesExt, Bags

CONSTANTS Label, MaxWant, NoWait

VARIABLES pending,  \* labels of the in-scope ops not consumed yet
          call,     \* the wait in progress, or NoWait
          answer    \* how the last wait ended

qvars == <<pending, call, answer>>

Wants == UNION {[1 .. n -> Label] : n \in 1 .. MaxWant}
Calls == [kind : {"next", "all", "matching"}, want : Wants] \cup [kind : {"quiet"}, want : {<<>>}]

Multiset(s) == [l \in ToSet(s) |-> Cardinality({i \in DOMAIN s : s[i] = l})]

QInit == pending = <<>> /\ call = NoWait /\ answer = "none"

Recorded == \E l \in Label : pending' = Append(pending, l) /\ UNCHANGED <<call, answer>>

Called == /\ call = NoWait
          /\ call' \in Calls
          /\ call'.kind # "all" => Len(call'.want) <= 1
          /\ answer' = "none"
          /\ UNCHANGED pending

Ends(kind, a) == call # NoWait /\ call.kind = kind /\ call' = NoWait /\ answer' = a

Took ==
  /\ pending # <<>>
  /\ Ends("next", IF Head(pending) = call.want[1] THEN "ok" ELSE "mismatch")
  /\ pending' = Tail(pending)

TookAll ==
  LET n == Len(call.want)
      next == SubSeq(pending, 1, n)
  IN  /\ Len(pending) >= n
      /\ Ends("all", IF Multiset(next) = Multiset(call.want) THEN "ok" ELSE "mismatch")
      /\ pending' = SubSeq(pending, n + 1, Len(pending))

TookMatching ==
  \E k \in DOMAIN pending :
    /\ Ends("matching", "ok")
    /\ pending[k] = call.want[1]
    /\ \A j \in 1 .. k - 1 : pending[j] # call.want[1]
    /\ pending' = SubSeq(pending, k + 1, Len(pending))

SawAction == pending # <<>> /\ Ends("quiet", "action") /\ UNCHANGED pending

TimedOut ==
  /\ \/ \E kind \in {"next", "all", "matching"} : Ends(kind, "timeout")
     \/ Ends("quiet", "quiet")
  /\ UNCHANGED pending

QNext ==
  \/ Recorded
  \/ Called
  \/ call # NoWait /\ (Took \/ TookAll \/ TookMatching \/ SawAction \/ TimedOut)

QSpec == QInit /\ [][QNext]_qvars
==============================================================================
