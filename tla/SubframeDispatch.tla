-------------------------- MODULE SubframeDispatch --------------------------
(***************************************************************************)
(* What the synchronizer may rely on, whatever the threads and the queues   *)
(* do: a dispatcher of subframes with a fixed number of credits.  A         *)
(* subframe is accepted for a credit; accepted subframes are begun in the   *)
(* order they were accepted, each by one decoder and as it was accepted;    *)
(* every one of them is finished, and gives its credit back.                *)
(***************************************************************************)
EXTENDS Naturals, Sequences

CONSTANTS
  Jobs,      (* the subframes that can be offered, with their parameters *)
  Workers,   (* the decoders                                             *)
  Credits,   (* subframes that can be in flight: a natural number        *)
  Idle       (* a worker that has no subframe: not a member of Jobs      *)

VARIABLES
  pending,   (* accepted and not begun, in order *)
  working,   (* the subframe of each worker      *)
  credits    (* credits left                     *)

dvars == <<pending, working, credits>>

Init ==
  /\ pending = <<>>
  /\ working = [w \in Workers |-> Idle]
  /\ credits = Credits

Accept(j) ==
  /\ credits > 0
  /\ credits' = credits - 1
  /\ pending' = Append(pending, j)
  /\ UNCHANGED working

Begin(w) ==
  /\ working[w] = Idle
  /\ pending # <<>>
  /\ working' = [working EXCEPT ![w] = Head(pending)]
  /\ pending' = Tail(pending)
  /\ UNCHANGED credits

Finish(w) ==
  /\ working[w] # Idle
  /\ working' = [working EXCEPT ![w] = Idle]
  /\ credits' = credits + 1
  /\ UNCHANGED pending

Next ==
  \/ \E j \in Jobs : Accept(j)
  \/ \E w \in Workers : Begin(w) \/ Finish(w)

Spec == Init /\ [][Next]_dvars

\* Some worker begins whatever is pending, and every worker finishes.
FairSpec ==
  /\ Spec
  /\ WF_dvars(\E w \in Workers : Begin(w))
  /\ \A w \in Workers : WF_dvars(Finish(w))
=============================================================================
