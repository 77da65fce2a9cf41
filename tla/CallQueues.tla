------------------------------ MODULE CallQueues ------------------------------
(***************************************************************************)
(* What a ThreadQueue promises: the calls the main thread posts are taken  *)
(* one by one, in the order of posting, and run on the side; what they     *)
(* answer is run by the main thread, in the order of answering.            *)
(***************************************************************************)
EXTENDS Naturals, Sequences

CONSTANTS MaxCalls, MaxResponses

VARIABLES
  calls,       \* posted, not taken: calls are numbered as they are posted
  running,     \* the calls that run
  responses,   \* answered, not dispatched
  posted,      \* how many calls have been posted
  responded    \* how many responses there have been

vars == <<calls, running, responses, posted, responded>>

Init ==
  /\ calls = <<>> /\ running = {} /\ responses = <<>>
  /\ posted = 0 /\ responded = 0

Post ==
  /\ posted < MaxCalls
  /\ posted' = posted + 1
  /\ calls' = Append(calls, posted')
  /\ UNCHANGED <<running, responses, responded>>

Take ==
  /\ calls # <<>>
  /\ running' = running \union {Head(calls)}
  /\ calls' = Tail(calls)
  /\ UNCHANGED <<responses, posted, responded>>

Respond ==
  /\ running # {} /\ responded < MaxResponses
  /\ responded' = responded + 1
  /\ responses' = Append(responses, responded')
  /\ UNCHANGED <<calls, running, posted>>

Finish ==
  /\ \E c \in running : running' = running \ {c}
  /\ UNCHANGED <<calls, responses, posted, responded>>

Dispatch ==
  /\ responses # <<>>
  /\ responses' = Tail(responses)
  /\ UNCHANGED <<calls, running, posted, responded>>

Next == Post \/ Take \/ Respond \/ Finish \/ Dispatch

Spec == Init /\ [][Next]_vars

FairSpec == Spec /\ WF_vars(Take) /\ WF_vars(Dispatch)
=============================================================================
