---------------------------- MODULE SerialMailbox ----------------------------
(***************************************************************************)
(* What the SLM analysis queue promises its callers: a bounded FIFO of     *)
(* jobs with one server.  Jobs are numbered in the order the mailbox       *)
(* accepts them.  The oldest waiting job may be given up; a job is handed  *)
(* to the server at most once, in order, and one at a time.                *)
(***************************************************************************)
EXTENDS Naturals, Sequences

CONSTANT Capacity   \* how many jobs may wait, a positive number

VARIABLES accepted,   \* how many jobs were accepted so far
          waiting,    \* the jobs accepted and not yet served or given up
          serving     \* the job being served, 0 when the server is free

mailboxVars == <<accepted, waiting, serving>>

Init == /\ accepted = 0
        /\ waiting = <<>>
        /\ serving = 0

Accept == /\ Len(waiting) < Capacity
          /\ accepted' = accepted + 1
          /\ waiting' = Append(waiting, accepted + 1)
          /\ UNCHANGED serving

GiveUpOldest == /\ waiting # <<>>
                /\ waiting' = Tail(waiting)
                /\ UNCHANGED <<accepted, serving>>

Serve == /\ serving = 0
         /\ waiting # <<>>
         /\ serving' = Head(waiting)
         /\ waiting' = Tail(waiting)
         /\ UNCHANGED accepted

Finish == /\ serving # 0
          /\ serving' = 0
          /\ UNCHANGED <<accepted, waiting>>

Next == Accept \/ GiveUpOldest \/ Serve \/ Finish

Spec == Init /\ [][Next]_mailboxVars
=============================================================================
