----------------------------- MODULE BinderCall -----------------------------
(***************************************************************************)
(* What the binder driver promises about each call, whatever the threads,  *)
(* queues and processes that carry it.  A call is one numbered command of  *)
(* a sending thread.  It is queued one-way or synchronously.  A one-way    *)
(* call is consumed by a reader.  A synchronous one is served by a reader  *)
(* (pushed on its incoming_transactions), answered (its BC_REPLY is on the *)
(* way back) and received by the caller.  Until it is answered, closing    *)
(* the server turns it into a BR_DEAD_BINDER for the caller.  At any point *)
(* after it was queued it may be dropped (a failed read, a refused reply,  *)
(* a released queue); "done" is final.  Nothing here says a call ever      *)
(* finishes: the abstraction is a safety specification.                    *)
(***************************************************************************)
CONSTANT Calls

VARIABLE status

Statuses == {"idle", "oneway", "queued", "serving", "answered", "dead", "done"}
InFlight == {"oneway", "queued", "serving", "answered", "dead"}
Killable == {"queued", "serving"}

TypeOK == status \in [Calls -> Statuses]

Init == status = [c \in Calls |-> "idle"]

(* The moves a call may make, as (before, after) pairs of its status.     *)
Send     == {<<"idle", "oneway">>, <<"idle", "queued">>}
NotACall == {<<"idle", "done">>}    \* the number went to another command
Consume  == {<<"oneway", "done">>}
Serve    == {<<"queued", "serving">>}
Answer   == {<<"serving", "answered">>}
Receive  == {<<"answered", "done">>, <<"dead", "done">>}
Drop     == InFlight \X {"done"}
Die      == Killable \X {"dead"}
Moves == Send \cup NotACall \cup Consume \cup Serve \cup Answer \cup Receive
         \cup Drop

(* One call makes one move, or a server closes: each unanswered           *)
(* synchronous call it holds may die and each call it holds in any other  *)
(* form may be dropped, all at once.  now and nxt are status before and   *)
(* after the step.                                                        *)
Step(now, nxt) ==
    \/ \E c \in Calls :
          /\ <<now[c], nxt[c]>> \in Moves
          /\ \A d \in Calls \ {c} : nxt[d] = now[d]
    \/ \A c \in Calls : nxt[c] = now[c] \/ <<now[c], nxt[c]>> \in Die \cup Drop

Next ==
    /\ status' \in [Calls -> Statuses]
    /\ LET now == status
           nxt == status'
       IN  Step(now, nxt)

Spec == Init /\ [][Next]_status
=============================================================================
