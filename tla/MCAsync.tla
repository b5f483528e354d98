---------------------------------- MODULE MCAsync ----------------------------------
(* What asolve() waits for, one at a time: the custom fields of a call, and calls in *)
(* the thread pool.  Of the customs two are coroutine fields, one runs in the thread *)
(* pool, and two are asked with a copy, one of them declared first.  Of the calls    *)
(* two compete for one connection with one thread, and one may be cancelled, with a  *)
(* generator around a function.                                                      *)
EXTENDS Fields, ThreadPool, TLC

CONSTANTS header, path, query, token, body, reader, writer, guest

MCOrder == <<token, header, path, query, body>>
MCSteps == reader :> <<"context", "pooled">> @@ writer :> <<"plain", "pooled">>
               @@ guest :> <<"context", "plain">>

\* Both systems keep their types, and the pool no two requests for a thread of one call.
AsyncTypeOK == TypeOK /\ PoolTypeOK

AsyncNext ==
    \/ (\A t \in Tasks : pc[t] = "idle") /\ Next /\ UNCHANGED poolVars
    \/ phase = "idle" /\ PoolNext /\ UNCHANGED vars

AsyncInit == Init /\ PoolInit

AsyncSpec ==
    /\ AsyncInit
    /\ [][AsyncNext]_<<vars, poolVars>>
    /\ Fairness /\ PoolFairness
==============================================================================
