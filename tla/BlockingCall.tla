----------------------------- MODULE BlockingCall -----------------------------
(***************************************************************************)
(* What a forwarded call promises the thread that makes it: it returns     *)
(* once, with the answer to its own request (or with the failure that was  *)
(* that answer), unless the process exits or the server dies first.  Seeks *)
(* keep the promise only to a thread that is alone in seeking.             *)
(***************************************************************************)
CONSTANTS Threads, SeekThreads, Requests, NoRequest, Failed

VARIABLES alive,    \* the process has not exited
          serverUp, \* the server has not died
          request,  \* the request a thread is blocked on
          result    \* what the last call of a thread returned

callVars == <<alive, serverUp, request, result>>

CallInit ==
    /\ alive = TRUE /\ serverUp = TRUE
    /\ request = [t \in Threads |-> NoRequest]
    /\ result = [t \in Threads |-> Failed]

Invoke(t) ==
    /\ alive /\ request[t] = NoRequest
    /\ \E n \in Requests :
          /\ \A u \in Threads : request[u] # n
          /\ request' = [request EXCEPT ![t] = n]
    /\ UNCHANGED <<alive, serverUp, result>>

\* Threads that seek at the same time may get each other's answers.
Reliable(t) == t \notin SeekThreads \/ SeekThreads = {t}

\* A seek to a server that died may return anything, too.
Answers(t) == IF Reliable(t) /\ (serverUp \/ t \notin SeekThreads)
              THEN {request[t], Failed}
              ELSE Requests \cup {Failed}

Return(t) ==
    /\ alive /\ request[t] # NoRequest
    /\ \E answer \in Answers(t) : result' = [result EXCEPT ![t] = answer]
    /\ request' = [request EXCEPT ![t] = NoRequest]
    /\ UNCHANGED <<alive, serverUp>>

Exit ==
    /\ alive' = FALSE
    /\ UNCHANGED <<serverUp, request, result>>

ServerDies ==
    /\ serverUp' = FALSE
    /\ UNCHANGED <<alive, request, result>>

CallNext == (\E t \in Threads : Invoke(t) \/ Return(t)) \/ Exit \/ ServerDies

CallSpec == /\ CallInit /\ [][CallNext]_callVars
            /\ \A t \in Threads : WF_callVars(serverUp /\ Reliable(t) /\ Return(t))
===============================================================================
