-------------------------------- MODULE MCFfi --------------------------------
(***************************************************************************)
(* Three C threads on one connection, or one whose calls are looked at one *)
(* check at a time.                                                        *)
(***************************************************************************)
EXTENDS FfiCalls, FfiArgs

Script(a, b, c) == [t \in Threads |-> CASE t = "t1" -> a [] t = "t2" -> b [] OTHER -> c]

\* Readers against writers, frames sent and read from two threads, requests
\* accepted, probed and answered, opens and closes in between.
SomeScenarios == {
    Script(<<"read">>, <<"write">>, <<"close">>),
    Script(<<"write">>, <<"write">>, <<"read">>),
    Script(<<"open">>, <<"read">>, <<>>),
    Script(<<"open">>, <<"write">>, <<>>),
    Script(<<"shwrite">>, <<"shwrite">>, <<"shread">>),
    Script(<<"shread">>, <<"shread">>, <<"shclosestdin">>),
    Script(<<"shwrite">>, <<"shread">>, <<"shclose", "shread">>),
    Script(<<"shclose", "close">>, <<"shclose">>, <<"close">>),
    Script(<<"accept", "inaccept">>, <<"inreject">>, <<"write">>),
    Script(<<"accept", "inaccept">>, <<"accept", "inreject">>, <<>>)}

Nobody == [t \in Threads |-> <<>>]
MCInit == \/ FfInit /\ arg = <<>> /\ synced = TRUE
          \/ ArgInit /\ Started(Nobody)
MCNext == \/ arg = <<>> /\ FfNext /\ UNCHANGED avars
          \/ arg # <<>> /\ ArgNext /\ UNCHANGED fvars
mcvars == <<fvars, avars>>
\* Every thread goes on with its call, and the device with what it has to
\* send; nobody has to hang up and no timeout has to fire.
MCSpec == /\ MCInit /\ [][MCNext]_mcvars
          /\ \A t \in Threads: WF_mcvars(arg = <<>> /\ Step(t) /\ UNCHANGED avars)
          /\ WF_mcvars(arg = <<>> /\ Device /\ UNCHANGED avars)

\* The entry points: what a C caller may conclude from a status.  A call
\* refused for its arguments did nothing, and one that failed on a connection
\* in step left no channel behind that the caller has no handle of.
StatusMeansIt == arg # <<>> => RefusedUntouched /\ NoChannelLeft

\* Threads that share a connection through the C interface do not get into
\* each other's way: they sleep only for what they need, frames are sent
\* and read whole, a request is answered once, and one of them meets the
\* end of the connection.
CallsSafe ==
    /\ FfiTypeOK /\ SleepsForCause /\ FramesUnbroken /\ FramesOut
    /\ RequestsOnce /\ OneMeetsTheEnd
=============================================================================
