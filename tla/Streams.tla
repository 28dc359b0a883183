---------------------------------- MODULE Streams ----------------------------------
(***********************************************************************************)
(* A market stream of one venue: the reconnecting run loop of MarketStream         *)
(* (data/streams/base.py) inside the loops that build it from the mirrored markets *)
(* (data/streams/runner.py) and restart it when it raises (main.py).               *)
(*                                                                                 *)
(* `at` is where the task is: the connection states of the stream, "mapping" and   *)
(* "empty" before there is one, "crashed" in the restart guard, "cancelled" at     *)
(* shutdown.  Nothing else calls stop(), so run() does not return.                 *)
(***********************************************************************************)
EXTENDS Integers

CONSTANTS
    Listings,      \* markets of the venue that can be mirrored
    MaxExponent    \* the first attempt whose 2**attempt no float can hold: 1024

ASSUME StreamAssumption == MaxExponent \in Nat

VARIABLES
    at,
    attempt,       \* _backoff._attempt
    subscribed,    \* the mapping the stream was built with
    mirrored,      \* the open mirrored markets, in the database
    venueUp, dbUp  \* whether the venue and the database answer

streamVars == <<at, attempt, subscribed, mirrored, venueUp, dbUp>>

StreamInit ==
    /\ at = "mapping" /\ attempt = 0 /\ subscribed = {}
    /\ mirrored \in SUBSET Listings
    /\ venueUp \in BOOLEAN /\ dbUp \in BOOLEAN

Environment == <<mirrored, venueUp, dbUp>>

-------------------------------------------------------------------------------------
(* The task.                                                                       *)

\* A new stream starts with a fresh backoff and keeps its mapping for good.
ReadMapping ==
    /\ at = "mapping" /\ dbUp
    /\ IF mirrored = {}
       THEN at' = "empty" /\ UNCHANGED <<attempt, subscribed>>
       ELSE at' = "connecting" /\ attempt' = 0 /\ subscribed' = mirrored
    /\ UNCHANGED Environment

ReadFails ==
    /\ at = "mapping" /\ ~dbUp
    /\ at' = "crashed"
    /\ UNCHANGED <<attempt, subscribed, Environment>>

\* Sixty seconds without mirrored markets are over.
LookAgain ==
    /\ at = "empty"
    /\ at' = "mapping"
    /\ UNCHANGED <<attempt, subscribed, Environment>>

\* Connecting sends the subscriptions of the whole mapping.
Connect ==
    /\ at = "connecting" /\ venueUp
    /\ at' = "connected"
    /\ UNCHANGED <<attempt, subscribed, Environment>>

\* next_delay() computes base * 2**attempt before it takes the minimum with the cap, and
\* a session that ends by an error never resets the attempt.
Overflows == attempt >= MaxExponent

\* Connecting failed, the connection dropped or the heartbeat timed out.
SessionFails ==
    /\ at \in {"connecting", "connected"} /\ ~venueUp
    /\ IF Overflows
       THEN at' = "crashed" /\ UNCHANGED attempt
       ELSE at' = "reconnecting" /\ attempt' = attempt + 1
    /\ UNCHANGED <<subscribed, Environment>>

DelayOver ==
    /\ at = "reconnecting"
    /\ at' = "connecting"
    /\ UNCHANGED <<attempt, subscribed, Environment>>

\* Mutant: the guard reports the crash and lets the task end.
AfterCrashReturned == "returned"

\* What the guard in main.py does thirty seconds after an exception.
AfterCrash == "mapping"

Restart ==
    /\ at = "crashed"
    /\ at' = AfterCrash
    /\ UNCHANGED <<attempt, subscribed, Environment>>

\* Shutdown cancels the task: stop(), and CancelledError is raised on.
Cancel ==
    /\ at # "cancelled"
    /\ at' = "cancelled"
    /\ UNCHANGED <<attempt, subscribed, Environment>>

-------------------------------------------------------------------------------------
(* The world.                                                                      *)

\* Ingestion mirrors markets and closes them.
Mirror ==
    /\ \E m \in Listings :
          mirrored' \in {mirrored \cup {m}, mirrored \ {m}}
    /\ UNCHANGED <<at, attempt, subscribed, venueUp, dbUp>>

Outage ==
    /\ \/ venueUp' = ~venueUp /\ UNCHANGED dbUp
       \/ dbUp' = ~dbUp /\ UNCHANGED venueUp
    /\ UNCHANGED <<at, attempt, subscribed, mirrored>>

StreamNext ==
    \/ ReadMapping \/ ReadFails \/ LookAgain \/ Connect
    \/ SessionFails \/ DelayOver \/ Restart \/ Cancel
    \/ Mirror \/ Outage

\* The timers of the task fire and its requests are answered, by a failure at worst.
StreamFairness ==
    /\ WF_streamVars(ReadMapping \/ ReadFails \/ LookAgain)
    /\ WF_streamVars(Connect \/ SessionFails)
    /\ WF_streamVars(DelayOver)
    /\ WF_streamVars(Restart)

StreamSpec == StreamInit /\ [][StreamNext]_streamVars

-------------------------------------------------------------------------------------
(* Properties.                                                                     *)

StreamTypeOK ==
    /\ at \in {"mapping", "empty", "connecting", "connected", "reconnecting", "crashed", "cancelled"}
    /\ attempt \in 0..MaxExponent + 1
    /\ subscribed \subseteq Listings
    /\ mirrored \subseteq Listings /\ venueUp \in BOOLEAN /\ dbUp \in BOOLEAN

\* Once outages are over and some market is mirrored, the stream is connected again and
\* again until the task is cancelled, however many sessions failed before and wherever
\* they failed; that is what run() and the restart guard in main.py are for.
StreamComesBack ==
    <>[](venueUp /\ dbUp /\ mirrored # {}) => []<>(at \in {"connected", "cancelled"})

=====================================================================================
