------------------------------ MODULE MCPaperStreams ------------------------------
(***********************************************************************************)
(* Two parts whose sessions must come to an end, explored one at a time:           *)
(*                                                                                 *)
(*   paper    two requests and two settlers of one user's position                 *)
(*   stream   a market stream over two listings, with outages of the venue and the *)
(*            database; its backoff overflows at the third failure                 *)
(***********************************************************************************)
EXTENDS MCPaperTrading, Streams

VARIABLE explored

liveVars == <<vars, streamVars, explored>>

\* While paper is traded the stream task is over.
NoStream ==
    /\ at = "cancelled" /\ attempt = 0 /\ subscribed = {} /\ mirrored = {}
    /\ venueUp = TRUE /\ dbUp = TRUE

LiveInit ==
    /\ Init
    /\ \/ explored = "paper" /\ NoStream
       \/ explored = "stream" /\ StreamInit

LiveNext ==
    /\ \/ explored = "paper" /\ Next /\ UNCHANGED streamVars
       \/ explored = "stream" /\ StreamNext /\ UNCHANGED vars
    /\ UNCHANGED explored

LiveSpec ==
    /\ LiveInit /\ [][LiveNext]_liveVars
    /\ PaperFairness /\ StreamFairness

\* Both parts keep their types.
LiveTypeOK == TypeOK /\ StreamTypeOK

=====================================================================================
