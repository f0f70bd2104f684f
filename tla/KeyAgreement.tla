---------------------------- MODULE KeyAgreement ----------------------------
(***************************************************************************)
(* What a handshake promises its two callers: the client settles what it   *)
(* wants to agree on (keys and its view of the whole exchange), the server *)
(* may then complete with exactly that, and the client completes only with *)
(* a server that has.  Either side may fail instead, at any time.          *)
(***************************************************************************)
CONSTANTS Client, Server, Nothing

VARIABLES
    stage,   \* stage[s]: "running", "established" or "failed"
    offer,   \* what the client has settled on, Nothing before that
    agreed   \* agreed[s]: what s has completed with, Nothing before that

avars == <<stage, offer, agreed>>

Side == {Client, Server}

Init == /\ stage = [s \in Side |-> "running"]
        /\ offer = Nothing
        /\ agreed = [s \in Side |-> Nothing]

\* The client settles once.
Offer == /\ offer = Nothing
         /\ stage[Client] = "running"
         /\ offer' # Nothing
         /\ UNCHANGED <<stage, agreed>>

Establish(s) == /\ stage[s] = "running"
                /\ offer # Nothing
                /\ s = Client => stage[Server] = "established"
                /\ stage' = [stage EXCEPT ![s] = "established"]
                /\ agreed' = [agreed EXCEPT ![s] = offer]
                /\ UNCHANGED offer

Fail(s) == /\ stage[s] = "running"
           /\ stage' = [stage EXCEPT ![s] = "failed"]
           /\ UNCHANGED <<offer, agreed>>

Next == Offer \/ \E s \in Side : Establish(s) \/ Fail(s)

Spec == Init /\ [][Next]_avars
=============================================================================
