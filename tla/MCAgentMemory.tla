---------------------------- MODULE MCAgentMemory ----------------------------
(* Two runs of two accounts.  The first one has three requests on the same *)
(* record: it is created, updated and deleted; the second account tries to *)
(* read and to change it, and to use the first run's token.                *)
EXTENDS AgentMemory

CONSTANTS alice, bob, first, second, third, one, two

MCUserOf == <<alice, bob>>

Req(method, collection, id, body, in) ==
  [method |-> method, collection |-> collection, id |-> id, body |-> body, run |-> in]

MCMenu ==
  { Req("POST", "memories", NoId, one, 1), Req("PUT", "memories", first, two, 1),
    Req("DELETE", "memories", first, one, 1), Req("GET", "memories", first, one, 1),
    Req("PUT", "memories", first, one, 2), Req("GET", "memories", first, one, 2),
    Req("PUT", "episodes", first, one, 2), Req("POST", "episodes", NoId, "stalled", 2),
    Req("POST", "memories", NoId, "malformed", 2), Req("POST", "memories", NoId, "unstorable", 2) }

=============================================================================
